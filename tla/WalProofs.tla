----------------------------- MODULE WalProofs ------------------------------
(***************************************************************************)
(* A log that was opened without a torn end is recovered well, whatever is *)
(* appended to it and wherever a crash cuts it: proofs about Wal.          *)
(***************************************************************************)
EXTENDS Wal, TLAPS, WellFoundedInduction, SequenceTheorems

\* A set of numbers has a least one: every induction below takes the least
\* counterexample.
LEMMA LeastNat ==
  ASSUME NEW T, T \subseteq Nat, T # {}
  PROVE  \E x \in T : \A y \in T : x <= y
<1> DEFINE R == OpToRel(<, Nat)
<1>1. IsWellFoundedOn(R, Nat)
  BY NatLessThanWellFounded, Zenon
<1>2. PICK x \in T : \A y \in T : ~(<<y, x>> \in R)
  <2> HIDE DEF R
  <2> QED
    BY <1>1, WFMin, Zenon
<1>3. ASSUME NEW y \in T PROVE x <= y
  <2>1. x \in Nat /\ y \in Nat /\ ~(y < x)
    BY <1>2, Zenon DEF OpToRel
  <2> QED
    BY <2>1
<1> QED
  BY <1>3, Zenon

\* A definition by recursion: f[x] is base[x], or step computes it from f[next[x]]
\* where next[x] has a smaller rank; ranks are below N.
IsRecursion(S, V, N, rank, stop, base, step, next) ==
  /\ N \in Nat /\ rank \in [S -> Nat]
  /\ base \in [S -> V] /\ step \in [S -> [V -> V]]
  /\ \A x \in S : rank[x] < N
  /\ \A x \in S : x \notin stop => next[x] \in S /\ rank[next[x]] < rank[x]

\* There is a function that satisfies it.
LEMMA Recursion ==
  ASSUME NEW S, NEW V, NEW N, NEW rank, NEW stop, NEW base, NEW step, NEW next,
         IsRecursion(S, V, N, rank, stop, base, step, next)
  PROVE  \E f \in [S -> V] : \A x \in S :
           f[x] = IF x \in stop THEN base[x] ELSE step[x][f[next[x]]]
<1> USE DEF IsRecursion
<1> DEFINE Part(k) == {x \in S : rank[x] < k}
           Solves(f, k) == /\ f \in [Part(k) -> V]
                           /\ \A x \in Part(k) :
                                f[x] = IF x \in stop THEN base[x] ELSE step[x][f[next[x]]]
           Bad == {k \in Nat : ~\E f : Solves(f, k)}
<1>1. ASSUME Bad # {} PROVE FALSE
  <2>1. PICK k \in Bad : \A j \in Bad : k <= j
    BY <1>1, LeastNat, Zenon
  <2>2. 0 \notin Bad
    <3>1. Part(0) = {}
      OBVIOUS
    <3>2. Solves([x \in {} |-> base[x]], 0)
      BY <3>1, Zenon
    <3> QED
      BY <3>2, Zenon
  <2>3. k \in Nat /\ k # 0
    BY <2>1, <2>2, Zenon
  <2>4. k - 1 \in Nat /\ k - 1 \notin Bad
    <3> HIDE DEF Bad
    <3> QED
      BY <2>1, <2>3
  <2>5. PICK f : Solves(f, k - 1)
    BY <2>4, Zenon
  <2> DEFINE g == [x \in Part(k) |-> IF x \in stop THEN base[x] ELSE step[x][f[next[x]]]]
  <2>6. ASSUME NEW x \in Part(k), x \notin stop PROVE next[x] \in Part(k - 1) /\ next[x] \in Part(k)
    <3>1. x \in S /\ rank[x] < k /\ next[x] \in S /\ rank[next[x]] < rank[x]
      BY <2>6, Zenon
    <3>2. rank[x] \in Nat /\ rank[next[x]] \in Nat
      BY <3>1, Zenon
    <3> QED
      BY <3>1, <3>2
  <2>7. \A x \in Part(k - 1) : f[x] = IF x \in stop THEN base[x] ELSE step[x][f[next[x]]]
    BY <2>5, Zenon
  <2>8. \A x \in Part(k - 1) : x \in Part(k) /\ g[x] = f[x]
    <3> SUFFICES ASSUME NEW x \in Part(k - 1) PROVE x \in Part(k) /\ g[x] = f[x]
      BY Zenon
    <3>1. x \in Part(k)
      OBVIOUS
    <3> QED
      BY <2>7, <3>1, Zenon
  <2>9. g \in [Part(k) -> V]
    <3> SUFFICES ASSUME NEW x \in Part(k)
                 PROVE  (IF x \in stop THEN base[x] ELSE step[x][f[next[x]]]) \in V
      BY Zenon
    <3>1. CASE x \in stop
      BY <3>1, Zenon
    <3>2. CASE x \notin stop
      <4>1. f[next[x]] \in V
        BY <2>5, <2>6, <3>2, Zenon
      <4> QED
        BY <3>2, <4>1
    <3> QED
      BY <3>1, <3>2, Zenon
  <2>10. \A x \in Part(k) : g[x] = IF x \in stop THEN base[x] ELSE step[x][g[next[x]]]
    BY <2>6, <2>8, Zenon
  <2>11. Solves(g, k)
    BY <2>9, <2>10, Zenon
  <2> QED
    BY <2>1, <2>11, Zenon
<1>2. PICK f : Solves(f, N)
  BY <1>1, Zenon
<1>3. Part(N) = S
  BY Zenon
<1> QED
  BY <1>2, <1>3, Zenon

\* And it takes its values in V, whatever solution of the equations it is.
LEMMA RecursionTyped ==
  ASSUME NEW S, NEW V, NEW N, NEW rank, NEW stop, NEW base, NEW step, NEW next,
         IsRecursion(S, V, N, rank, stop, base, step, next), NEW g,
         \A x \in S : x \in stop => g[x] = base[x],
         \A x \in S : x \notin stop /\ g[next[x]] \in V => g[x] = step[x][g[next[x]]]
  PROVE  \A x \in S : g[x] \in V
<1> USE DEF IsRecursion
<1> DEFINE Bad == {rank[x] : x \in {y \in S : g[y] \notin V}}
<1>1. Bad \subseteq Nat
  OBVIOUS
<1>2. ASSUME Bad # {} PROVE FALSE
  <2>1. PICK k \in Bad : \A j \in Bad : k <= j
    <3> HIDE DEF Bad
    <3> QED
      BY <1>1, <1>2, LeastNat, Zenon
  <2>2. PICK x \in S : g[x] \notin V /\ k = rank[x]
    BY <2>1, Zenon
  <2>3. CASE x \in stop
    <3>1. g[x] = base[x] /\ base[x] \in V
      BY <2>3, Zenon
    <3> QED
      BY <2>2, <3>1, Zenon
  <2>4. CASE x \notin stop
    <3>1. next[x] \in S /\ rank[next[x]] < rank[x] /\ rank[x] \in Nat /\ rank[next[x]] \in Nat
      BY <2>4, Zenon
    <3>2. g[next[x]] \in V
      <4>1. rank[next[x]] \notin Bad
        <5> HIDE DEF Bad
        <5> QED
          BY <2>1, <2>2, <3>1
      <4> QED
        BY <3>1, <4>1, Zenon
    <3>3. g[x] = step[x][g[next[x]]]
      BY <2>4, <3>2, Zenon
    <3> QED
      BY <2>2, <3>2, <3>3
  <2> QED
    BY <2>3, <2>4, Zenon
<1>3. ASSUME NEW x \in S, g[x] \notin V PROVE FALSE
  <2>1. rank[x] \in Bad
    BY <1>3, Zenon
  <2> QED
    BY <1>2, <2>1, Zenon
<1> QED
  BY <1>3, Zenon

-----------------------------------------------------------------------------
\* The length fields.

\* The bytes that remain of n.
LEMMA ShiftsDef ==
  ASSUME NEW n \in Nat
  PROVE  /\ Shifts(n) \in [0 .. LenSize -> Nat] /\ Shifts(n)[0] = n
         /\ \A i \in 1 .. LenSize : Shifts(n)[i] = Shifts(n)[i - 1] \div 256
<1> DEFINE S == 0 .. LenSize
           Def(s) == [i \in S |-> IF i = 0 THEN n ELSE s[i - 1] \div 256]
           stop == {0}
           base == [i \in S |-> n]
           step == [i \in S |-> [x \in Nat |-> x \div 256]]
           next == [i \in S |-> i - 1]
           rank == [i \in S |-> i]
           bound == LenSize + 1
<1>0. LenSize \in Nat \ {0} /\ 0 \in S
  BY WalAssumption
<1>1. base \in [S -> Nat] /\ step \in [S -> [Nat -> Nat]] /\ rank \in [S -> Nat]
  OBVIOUS
<1>2. \A i \in S : i \notin stop => next[i] \in S /\ rank[next[i]] < rank[i]
  BY <1>0
<1>3. bound \in Nat /\ \A i \in S : rank[i] < bound
  BY <1>0
<1> DEFINE Rec == IsRecursion(S, Nat, bound, rank, stop, base, step, next)
<1>4. Rec
  <2> HIDE DEF base, step, next, rank, bound, stop, S
  <2> QED
    BY <1>1, <1>2, <1>3, Zenon DEF IsRecursion
<1>5. PICK f \in [S -> Nat] : \A i \in S : f[i] = IF i \in stop THEN base[i] ELSE step[i][f[next[i]]]
  <2> HIDE DEF base, step, next, rank, bound, stop, S
  <2> QED
    BY <1>4, Recursion
<1>6. f = Def(f)
  <2>1. ASSUME NEW i \in S, i # 0 PROVE f[i] = f[i - 1] \div 256
    <3>1. i - 1 \in S /\ next[i] = i - 1
      BY <1>0, <2>1
    <3> QED
      BY <1>5, <2>1, <3>1, Zenon
  <2>2. f[0] = n
    BY <1>0, <1>5, Zenon
  <2> QED
    BY <2>1, <2>2, Zenon
<1>7. Shifts(n) = Def(Shifts(n))
  <2>1. Shifts(n) = CHOOSE s : s = Def(s)
    BY Zenon DEF Shifts
  <2> HIDE DEF Def
  <2> QED
    BY <1>6, <2>1, Zenon
<1> DEFINE g == Shifts(n)
<1>8. g = [i \in S |-> IF i = 0 THEN n ELSE g[i - 1] \div 256]
  BY <1>7, Zenon
<1>9. g[0] = n /\ \A i \in S : i # 0 => g[i] = g[i - 1] \div 256
  <2> HIDE DEF g
  <2> QED
    BY <1>0, <1>8, Zenon
<1>10. \A i \in S : g[i] \in Nat
  <2>1. \A i \in S : i \in stop => g[i] = base[i]
    BY <1>0, <1>9, Zenon
  <2>2. \A i \in S : i \notin stop /\ g[next[i]] \in Nat => g[i] = step[i][g[next[i]]]
    <3> HIDE DEF g
    <3> QED
      BY <1>0, <1>9, Zenon
  <2> HIDE DEF g, base, step, next, rank, bound, stop, S
  <2> QED
    BY <1>4, <2>1, <2>2, RecursionTyped
<1>11. g \in [S -> Nat]
  <2> HIDE DEF g
  <2> QED
    BY <1>8, <1>10, Zenon
<1>12. \A i \in 1 .. LenSize : i \in S /\ i # 0
  BY <1>0
<1> QED
  BY <1>9, <1>11, <1>12, Zenon

\* What read_u32_le has read from its last byte down to byte i.
IsRead(v, data, p) ==
  /\ v \in [0 .. LenSize -> Nat] /\ ReadLE(data, p) = v[0] /\ v[LenSize] = 0
  /\ \A i \in 0 .. LenSize - 1 : v[i] = data[p + i] + 256 * v[i + 1]

\* Every run of bytes can be read as a number.
LEMMA ReadDef ==
  ASSUME NEW data, NEW p \in Int, \A i \in 0 .. LenSize - 1 : data[p + i] \in Nat
  PROVE  \E v : IsRead(v, data, p)
<1> DEFINE S == 0 .. LenSize
           Def(v) == [i \in S |-> IF i = LenSize THEN 0 ELSE data[p + i] + 256 * v[i + 1]]
           stop == {LenSize}
           base == [i \in S |-> 0]
           step == [i \in S |-> [x \in Nat |-> IF i = LenSize THEN 0 ELSE data[p + i] + 256 * x]]
           next == [i \in S |-> i + 1]
           rank == [i \in S |-> LenSize - i]
           bound == LenSize + 1
           Rec == IsRecursion(S, Nat, bound, rank, stop, base, step, next)
           g == CHOOSE v : v = Def(v)
<1>0. LenSize \in Nat \ {0} /\ 0 \in S /\ LenSize \in S
  BY WalAssumption
<1>1. base \in [S -> Nat] /\ step \in [S -> [Nat -> Nat]] /\ rank \in [S -> Nat]
  <2>1. \A i \in S, x \in Nat : (IF i = LenSize THEN 0 ELSE data[p + i] + 256 * x) \in Nat
    <3> SUFFICES ASSUME NEW i \in S, NEW x \in Nat, i # LenSize
                 PROVE  data[p + i] + 256 * x \in Nat
      BY Zenon
    <3>1. data[p + i] \in Nat
      BY <1>0
    <3> QED
      BY <3>1
  <2>2. \A i \in S : LenSize - i \in Nat
    BY <1>0
  <2> QED
    BY <2>1, <2>2
<1>2. \A i \in S : i \notin stop => next[i] \in S /\ rank[next[i]] < rank[i]
  BY <1>0
<1>3. bound \in Nat /\ \A i \in S : rank[i] < bound
  BY <1>0
<1>4. Rec
  <2> HIDE DEF base, step, next, rank, bound, stop, S
  <2> QED
    BY <1>1, <1>2, <1>3, Zenon DEF IsRecursion
<1>5. PICK f \in [S -> Nat] : \A i \in S : f[i] = IF i \in stop THEN base[i] ELSE step[i][f[next[i]]]
  <2> HIDE DEF base, step, next, rank, bound, stop, S
  <2> QED
    BY <1>4, Recursion
<1>6. f = Def(f)
  <2>1. ASSUME NEW i \in S, i # LenSize PROVE f[i] = data[p + i] + 256 * f[i + 1]
    <3>1. i + 1 \in S /\ next[i] = i + 1
      BY <1>0, <2>1
    <3> QED
      BY <1>5, <2>1, <3>1, Zenon
  <2>2. f[LenSize] = 0
    BY <1>0, <1>5, Zenon
  <2> QED
    BY <2>1, <2>2
<1>7. g = Def(g)
  <2> HIDE DEF Def
  <2> QED
    BY <1>6, Zenon
<1>8. g = [i \in S |-> IF i = LenSize THEN 0 ELSE data[p + i] + 256 * g[i + 1]]
  BY <1>7, Zenon
<1>9. ReadLE(data, p) = g[0]
  BY Zenon DEF ReadLE
<1> HIDE DEF g
<1>10. g[LenSize] = 0 /\ \A i \in S : i # LenSize => g[i] = data[p + i] + 256 * g[i + 1]
  BY <1>0, <1>8
<1>11. \A i \in S : g[i] \in Nat
  <2>1. \A i \in S : i \in stop => g[i] = base[i]
    BY <1>0, <1>10, Zenon
  <2>2. \A i \in S : i \notin stop /\ g[next[i]] \in Nat => g[i] = step[i][g[next[i]]]
    BY <1>0, <1>10
  <2> HIDE DEF base, step, next, rank, bound, stop, S
  <2> QED
    BY <1>4, <2>1, <2>2, RecursionTyped
<1>12. g \in [S -> Nat]
  BY <1>8, <1>11, Zenon
<1>13. ASSUME NEW i \in 0 .. LenSize - 1 PROVE g[i] = data[p + i] + 256 * g[i + 1]
  <2>1. i \in S /\ i # LenSize
    BY <1>0
  <2> QED
    BY <1>10, <2>1, Zenon
<1>14. IsRead(g, data, p)
  BY <1>9, <1>10, <1>12, <1>13, Zenon DEF IsRead
<1> QED
  BY <1>14, Zenon

\* A length that is read where it was put, and that fits, is the one that was put.
LEMMA LengthRead ==
  ASSUME NEW n \in Nat, Shifts(n)[LenSize] = 0, NEW data, NEW p \in Int,
         \A i \in 1 .. LenSize : data[p + i - 1] = PutLE(n)[i]
  PROVE  ReadLE(data, p) = n
<1> DEFINE s == Shifts(n)
<1>0. LenSize \in Nat \ {0}
  BY WalAssumption, Zenon
<1>1. /\ s \in [0 .. LenSize -> Nat] /\ s[0] = n /\ s[LenSize] = 0
      /\ \A i \in 1 .. LenSize : s[i] = s[i - 1] \div 256
  BY ShiftsDef
<1>2. \A i \in 1 .. LenSize : data[p + i - 1] = s[i - 1] % 256
  BY Zenon DEF PutLE
<1> HIDE DEF s
<1>3. ASSUME NEW i \in 0 .. LenSize - 1
      PROVE  data[p + i] = s[i] % 256 /\ s[i + 1] = s[i] \div 256 /\ s[i] \in Nat /\ s[i + 1] \in Nat
  <2>1. i + 1 \in 1 .. LenSize /\ (i + 1) - 1 = i /\ p + (i + 1) - 1 = p + i /\ i \in 0 .. LenSize
        /\ i + 1 \in 0 .. LenSize
    BY <1>0
  <2>2. data[p + (i + 1) - 1] = s[(i + 1) - 1] % 256 /\ s[i + 1] = s[(i + 1) - 1] \div 256
    BY <1>1, <1>2, <2>1, Zenon
  <2> QED
    BY <1>1, <2>1, <2>2
<1>4. \A i \in 0 .. LenSize - 1 : data[p + i] \in Nat
  BY <1>3
<1>5. PICK v : IsRead(v, data, p)
  BY <1>4, ReadDef, Zenon
<1>6. /\ v \in [0 .. LenSize -> Nat] /\ ReadLE(data, p) = v[0] /\ v[LenSize] = 0
      /\ \A i \in 0 .. LenSize - 1 : v[i] = data[p + i] + 256 * v[i + 1]
  BY <1>5, Zenon DEF IsRead
<1> DEFINE Bad == {k \in 0 .. LenSize : v[LenSize - k] # s[LenSize - k]}
<1>7. ASSUME Bad # {} PROVE FALSE
  <2>1. PICK k \in Bad : \A j \in Bad : k <= j
    <3>1. Bad \subseteq Nat
      BY <1>0
    <3> HIDE DEF Bad
    <3> QED
      BY <1>7, <3>1, LeastNat, Zenon
  <2>2. k \in 0 .. LenSize /\ k # 0
    BY <1>0, <1>1, <1>6
  <2> DEFINE i == LenSize - k
  <2>3. i \in 0 .. LenSize - 1 /\ k - 1 \in 0 .. LenSize /\ LenSize - (k - 1) = i + 1
        /\ ~(k <= k - 1)
    BY <1>0, <2>2
  <2>4. v[i + 1] = s[i + 1]
    BY <2>1, <2>3, Zenon
  <2>5. v[i] # s[i]
    BY <2>1, Zenon
  <2> HIDE DEF i
  <2>6. v[i] = (s[i] % 256) + 256 * (s[i] \div 256) /\ s[i] \in Nat
    BY <1>3, <1>6, <2>3, <2>4
  <2> QED
    BY <2>5, <2>6
<1>8. v[0] = s[0]
  <2>1. LenSize \in 0 .. LenSize /\ LenSize - LenSize = 0
    BY <1>0
  <2> QED
    BY <1>7, <2>1, Zenon
<1> QED
  BY <1>1, <1>6, <1>8, Zenon

-----------------------------------------------------------------------------
\* The encoding of one record.

\* The records append takes.
FitRecords == {r \in WalRecords : Fits(r)}

\* st is s, of length m, and then t, of length n.
IsJoin(st, s, m, t, n) ==
  (\A i \in 1 .. m : st[i] = s[i]) /\ \A i \in 1 .. n : st[m + i] = t[i]

\* What \o does.
LEMMA ConcatIs ==
  ASSUME NEW T, NEW s \in Seq(T), NEW t \in Seq(T)
  PROVE  s \o t \in Seq(T) /\ Len(s \o t) = Len(s) + Len(t) /\ IsJoin(s \o t, s, Len(s), t, Len(t))
<1> DEFINE m == Len(s)
           n == Len(t)
           st == s \o t
<1>1. m \in Nat /\ n \in Nat
  BY LenProperties, Zenon
<1>2. /\ st \in Seq(T) /\ Len(st) = m + n
      /\ \A i \in 1 .. m + n : st[i] = IF i <= m THEN s[i] ELSE t[i - m]
  BY ConcatProperties, Zenon
<1> HIDE DEF st, m, n
<1>3. IsJoin(st, s, m, t, n)
  BY <1>1, <1>2 DEF IsJoin
<1> QED
  BY <1>2, <1>3, Zenon DEF st, m, n

\* A length field is LenSize bytes.
LEMMA PutIs ==
  ASSUME NEW n \in Nat
  PROVE  PutLE(n) \in Seq(Byte) /\ LenSize = Len(PutLE(n))
<1>0. LenSize \in Nat
  BY WalAssumption, Zenon
<1>1. ASSUME NEW i \in 1 .. LenSize PROVE Shifts(n)[i - 1] % 256 \in Byte
  <2>1. i - 1 \in 0 .. LenSize
    BY <1>0
  <2>2. Shifts(n) \in [0 .. LenSize -> Nat]
    BY ShiftsDef, Zenon
  <2>3. Shifts(n)[i - 1] \in Nat
    BY <2>1, <2>2, Zenon
  <2> QED
    BY <2>3 DEF Byte
<1> DEFINE f == PutLE(n)
<1>2. f \in [1 .. LenSize -> Byte]
  BY <1>1, Zenon DEF PutLE
<1> HIDE DEF f
<1>3. f \in Seq(Byte)
  BY <1>0, <1>2, SeqDef, Zenon
<1>4. 1 .. Len(f) = 1 .. LenSize /\ Len(f) \in Nat
  BY <1>2, <1>3, LenProperties, Zenon
<1>5. Len(f) = LenSize
  BY <1>0, <1>4
<1> QED
  BY <1>3, <1>5, Zenon DEF f

\* The fields of a record.
LEMMA RecordIs ==
  ASSUME NEW r \in WalRecords
  PROVE  /\ r.op \in Byte /\ r.key \in Seq(Byte) /\ r.value \in Seq(Byte)
         /\ r = [op |-> r.op, key |-> r.key, value |-> r.value]
<1>1. /\ r.op \in {0, 1} /\ r.key \in WalKeys /\ r.value \in WalValues \cup {<<>>}
      /\ r = [op |-> r.op, key |-> r.key, value |-> r.value]
  BY Zenon DEF WalRecords, OpPut, OpDelete
<1>2. 0 \in Byte /\ 1 \in Byte
  BY DEF Byte
<1>3. <<>> \in Seq(Byte)
  BY EmptySeq, Zenon
<1> QED
  BY <1>1, <1>2, <1>3, WalAssumption, Zenon

\* The ranges of the fields of a record lie one after the other.
LEMMA FieldRanges ==
  ASSUME NEW n \in Nat, NEW k \in Nat
  PROVE  /\ 1 \in 1 .. 1 + n /\ 1 \in 1 .. 1
         /\ \A i \in 1 .. 1 + n + k : i \in 1 .. 1 + n + k + n
         /\ \A i \in 1 .. 1 + n : i \in 1 .. 1 + n + k
         /\ \A i \in 1 .. n : 1 + i \in 1 .. 1 + n
         /\ \A i \in 1 .. k : 1 + n + i \in 1 .. 1 + n + k
         /\ \A i \in 1 .. n : 1 + n + k + i \in 1 .. 1 + n + k + n
  OBVIOUS

\* Where the fields of a record are in its encoding e; k and v are the lengths.
IsEncoding(e, r, k, v) ==
  /\ e \in Seq(Byte) /\ k \in Nat /\ v \in Nat
  /\ Len(e) = 1 + LenSize + k + LenSize + v
  /\ e[1] = r.op
  /\ \A i \in 1 .. LenSize : e[1 + i] = PutLE(k)[i]
  /\ \A i \in 1 .. k : e[1 + LenSize + i] = r.key[i]
  /\ \A i \in 1 .. LenSize : e[1 + LenSize + k + i] = PutLE(v)[i]
  /\ \A i \in 1 .. v : e[1 + LenSize + k + LenSize + i] = r.value[i]

\* That is where Encode puts them.
LEMMA EncodeIs ==
  ASSUME NEW r \in WalRecords
  PROVE  IsEncoding(Encode(r), r, Len(r.key), Len(r.value))
<1> DEFINE k == Len(r.key)
           v == Len(r.value)
           a == <<r.op>>
           b == PutLE(k)
           d == PutLE(v)
           ab == a \o b
           abk == ab \o r.key
           abkd == abk \o d
           e == abkd \o r.value
<1>0. LenSize \in Nat \ {0}
  BY WalAssumption, Zenon
<1>1. k \in Nat /\ v \in Nat /\ r.key \in Seq(Byte) /\ r.value \in Seq(Byte) /\ r.op \in Byte
      /\ k = Len(r.key) /\ v = Len(r.value)
  BY RecordIs, LenProperties, Zenon
<1>2. a \in Seq(Byte) /\ 1 = Len(a) /\ a[1] = r.op
  BY <1>1
<1>3. b \in Seq(Byte) /\ LenSize = Len(b) /\ d \in Seq(Byte) /\ LenSize = Len(d)
  BY <1>1, PutIs, Zenon
<1>4. Encode(r) = e
  BY Zenon DEF Encode
<1> HIDE DEF a, b, d, k, v
<1>5. ab \in Seq(Byte) /\ Len(ab) = 1 + LenSize /\ IsJoin(ab, a, 1, b, LenSize)
  BY <1>2, <1>3, ConcatIs, Zenon
<1> HIDE DEF ab
<1>6. abk \in Seq(Byte) /\ Len(abk) = 1 + LenSize + k /\ IsJoin(abk, ab, 1 + LenSize, r.key, k)
  BY <1>1, <1>5, ConcatIs, Zenon
<1> HIDE DEF abk
<1>7. /\ abkd \in Seq(Byte) /\ Len(abkd) = 1 + LenSize + k + LenSize
      /\ IsJoin(abkd, abk, 1 + LenSize + k, d, LenSize)
  <2>1. /\ abkd \in Seq(Byte) /\ Len(abkd) = Len(abk) + Len(d)
        /\ IsJoin(abkd, abk, Len(abk), d, Len(d))
    BY <1>3, <1>6, ConcatIs, Zenon
  <2> HIDE DEF abkd
  <2> QED
    BY <1>3, <1>6, <2>1, Zenon
<1> HIDE DEF abkd
<1>8. /\ e \in Seq(Byte) /\ Len(e) = 1 + LenSize + k + LenSize + v
      /\ IsJoin(e, abkd, 1 + LenSize + k + LenSize, r.value, v)
  BY <1>1, <1>7, ConcatIs, Zenon
<1> HIDE DEF e
<1> USE DEF IsJoin
<1>9. /\ 1 \in 1 .. 1 + LenSize /\ 1 \in 1 .. 1
      /\ \A i \in 1 .. 1 + LenSize + k : i \in 1 .. 1 + LenSize + k + LenSize
      /\ \A i \in 1 .. 1 + LenSize : i \in 1 .. 1 + LenSize + k
      /\ \A i \in 1 .. LenSize : 1 + i \in 1 .. 1 + LenSize
      /\ \A i \in 1 .. k : 1 + LenSize + i \in 1 .. 1 + LenSize + k
      /\ \A i \in 1 .. LenSize : 1 + LenSize + k + i \in 1 .. 1 + LenSize + k + LenSize
  BY <1>0, <1>1, FieldRanges, Zenon
<1>10. \A i \in 1 .. 1 + LenSize + k : e[i] = abk[i]
  <2> TAKE i \in 1 .. 1 + LenSize + k
  <2>1. i \in 1 .. 1 + LenSize + k + LenSize
    BY <1>9, Zenon
  <2> QED
    BY <1>7, <1>8, <2>1, Zenon
<1>11. \A i \in 1 .. 1 + LenSize : e[i] = ab[i]
  <2> TAKE i \in 1 .. 1 + LenSize
  <2>1. i \in 1 .. 1 + LenSize + k
    BY <1>9, Zenon
  <2> QED
    BY <1>6, <1>10, <2>1, Zenon
<1>12. e[1] = r.op
  <2>1. 1 \in 1 .. 1 + LenSize /\ 1 \in 1 .. 1
    BY <1>9, Zenon
  <2> QED
    BY <1>2, <1>5, <1>11, <2>1, Zenon
<1>13. \A i \in 1 .. LenSize : e[1 + i] = b[i]
  <2> TAKE i \in 1 .. LenSize
  <2>1. 1 + i \in 1 .. 1 + LenSize
    BY <1>9, Zenon
  <2> QED
    BY <1>5, <1>11, <2>1, Zenon
<1>14. \A i \in 1 .. k : e[1 + LenSize + i] = r.key[i]
  <2> TAKE i \in 1 .. k
  <2>1. 1 + LenSize + i \in 1 .. 1 + LenSize + k
    BY <1>9, Zenon
  <2> QED
    BY <1>6, <1>10, <2>1, Zenon
<1>15. \A i \in 1 .. LenSize : e[1 + LenSize + k + i] = d[i]
  <2> TAKE i \in 1 .. LenSize
  <2>1. 1 + LenSize + k + i \in 1 .. 1 + LenSize + k + LenSize
    BY <1>9, Zenon
  <2> QED
    BY <1>7, <1>8, <2>1, Zenon
<1> QED
  BY <1>1, <1>4, <1>8, <1>12, <1>13, <1>14, <1>15, Zenon DEF IsEncoding, b, d, k, v

-----------------------------------------------------------------------------
\* Reading one record.

\* The bytes of data from pos on are those of r, as far as data goes.
Agrees(data, pos, r) ==
  \A i \in 1 .. Len(Encode(r)) : pos + i - 1 <= Len(data) => data[pos + i - 1] = Encode(r)[i]

\* A string that is in data at p is the piece of data there.
LEMMA PieceIs ==
  ASSUME NEW data \in Seq(Byte), NEW p \in Nat \ {0}, NEW w \in Seq(Byte),
         (p + Len(w)) - 1 <= Len(data), \A i \in 1 .. Len(w) : data[p + i - 1] = w[i]
  PROVE  SubSeq(data, p, (p + Len(w)) - 1) = w
<1> DEFINE n == Len(w)
           q == (p + n) - 1
           u == SubSeq(data, p, q)
<1>1. n \in Nat /\ q \in Int /\ (p <= q => q - p + 1 = n) /\ (~(p <= q) => n = 0) /\ q - p + 1 = n
  BY LenProperties
<1>2. \A i \in p .. q : data[i] \in Byte
  BY <1>1, LenProperties
<1>3. /\ u \in Seq(Byte) /\ Len(u) = IF p <= q THEN q - p + 1 ELSE 0
      /\ \A i \in 1 .. q - p + 1 : u[i] = data[p + i - 1]
  <2> HIDE DEF q
  <2> QED
    BY <1>1, <1>2, SubSeqProperties
<1> HIDE DEF u, q, n
<1>4. Len(u) = n /\ \A i \in 1 .. n : u[i] = w[i]
  BY <1>1, <1>3, Zenon DEF n
<1>5. u = w
  BY <1>3, <1>4, SeqEqual, Zenon DEF n
<1> QED
  BY <1>5, Zenon DEF u, q, n

\* Replay's checks find a record complete if and only if all of it is there, and then
\* it is read as it was written.
LEMMA RecordRead ==
  ASSUME NEW data \in Seq(Byte), NEW pos \in Nat \ {0}, NEW r \in FitRecords, Agrees(data, pos, r)
  PROVE  /\ IsComplete(data, pos) <=> pos + Len(Encode(r)) - 1 <= Len(data)
         /\ IsComplete(data, pos) => /\ NextAt(data, pos) = pos + Len(Encode(r))
                                     /\ RecordAt(data, pos) = r
<1> DEFINE k == Len(r.key)
           v == Len(r.value)
           e == Encode(r)
           N == Len(data)
           size == 1 + LenSize + k + LenSize + v
<1>0. LenSize \in Nat \ {0} /\ N \in Nat
  BY WalAssumption, LenProperties, Zenon
<1>1. r \in WalRecords /\ Shifts(k)[LenSize] = 0 /\ Shifts(v)[LenSize] = 0
  BY Zenon DEF FitRecords, Fits
<1>2. /\ k \in Nat /\ v \in Nat /\ LenSize \in Nat \ {0} /\ N \in Nat
  <2>1. IsEncoding(e, r, k, v)
    BY <1>1, EncodeIs, Zenon
  <2> QED
    BY <1>0, <2>1, Zenon DEF IsEncoding
<1>3. /\ Len(e) = size /\ e[1] = r.op
      /\ \A i \in 1 .. LenSize : e[1 + i] = PutLE(k)[i]
      /\ \A i \in 1 .. k : e[1 + LenSize + i] = r.key[i]
      /\ \A i \in 1 .. LenSize : e[1 + LenSize + k + i] = PutLE(v)[i]
      /\ \A i \in 1 .. v : e[1 + LenSize + k + LenSize + i] = r.value[i]
  <2>1. IsEncoding(e, r, k, v)
    BY <1>1, EncodeIs, Zenon
  <2> HIDE DEF e, k, v
  <2> QED
    BY <2>1, Zenon DEF IsEncoding
<1>4. r.key \in Seq(Byte) /\ r.value \in Seq(Byte) /\ k = Len(r.key) /\ v = Len(r.value)
      /\ r = [op |-> r.op, key |-> r.key, value |-> r.value]
  BY <1>1, RecordIs, Zenon
<1>5. \A i \in 1 .. size : pos + i - 1 <= N => data[pos + i - 1] = e[i]
  BY <1>3, Zenon DEF Agrees
<1> HIDE DEF e, k, v, N
<1>6. ASSUME pos + LenSize <= N PROVE ReadLE(data, pos + 1) = k
  <2>1. ASSUME NEW i \in 1 .. LenSize PROVE data[(pos + 1) + i - 1] = PutLE(k)[i]
    <3>1. 1 + i \in 1 .. size /\ pos + (1 + i) - 1 <= N /\ (pos + 1) + i - 1 = pos + (1 + i) - 1
      BY <1>2, <1>6
    <3>2. data[pos + (1 + i) - 1] = e[1 + i]
      BY <1>5, <3>1, Zenon
    <3>3. e[1 + i] = PutLE(k)[i]
      BY <1>3, Zenon
    <3> QED
      BY <3>1, <3>2, <3>3, Zenon
  <2>2. pos + 1 \in Int
    OBVIOUS
  <2> QED
    BY <1>1, <1>2, <2>1, <2>2, LengthRead, Zenon
<1>7. ASSUME pos + LenSize + k + LenSize <= N PROVE ReadLE(data, pos + 1 + LenSize + k) = v
  <2>1. ASSUME NEW i \in 1 .. LenSize PROVE data[(pos + 1 + LenSize + k) + i - 1] = PutLE(v)[i]
    <3>1. /\ 1 + LenSize + k + i \in 1 .. size /\ pos + (1 + LenSize + k + i) - 1 <= N
          /\ (pos + 1 + LenSize + k) + i - 1 = pos + (1 + LenSize + k + i) - 1
      BY <1>2, <1>7
    <3>2. data[pos + (1 + LenSize + k + i) - 1] = e[1 + LenSize + k + i]
      BY <1>5, <3>1, Zenon
    <3>3. e[1 + LenSize + k + i] = PutLE(v)[i]
      BY <1>3, Zenon
    <3> QED
      BY <3>1, <3>2, <3>3, Zenon
  <2>2. pos + 1 + LenSize + k \in Int
    BY <1>2
  <2> QED
    BY <1>1, <1>2, <2>1, <2>2, LengthRead, Zenon
<1>8. IsComplete(data, pos) <=> pos + size - 1 <= N
  <2>1. ASSUME ~(pos + LenSize <= N) PROVE ~IsComplete(data, pos) /\ ~(pos + size - 1 <= N)
    <3>1. IsComplete(data, pos) => (pos + 1 + LenSize) - 1 <= N
      BY Zenon DEF IsComplete, KeyAt, N
    <3> QED
      BY <1>2, <2>1, <3>1
  <2>2. ASSUME pos + LenSize <= N, ~(pos + LenSize + k + LenSize <= N)
        PROVE  ~IsComplete(data, pos) /\ ~(pos + size - 1 <= N)
    <3>1. IsComplete(data, pos) => (pos + 1 + LenSize + k + LenSize) - 1 <= N
      BY <1>6, <2>2, Zenon DEF IsComplete, KeyAt, ValueLenAt, ValueAt, N
    <3> QED
      BY <1>2, <2>2, <3>1
  <2>3. ASSUME pos + LenSize <= N, pos + LenSize + k + LenSize <= N
        PROVE  IsComplete(data, pos) <=> pos + size - 1 <= N
    BY <1>2, <1>6, <1>7, <2>3 DEF IsComplete, KeyAt, ValueLenAt, ValueAt, NextAt, N
  <2> QED
    BY <2>1, <2>2, <2>3, Zenon
<1>9. ASSUME IsComplete(data, pos)
      PROVE  NextAt(data, pos) = pos + size /\ RecordAt(data, pos) = r
  <2> DEFINE p == pos + 1 + LenSize
             q == pos + 1 + LenSize + k + LenSize
  <2>1. /\ pos + size - 1 <= N /\ pos + LenSize <= N /\ pos + LenSize + k + LenSize <= N
        /\ p \in Nat \ {0} /\ q \in Nat \ {0} /\ (p + k) - 1 <= N /\ (q + v) - 1 <= N
    BY <1>2, <1>8, <1>9
  <2>2. /\ KeyAt(data, pos) = p /\ ValueLenAt(data, pos) = p + k
        /\ ValueAt(data, pos) = q /\ NextAt(data, pos) = q + v
    BY <1>2, <1>6, <1>7, <2>1, Zenon DEF KeyAt, ValueLenAt, ValueAt, NextAt
  <2>3. q + v = pos + size
    BY <1>2
  <2>4. data[pos] = r.op
    <3>1. 1 \in 1 .. size /\ pos + 1 - 1 <= N /\ pos + 1 - 1 = pos
      BY <1>2, <2>1
    <3> QED
      BY <1>3, <1>5, <3>1, Zenon
  <2>5. \A i \in 1 .. k : data[p + i - 1] = r.key[i]
    <3> TAKE i \in 1 .. k
    <3>1. /\ 1 + LenSize + i \in 1 .. size /\ pos + (1 + LenSize + i) - 1 <= N
          /\ p + i - 1 = pos + (1 + LenSize + i) - 1
      BY <1>2, <2>1
    <3>2. data[pos + (1 + LenSize + i) - 1] = e[1 + LenSize + i]
      BY <1>5, <3>1, Zenon
    <3>3. e[1 + LenSize + i] = r.key[i]
      BY <1>3, Zenon
    <3> QED
      BY <3>1, <3>2, <3>3, Zenon
  <2>6. \A i \in 1 .. v : data[q + i - 1] = r.value[i]
    <3> TAKE i \in 1 .. v
    <3>1. /\ 1 + LenSize + k + LenSize + i \in 1 .. size
          /\ pos + (1 + LenSize + k + LenSize + i) - 1 <= N
          /\ q + i - 1 = pos + (1 + LenSize + k + LenSize + i) - 1
      BY <1>2, <2>1
    <3>2. data[pos + (1 + LenSize + k + LenSize + i) - 1] = e[1 + LenSize + k + LenSize + i]
      BY <1>5, <3>1, Zenon
    <3>3. e[1 + LenSize + k + LenSize + i] = r.value[i]
      BY <1>3, Zenon
    <3> QED
      BY <3>1, <3>2, <3>3, Zenon
  <2> HIDE DEF p, q
  <2>7. SubSeq(data, p, (p + k) - 1) = r.key
    BY <1>4, <2>1, <2>5, PieceIs, Zenon DEF N, k
  <2>8. SubSeq(data, q, (q + v) - 1) = r.value
    BY <1>4, <2>1, <2>6, PieceIs, Zenon DEF N, v
  <2>9. RecordAt(data, pos) = [op |-> r.op, key |-> r.key, value |-> r.value]
    BY <2>2, <2>4, <2>7, <2>8, Zenon DEF RecordAt
  <2> QED
    BY <1>4, <2>2, <2>3, <2>9, Zenon
<1> QED
  BY <1>3, <1>8, <1>9, Zenon DEF e, N

-----------------------------------------------------------------------------
\* Reading all records.

\* A length field that is there holds a length.
LEMMA LengthIsNat ==
  ASSUME NEW data \in Seq(Byte), NEW p \in Nat \ {0}, (p + LenSize) - 1 <= Len(data)
  PROVE  ReadLE(data, p) \in Nat
<1>0. LenSize \in Nat \ {0} /\ Len(data) \in Nat
  BY WalAssumption, LenProperties, Zenon
<1>1. ASSUME NEW i \in 0 .. LenSize - 1 PROVE data[p + i] \in Nat
  <2>1. p + i \in 1 .. Len(data)
    BY <1>0
  <2>2. data[p + i] \in Byte
    BY <2>1, ElementOfSeq, Zenon
  <2>3. \A x \in Byte : x \in Nat
    BY DEF Byte
  <2> QED
    BY <2>2, <2>3, Zenon
<1>2. p \in Int
  OBVIOUS
<1>3. PICK v : IsRead(v, data, p)
  BY <1>1, <1>2, ReadDef, Zenon
<1>4. 0 \in 0 .. LenSize
  BY <1>0
<1>5. v \in [0 .. LenSize -> Nat] /\ ReadLE(data, p) = v[0]
  BY <1>3, Zenon DEF IsRead
<1> QED
  BY <1>4, <1>5, Zenon

\* After a complete record there is a next one, or the end.
LEMMA CompleteIs ==
  ASSUME NEW data \in Seq(Byte), NEW pos \in 1 .. Len(data) + 1, IsComplete(data, pos)
  PROVE  NextAt(data, pos) \in 1 .. Len(data) + 1 /\ pos < NextAt(data, pos)
<1> DEFINE N == Len(data)
           k == ReadLE(data, pos + 1)
           v == ReadLE(data, pos + 1 + LenSize + k)
<1>0. LenSize \in Nat \ {0} /\ N \in Nat /\ pos \in Nat \ {0}
  BY WalAssumption, LenProperties
<1>1. /\ (pos + 1 + LenSize) - 1 <= N /\ (pos + 1 + LenSize + k + LenSize) - 1 <= N
      /\ (pos + 1 + LenSize + k + LenSize + v) - 1 <= N
      /\ NextAt(data, pos) = pos + 1 + LenSize + k + LenSize + v
  BY Zenon DEF IsComplete, KeyAt, ValueLenAt, ValueAt, NextAt
<1>2. pos + 1 \in Nat \ {0} /\ ((pos + 1) + LenSize) - 1 <= N
  BY <1>0, <1>1
<1>3. k \in Nat
  BY <1>2, LengthIsNat, Zenon
<1> HIDE DEF k
<1>4. pos + 1 + LenSize + k \in Nat \ {0} /\ ((pos + 1 + LenSize + k) + LenSize) - 1 <= N
  BY <1>0, <1>1, <1>3
<1>5. v \in Nat
  BY <1>4, LengthIsNat, Zenon
<1> HIDE DEF v
<1> QED
  BY <1>0, <1>1, <1>3, <1>5

\* Changing one field of what replay returns.
LEMMA ExceptRecords ==
  ASSUME NEW A, NEW B, NEW x \in [records : A, end : B], NEW y
  PROVE  [x EXCEPT !.records = y] = [records |-> y, end |-> x.end]
  OBVIOUS

\* What replay returns when it starts at a position of data.
Replays(data) ==
  [records : Seq({RecordAt(data, q) : q \in 1 .. Len(data) + 1}), end : 1 .. Len(data) + 1]

\* f says what replay returns, from every position.
IsReplay(f, data) ==
  \A pos \in 1 .. Len(data) + 1 :
    /\ f[pos] \in Replays(data)
    /\ pos > Len(data) \/ ~IsComplete(data, pos) => f[pos] = [records |-> <<>>, end |-> pos]
    /\ ~(pos > Len(data) \/ ~IsComplete(data, pos)) =>
         f[pos] = [records |-> <<RecordAt(data, pos)>> \o f[NextAt(data, pos)].records,
                   end     |-> f[NextAt(data, pos)].end]

\* ReplayFrom does.
LEMMA ReplayDef ==
  ASSUME NEW data \in Seq(Byte)
  PROVE  IsReplay(ReplayFrom(data), data)
<1> DEFINE S == 1 .. Len(data) + 1
           V == Replays(data)
           stop == {pos \in S : pos > Len(data) \/ ~IsComplete(data, pos)}
           More(x, pos) == [x EXCEPT !.records = <<RecordAt(data, pos)>> \o @]
           Def(f) == [pos \in S |-> IF pos > Len(data) \/ ~IsComplete(data, pos)
                                    THEN [records |-> <<>>, end |-> pos]
                                    ELSE More(f[NextAt(data, pos)], pos)]
           base == [pos \in S |-> [records |-> <<>>, end |-> pos]]
           step == [pos \in S |-> [x \in V |-> More(x, pos)]]
           next == [pos \in S |-> NextAt(data, pos)]
           rank == [pos \in S |-> Len(data) + 1 - pos]
           bound == Len(data) + 1
           Rec == IsRecursion(S, V, bound, rank, stop, base, step, next)
           g == ReplayFrom(data)
<1>0. Len(data) \in Nat
  BY LenProperties, Zenon
<1>1. base \in [S -> V]
  <2>1. ASSUME NEW pos \in S PROVE [records |-> <<>>, end |-> pos] \in V
    BY EmptySeq, Zenon DEF Replays
  <2> QED
    BY <2>1, Zenon
<1>2. ASSUME NEW pos \in S, NEW x \in V
      PROVE  /\ More(x, pos) \in V
             /\ More(x, pos) = [records |-> <<RecordAt(data, pos)>> \o x.records, end |-> x.end]
  <2> DEFINE W == {RecordAt(data, q) : q \in S}
             one == <<RecordAt(data, pos)>>
  <2>1. one \in Seq(W)
    <3>1. RecordAt(data, pos) \in W
      BY Zenon
    <3> HIDE DEF W
    <3> QED
      BY <3>1
  <2>2. x \in [records : Seq(W), end : S]
    BY Zenon DEF Replays
  <2> HIDE DEF W, one
  <2>3. one \o x.records \in Seq(W)
    BY <2>1, <2>2, ConcatProperties, Zenon
  <2>4. [x EXCEPT !.records = one \o @] = [records |-> one \o x.records, end |-> x.end]
    BY <2>2, ExceptRecords, Zenon
  <2>5. [records |-> one \o x.records, end |-> x.end] \in [records : Seq(W), end : S]
    BY <2>2, <2>3, Zenon
  <2> QED
    BY <2>4, <2>5, Zenon DEF Replays, W, one
<1>3. step \in [S -> [V -> V]]
  <2> HIDE DEF S, V, More
  <2> QED
    BY <1>2, Zenon
<1>4. rank \in [S -> Nat] /\ bound \in Nat /\ \A pos \in S : rank[pos] < bound
  BY <1>0
<1>5. \A pos \in S : pos \notin stop => next[pos] \in S /\ rank[next[pos]] < rank[pos]
  <2> SUFFICES ASSUME NEW pos \in S, pos \notin stop
               PROVE  next[pos] \in S /\ rank[next[pos]] < rank[pos]
    BY Zenon
  <2>1. IsComplete(data, pos)
    BY Zenon
  <2>2. NextAt(data, pos) \in S /\ pos < NextAt(data, pos)
    BY <2>1, CompleteIs, Zenon
  <2>3. next[pos] = NextAt(data, pos)
    BY Zenon
  <2> QED
    BY <1>0, <2>2, <2>3
<1>6. Rec
  <2> HIDE DEF base, step, next, rank, bound, stop, S, V
  <2> QED
    BY <1>1, <1>3, <1>4, <1>5, Zenon DEF IsRecursion
<1>7. PICK f \in [S -> V] : \A pos \in S : f[pos] = IF pos \in stop THEN base[pos] ELSE step[pos][f[next[pos]]]
  <2> HIDE DEF base, step, next, rank, bound, stop, S, V
  <2> QED
    BY <1>6, Recursion
<1>8. \A pos \in S : pos \notin stop => NextAt(data, pos) \in S /\ next[pos] = NextAt(data, pos)
  <2>1. \A pos \in S : next[pos] = NextAt(data, pos)
    BY Zenon
  <2> HIDE DEF next, S, stop
  <2> QED
    BY <1>5, <2>1, Zenon
<1>9. f = Def(f)
  <2>1. ASSUME NEW pos \in S
        PROVE  f[pos] = IF pos > Len(data) \/ ~IsComplete(data, pos)
                        THEN [records |-> <<>>, end |-> pos]
                        ELSE More(f[NextAt(data, pos)], pos)
    <3>1. CASE pos \in stop
      <4>1. base[pos] = [records |-> <<>>, end |-> pos]
        BY Zenon
      <4> HIDE DEF base, step, next, S, V, More
      <4> QED
        BY <1>7, <3>1, <4>1, Zenon
    <3>2. CASE pos \notin stop
      <4>1. f[NextAt(data, pos)] \in V
        <5> HIDE DEF base, step, next, S, V, More, stop
        <5> QED
          BY <1>7, <1>8, <3>2, Zenon
      <4>2. \A x \in V : step[pos][x] = More(x, pos)
        <5> HIDE DEF S, V, More
        <5> QED
          BY Zenon
      <4>3. f[pos] = step[pos][f[NextAt(data, pos)]]
        <5> HIDE DEF base, step, next, S, V, More, stop
        <5> QED
          BY <1>7, <1>8, <3>2, Zenon
      <4> HIDE DEF base, step, next, S, V, More
      <4> QED
        BY <3>2, <4>1, <4>2, <4>3, Zenon
    <3> QED
      BY <3>1, <3>2, Zenon
  <2> HIDE DEF S, V, More
  <2> QED
    BY <1>7, <2>1, Zenon
<1>10. g = Def(g)
  <2>1. g = CHOOSE s : s = Def(s)
    BY Zenon DEF ReplayFrom
  <2> HIDE DEF Def, g
  <2> QED
    BY <1>9, <2>1, Zenon
<1> HIDE DEF g
<1>11. \A pos \in S : /\ pos \in stop => g[pos] = [records |-> <<>>, end |-> pos]
                      /\ pos \notin stop => g[pos] = More(g[NextAt(data, pos)], pos)
  <2> HIDE DEF S, More
  <2> QED
    BY <1>10, Zenon
<1>12. \A pos \in S : g[pos] \in V
  <2>1. \A pos \in S : pos \in stop => g[pos] = base[pos]
    <3> HIDE DEF stop, More, S
    <3> QED
      BY <1>11, Zenon
  <2>2. ASSUME NEW pos \in S, pos \notin stop, g[next[pos]] \in V PROVE g[pos] = step[pos][g[next[pos]]]
    <3>1. next[pos] = NextAt(data, pos)
      BY Zenon
    <3>2. \A x \in V : step[pos][x] = More(x, pos)
      <4> HIDE DEF S, V, More
      <4> QED
        BY Zenon
    <3> HIDE DEF base, step, next, S, V, More, stop
    <3>3. g[pos] = More(g[next[pos]], pos)
      BY <1>11, <2>2, <3>1, Zenon
    <3> QED
      BY <2>2, <3>2, <3>3, Zenon
  <2> HIDE DEF base, step, next, rank, bound, stop, S, V
  <2> QED
    BY <1>6, <2>1, <2>2, RecursionTyped
<1>13. ASSUME NEW pos \in S, pos \notin stop
       PROVE  g[pos] = [records |-> <<RecordAt(data, pos)>> \o g[NextAt(data, pos)].records,
                        end     |-> g[NextAt(data, pos)].end]
  <2> HIDE DEF More, S, V, stop, next, rank
  <2>1. g[NextAt(data, pos)] \in V
    BY <1>8, <1>12, <1>13, Zenon
  <2> QED
    BY <1>2, <1>11, <1>13, <2>1, Zenon
<1>14. ASSUME NEW pos \in S
       PROVE  /\ g[pos] \in V
              /\ pos > Len(data) \/ ~IsComplete(data, pos) => g[pos] = [records |-> <<>>, end |-> pos]
              /\ ~(pos > Len(data) \/ ~IsComplete(data, pos)) =>
                   g[pos] = [records |-> <<RecordAt(data, pos)>> \o g[NextAt(data, pos)].records,
                             end     |-> g[NextAt(data, pos)].end]
  <2>1. pos \in stop <=> pos > Len(data) \/ ~IsComplete(data, pos)
    BY Zenon
  <2> HIDE DEF stop, S, V, More
  <2> QED
    BY <1>11, <1>12, <1>13, <2>1, Zenon
<1> QED
  BY <1>14, Zenon DEF IsReplay, g

-----------------------------------------------------------------------------
\* A log: the file that holds a sequence h of records, and maybe a torn one.

\* at says where the records of h start, one after the other.
IsLayout(at, h) ==
  /\ at \in [1 .. Len(h) + 1 -> Nat \ {0}] /\ at[1] = 1
  /\ \A i \in 1 .. Len(h) : at[i + 1] = at[i] + Len(Encode(h[i]))

\* The first m records of h are in data.
OnFile(data, h, m, at) ==
  \A i \in 1 .. m : at[i + 1] <= Len(data) + 1 /\ Agrees(data, at[i], h[i])

\* From e on, data has nothing or the beginning of a record.
EndsAt(data, e) ==
  /\ e <= Len(data) + 1
  /\ e <= Len(data) => \E r \in FitRecords : ~(e + Len(Encode(r)) <= Len(data) + 1) /\ Agrees(data, e, r)

\* The encoding of a record is a string of bytes, and not empty.
LEMMA EncodeSize ==
  ASSUME NEW r \in FitRecords
  PROVE  Encode(r) \in Seq(Byte) /\ Len(Encode(r)) \in Nat \ {0}
<1> DEFINE e == Encode(r)
           k == Len(r.key)
           v == Len(r.value)
<1>1. IsEncoding(e, r, k, v)
  BY EncodeIs, Zenon DEF FitRecords
<1> HIDE DEF e, k, v
<1>2. e \in Seq(Byte) /\ Len(e) = 1 + LenSize + k + LenSize + v /\ k \in Nat /\ v \in Nat
  BY <1>1, Zenon DEF IsEncoding
<1>3. LenSize \in Nat
  BY WalAssumption, Zenon
<1>4. Len(e) \in Nat \ {0}
  BY <1>2, <1>3
<1> QED
  BY <1>2, <1>4, Zenon DEF e

\* Where the records of a log lie.
LEMMA LayoutIs ==
  ASSUME NEW h \in Seq(FitRecords), NEW at, IsLayout(at, h), NEW i \in 1 .. Len(h)
  PROVE  /\ h[i] \in FitRecords /\ at[i] \in Nat \ {0} /\ at[i + 1] \in Nat \ {0}
         /\ Len(Encode(h[i])) \in Nat \ {0} /\ at[i + 1] = at[i] + Len(Encode(h[i]))
<1>1. Len(h) \in Nat /\ h[i] \in FitRecords
  BY LenProperties, ElementOfSeq, Zenon
<1>2. i \in 1 .. Len(h) + 1 /\ i + 1 \in 1 .. Len(h) + 1
  BY <1>1
<1>3. Len(Encode(h[i])) \in Nat \ {0}
  BY <1>1, EncodeSize, Zenon
<1> QED
  BY <1>1, <1>2, <1>3, Zenon DEF IsLayout

\* Replaying a log returns its records and stops after them.
LEMMA ReplayLog ==
  ASSUME NEW data \in Seq(Byte), NEW h \in Seq(FitRecords), NEW at, IsLayout(at, h),
         NEW m \in 0 .. Len(h), OnFile(data, h, m, at), EndsAt(data, at[m + 1])
  PROVE  Replayed(data).records = SubSeq(h, 1, m) /\ Replayed(data).end = at[m + 1]
<1> DEFINE f == ReplayFrom(data)
           N == Len(data)
           Good(i) == f[at[i]] = [records |-> SubSeq(h, i, m), end |-> at[m + 1]]
<1>0. N \in Nat /\ Len(h) \in Nat /\ m \in Nat
  BY LenProperties
<1>1. IsReplay(f, data)
  BY ReplayDef, Zenon
<1> HIDE DEF f
<1>2. Good(m + 1)
  <2> DEFINE pos == at[m + 1]
  <2>1. pos \in 1 .. N + 1
    <3>1. m + 1 \in 1 .. Len(h) + 1
      BY <1>0
    <3>2. pos \in Nat \ {0}
      BY <3>1, Zenon DEF IsLayout
    <3>3. pos <= N + 1
      BY Zenon DEF EndsAt
    <3> HIDE DEF pos
    <3> QED
      BY <1>0, <3>2, <3>3
  <2>2. pos > N \/ ~IsComplete(data, pos)
    <3>1. CASE pos <= N
      <4>1. PICK r \in FitRecords : ~(pos + Len(Encode(r)) <= N + 1) /\ Agrees(data, pos, r)
        BY <3>1, Zenon DEF EndsAt
      <4>2. pos \in Nat \ {0}
        <5> HIDE DEF pos
        <5> QED
          BY <1>0, <2>1
      <4>3. IsComplete(data, pos) <=> pos + Len(Encode(r)) - 1 <= N
        BY <4>1, <4>2, RecordRead, Zenon
      <4>4. Len(Encode(r)) \in Nat
        BY EncodeSize, Zenon
      <4> DEFINE l == Len(Encode(r))
      <4> HIDE DEF pos, l
      <4>5. ~(pos + l - 1 <= N)
        BY <1>0, <4>1, <4>2, <4>4 DEF l
      <4> QED
        BY <4>3, <4>5, Zenon DEF l
    <3>2. CASE ~(pos <= N)
      <4> HIDE DEF pos
      <4> QED
        BY <1>0, <2>1, <3>2
    <3> QED
      BY <3>1, <3>2, Zenon
  <2>3. f[pos] = [records |-> <<>>, end |-> pos]
    <3> HIDE DEF pos
    <3> QED
      BY <1>1, <2>1, <2>2, Zenon DEF IsReplay
  <2>4. SubSeq(h, m + 1, m) = <<>>
    <3>1. m + 1 \in Int /\ m \in Int /\ m < m + 1
      BY <1>0
    <3> QED
      BY <3>1, SubSeqEmpty, Zenon
  <2> QED
    BY <2>3, <2>4, Zenon
<1>3. ASSUME NEW i \in 1 .. m, Good(i + 1) PROVE Good(i)
  <2> DEFINE pos == at[i]
             l == Len(Encode(h[i]))
  <2>1. i \in 1 .. Len(h) /\ m \in i .. Len(h) /\ i \in 1 .. Len(h)
    BY <1>0
  <2>2. /\ h[i] \in FitRecords /\ pos \in Nat \ {0} /\ at[i + 1] \in Nat \ {0}
        /\ l \in Nat \ {0} /\ at[i + 1] = pos + l
    BY <2>1, LayoutIs, Zenon
  <2>3. at[i + 1] <= N + 1 /\ Agrees(data, pos, h[i])
    BY Zenon DEF OnFile
  <2>4. /\ IsComplete(data, pos) <=> pos + l - 1 <= N
        /\ IsComplete(data, pos) => NextAt(data, pos) = pos + l /\ RecordAt(data, pos) = h[i]
    BY <2>2, <2>3, RecordRead, Zenon
  <2> HIDE DEF pos, l
  <2>5. pos \in 1 .. N + 1 /\ ~(pos > N) /\ pos + l - 1 <= N
    BY <1>0, <2>2, <2>3
  <2>6. f[pos] = [records |-> <<RecordAt(data, pos)>> \o f[NextAt(data, pos)].records,
                  end     |-> f[NextAt(data, pos)].end]
    BY <1>1, <2>4, <2>5, Zenon DEF IsReplay
  <2>7. f[pos] = [records |-> <<h[i]>> \o f[at[i + 1]].records, end |-> f[at[i + 1]].end]
    BY <2>2, <2>4, <2>5, <2>6, Zenon
  <2>8. f[at[i + 1]].records = SubSeq(h, i + 1, m) /\ f[at[i + 1]].end = at[m + 1]
    BY <1>3
  <2>9. SubSeq(h, i, m) = <<h[i]>> \o SubSeq(h, i + 1, m)
    BY <2>1, SubSeqRecursiveFirst, Zenon
  <2> QED
    BY <2>7, <2>8, <2>9, Zenon DEF pos
<1>4. Good(1)
  <2> HIDE DEF Good
  <2> DEFINE Bad == {k \in 0 .. m : ~Good((m + 1) - k)}
  <2>1. ASSUME Bad # {} PROVE FALSE
    <3>1. PICK k \in Bad : \A j \in Bad : k <= j
      <4>1. Bad \subseteq Nat
        BY <1>0
      <4> HIDE DEF Bad
      <4> QED
        BY <2>1, <4>1, LeastNat, Zenon
    <3>2. k \in 0 .. m /\ ~Good((m + 1) - k)
      BY <3>1, Zenon
    <3>3. k # 0
      <4>1. (m + 1) - 0 = m + 1
        BY <1>0
      <4> QED
        BY <1>2, <3>2, <4>1, Zenon
    <3>4. /\ k - 1 \in 0 .. m /\ ~(k <= k - 1) /\ (m + 1) - k \in 1 .. m
          /\ (m + 1) - (k - 1) = ((m + 1) - k) + 1
      BY <1>0, <3>2, <3>3
    <3>5. Good((m + 1) - (k - 1))
      BY <3>1, <3>4, Zenon
    <3> QED
      BY <1>3, <3>2, <3>4, <3>5, Zenon
  <2>2. m \in 0 .. m /\ (m + 1) - m = 1
    BY <1>0
  <2> QED
    BY <2>1, <2>2, Zenon
<1>5. at[1] = 1
  BY Zenon DEF IsLayout
<1>6. f[1] = [records |-> SubSeq(h, 1, m), end |-> at[m + 1]]
  BY <1>4, <1>5, Zenon
<1>7. f[1].records = SubSeq(h, 1, m) /\ f[1].end = at[m + 1]
  BY <1>6
<1> QED
  BY <1>7, Zenon DEF Replayed, f

-----------------------------------------------------------------------------
\* What cutting a log, appending to it and tearing an append do.

\* The first n elements of data.
LEMMA CutIs ==
  ASSUME NEW T, NEW data \in Seq(T), NEW n \in 0 .. Len(data)
  PROVE  /\ SubSeq(data, 1, n) \in Seq(T) /\ Len(SubSeq(data, 1, n)) = n
         /\ \A i \in 1 .. n : SubSeq(data, 1, n)[i] = data[i]
<1>0. Len(data) \in Nat
  BY LenProperties, Zenon
<1>1. ASSUME NEW i \in 1 .. n PROVE data[i] \in T
  <2>1. i \in 1 .. Len(data)
    BY <1>0
  <2> QED
    BY <2>1, ElementOfSeq, Zenon
<1>2. 1 \in Int /\ n \in Int
  BY <1>0
<1> DEFINE u == SubSeq(data, 1, n)
<1>3. /\ u \in Seq(T) /\ Len(u) = IF 1 <= n THEN n - 1 + 1 ELSE 0
      /\ \A i \in 1 .. n - 1 + 1 : u[i] = data[1 + i - 1]
  BY <1>1, <1>2, SubSeqProperties
<1> HIDE DEF u
<1>4. Len(u) = n
  BY <1>0, <1>3
<1>5. ASSUME NEW i \in 1 .. n PROVE u[i] = data[i]
  <2>1. i \in 1 .. n - 1 + 1 /\ 1 + i - 1 = i
    BY <1>0
  <2> QED
    BY <1>3, <2>1, Zenon
<1> QED
  BY <1>3, <1>4, <1>5, Zenon DEF u

\* A cut keeps the bytes before it.
LEMMA AgreesCut ==
  ASSUME NEW data \in Seq(Byte), NEW n \in 0 .. Len(data), NEW p \in Nat \ {0}, NEW r \in FitRecords,
         Agrees(data, p, r)
  PROVE  Agrees(SubSeq(data, 1, n), p, r)
<1> DEFINE u == SubSeq(data, 1, n)
<1>0. Len(data) \in Nat
  BY LenProperties, Zenon
<1>1. Len(u) = n /\ \A i \in 1 .. n : u[i] = data[i]
  BY CutIs, Zenon
<1> HIDE DEF u
<1>2. ASSUME NEW i \in 1 .. Len(Encode(r)), p + i - 1 <= Len(u) PROVE u[p + i - 1] = Encode(r)[i]
  <2> DEFINE l == Len(Encode(r))
  <2>1. l \in Nat
    BY EncodeSize, Zenon
  <2> HIDE DEF l
  <2>2. p + i - 1 \in 1 .. n /\ p + i - 1 <= Len(data)
    BY <1>0, <1>1, <1>2, <2>1 DEF l
  <2>3. data[p + i - 1] = Encode(r)[i]
    BY <2>2, Zenon DEF Agrees
  <2> QED
    BY <1>1, <2>2, <2>3, Zenon
<1> QED
  BY <1>2, Zenon DEF Agrees, u

\* A log that is cut is a log: of the records that end before the cut, and of a piece of
\* the next one.
LEMMA CutLog ==
  ASSUME NEW data \in Seq(Byte), NEW h \in Seq(FitRecords), NEW at, IsLayout(at, h),
         NEW m \in 0 .. Len(h), OnFile(data, h, m, at), EndsAt(data, at[m + 1]),
         NEW n \in 0 .. Len(data)
  PROVE  \E k \in 0 .. m : /\ OnFile(SubSeq(data, 1, n), h, k, at)
                           /\ EndsAt(SubSeq(data, 1, n), at[k + 1])
                           /\ k < m => ~(at[(k + 1) + 1] <= n + 1)
<1> DEFINE N == Len(data)
           u == SubSeq(data, 1, n)
           Bad == {i \in 1 .. m : ~(at[i + 1] <= n + 1)}
<1>0. N \in Nat /\ Len(h) \in Nat /\ m \in Nat /\ n \in Nat /\ n <= N
  BY LenProperties
<1>1. Len(u) = n
  BY CutIs, Zenon
<1>2. ASSUME NEW i \in 1 .. m
      PROVE  /\ h[i] \in FitRecords /\ at[i] \in Nat \ {0} /\ at[i + 1] = at[i] + Len(Encode(h[i]))
             /\ Agrees(u, at[i], h[i])
  <2>1. i \in 1 .. Len(h)
    BY <1>0
  <2>2. /\ h[i] \in FitRecords /\ at[i] \in Nat \ {0} /\ at[i + 1] = at[i] + Len(Encode(h[i]))
    BY <2>1, LayoutIs, Zenon
  <2>3. Agrees(data, at[i], h[i])
    BY Zenon DEF OnFile
  <2> QED
    BY <2>2, <2>3, AgreesCut, Zenon
<1>3. at[1] = 1
  BY Zenon DEF IsLayout
<1>4. CASE Bad = {}
  <2>1. \A i \in 1 .. m : at[i + 1] <= n + 1
    BY <1>4, Zenon
  <2>2. OnFile(u, h, m, at)
    <3> HIDE DEF u
    <3> QED
      BY <1>1, <1>2, <2>1, Zenon DEF OnFile
  <2> DEFINE e == at[m + 1]
  <2>3. e <= n + 1
    <3>1. CASE m = 0
      BY <1>0, <1>3, <3>1
    <3>2. CASE m # 0
      <4>1. m \in 1 .. m
        BY <1>0, <3>2
      <4> QED
        BY <2>1, <4>1, Zenon
    <3> QED
      BY <3>1, <3>2, Zenon
  <2>4. e \in Nat \ {0}
    <3>1. m + 1 \in 1 .. Len(h) + 1
      BY <1>0
    <3> QED
      BY <3>1, Zenon DEF IsLayout
  <2>5. ASSUME e <= n
        PROVE  \E r \in FitRecords : ~(e + Len(Encode(r)) <= n + 1) /\ Agrees(u, e, r)
    <3>1. e <= N
      <4> HIDE DEF e
      <4> QED
        BY <1>0, <2>4, <2>5
    <3>2. PICK r \in FitRecords : ~(e + Len(Encode(r)) <= N + 1) /\ Agrees(data, e, r)
      BY <3>1, Zenon DEF EndsAt
    <3>3. Agrees(u, e, r)
      BY <2>4, <3>2, AgreesCut, Zenon
    <3> DEFINE l == Len(Encode(r))
    <3>4. l \in Nat
      BY EncodeSize, Zenon
    <3> HIDE DEF e, l
    <3>5. ~(e + l <= n + 1)
      BY <1>0, <2>4, <3>2, <3>4 DEF l
    <3> QED
      BY <3>3, <3>5, Zenon DEF l
  <2>6. EndsAt(u, e)
    <3> HIDE DEF u, e
    <3> QED
      BY <1>1, <2>3, <2>5, Zenon DEF EndsAt
  <2>7. m \in 0 .. m /\ ~(m < m)
    BY <1>0
  <2> QED
    BY <2>2, <2>6, <2>7, Zenon
<1>5. CASE Bad # {}
  <2>1. PICK b \in Bad : \A j \in Bad : b <= j
    <3>1. Bad \subseteq Nat
      BY <1>0
    <3> HIDE DEF Bad
    <3> QED
      BY <1>5, <3>1, LeastNat, Zenon
  <2>2. b \in 1 .. m /\ ~(at[b + 1] <= n + 1)
    BY <2>1, Zenon
  <2> DEFINE k == b - 1
  <2>3. k \in 0 .. m /\ k + 1 = b /\ (k + 1) + 1 = b + 1
    BY <1>0, <2>2
  <2>4. ASSUME NEW i \in 1 .. k PROVE i \in 1 .. m /\ at[i + 1] <= n + 1
    <3>1. i \in 1 .. m /\ ~(b <= i)
      BY <1>0, <2>2
    <3> QED
      BY <2>1, <3>1, Zenon
  <2> HIDE DEF k
  <2>5. OnFile(u, h, k, at)
    <3> HIDE DEF u
    <3> QED
      BY <1>1, <1>2, <2>4, Zenon DEF OnFile
  <2> DEFINE e == at[b]
  <2>6. e <= n + 1
    <3>1. CASE b = 1
      BY <1>0, <1>3, <3>1
    <3>2. CASE b # 1
      <4>1. k \in 1 .. k
        BY <1>0, <2>2, <3>2 DEF k
      <4> QED
        BY <2>3, <2>4, <4>1, Zenon
    <3> QED
      BY <3>1, <3>2, Zenon
  <2>7. h[b] \in FitRecords /\ ~(e + Len(Encode(h[b])) <= n + 1) /\ Agrees(u, e, h[b])
    BY <1>2, <2>2, Zenon
  <2>8. EndsAt(u, e)
    <3> HIDE DEF u, e
    <3> QED
      BY <1>1, <2>6, <2>7, Zenon DEF EndsAt
  <2> QED
    BY <2>2, <2>3, <2>5, <2>8, Zenon
<1> QED
  BY <1>4, <1>5, Zenon

\* Appended bytes leave the earlier ones alone.
LEMMA OnFileKept ==
  ASSUME NEW data \in Seq(Byte), NEW w \in Seq(Byte), NEW h \in Seq(FitRecords), NEW at,
         IsLayout(at, h), NEW m \in 0 .. Len(h), OnFile(data, h, m, at)
  PROVE  OnFile(data \o w, h, m, at)
<1> DEFINE N == Len(data)
           u == data \o w
<1>0. N \in Nat /\ Len(w) \in Nat /\ Len(h) \in Nat
  BY LenProperties, Zenon
<1>1. Len(u) = N + Len(w) /\ \A i \in 1 .. N : u[i] = data[i]
  BY ConcatIs, Zenon DEF IsJoin
<1> HIDE DEF u
<1>2. ASSUME NEW i \in 1 .. m PROVE at[i + 1] <= Len(u) + 1 /\ Agrees(u, at[i], h[i])
  <2> DEFINE p == at[i]
             q == at[i + 1]
             l == Len(Encode(h[i]))
  <2>1. i \in 1 .. Len(h)
    BY <1>0
  <2>2. p \in Nat \ {0} /\ q \in Nat \ {0} /\ l \in Nat \ {0} /\ q = p + l
    BY <2>1, LayoutIs, Zenon
  <2>3. q <= N + 1 /\ Agrees(data, p, h[i])
    BY Zenon DEF OnFile
  <2> HIDE DEF p, q, l
  <2>4. q <= Len(u) + 1
    BY <1>0, <1>1, <2>2, <2>3
  <2>5. ASSUME NEW j \in 1 .. l PROVE u[p + j - 1] = Encode(h[i])[j]
    <3>1. p + j - 1 \in 1 .. N /\ p + j - 1 <= N
      BY <1>0, <2>2, <2>3
    <3> QED
      BY <1>1, <2>3, <3>1, Zenon DEF Agrees, l
  <2> QED
    BY <2>4, <2>5, Zenon DEF Agrees, p, q, l
<1> QED
  BY <1>2, Zenon DEF OnFile, u

\* Writing the first n bytes of a record.
LEMMA WriteBegun ==
  ASSUME NEW data \in Seq(Byte), NEW r \in FitRecords, NEW n \in 1 .. Len(Encode(r))
  PROVE  LET u == data \o SubSeq(Encode(r), 1, n)
         IN  u \in Seq(Byte) /\ Len(u) = Len(data) + n /\ Agrees(u, Len(data) + 1, r)
<1> DEFINE N == Len(data)
           e == Encode(r)
           l == Len(e)
           w == SubSeq(e, 1, n)
           u == data \o w
<1>0. N \in Nat /\ l \in Nat /\ e \in Seq(Byte)
  BY LenProperties, EncodeSize, Zenon
<1>1. n \in 0 .. l
  BY <1>0
<1> HIDE DEF e
<1>2. w \in Seq(Byte) /\ Len(w) = n /\ \A i \in 1 .. n : w[i] = e[i]
  BY <1>0, <1>1, CutIs, Zenon
<1> HIDE DEF w
<1>3. u \in Seq(Byte) /\ Len(u) = N + n /\ \A i \in 1 .. n : u[N + i] = w[i]
  <2>1. u \in Seq(Byte) /\ Len(u) = N + Len(w) /\ IsJoin(u, data, N, w, Len(w))
    BY <1>2, ConcatIs, Zenon
  <2> HIDE DEF u, N
  <2> QED
    BY <1>2, <2>1, Zenon DEF IsJoin
<1> HIDE DEF u, N, l
<1>4. ASSUME NEW i \in 1 .. l, (N + 1) + i - 1 <= N + n PROVE u[(N + 1) + i - 1] = e[i]
  <2>1. i \in 1 .. n /\ (N + 1) + i - 1 = N + i
    BY <1>0, <1>4
  <2> QED
    BY <1>2, <1>3, <2>1, Zenon
<1>5. Agrees(u, N + 1, r)
  BY <1>3, <1>4, Zenon DEF Agrees, l, e
<1> QED
  BY <1>3, <1>5, Zenon DEF u, N, w, e

\* A record that is torn while it is appended leaves a log of the records before it.
LEMMA TearLog ==
  ASSUME NEW data \in Seq(Byte), NEW h \in Seq(FitRecords), NEW at, IsLayout(at, h),
         NEW m \in 0 .. Len(h), OnFile(data, h, m, at), at[m + 1] = Len(data) + 1,
         NEW r \in FitRecords, NEW n \in 1 .. Len(Encode(r)), n # Len(Encode(r))
  PROVE  LET u == data \o SubSeq(Encode(r), 1, n)
         IN  OnFile(u, h, m, at) /\ EndsAt(u, at[m + 1])
<1> DEFINE N == Len(data)
           l == Len(Encode(r))
           w == SubSeq(Encode(r), 1, n)
           u == data \o w
<1>0. N \in Nat /\ l \in Nat /\ Encode(r) \in Seq(Byte)
  BY LenProperties, EncodeSize, Zenon
<1>1. u \in Seq(Byte) /\ Len(u) = N + n /\ Agrees(u, N + 1, r)
  BY WriteBegun, Zenon
<1>2. w \in Seq(Byte)
  <2>1. n \in 0 .. l
    BY <1>0
  <2> QED
    BY <1>0, <2>1, CutIs, Zenon
<1> HIDE DEF w
<1>3. OnFile(u, h, m, at)
  BY <1>2, OnFileKept, Zenon
<1> HIDE DEF u, l
<1>4. N + 1 <= (N + n) + 1 /\ ~((N + 1) + l <= (N + n) + 1)
  BY <1>0 DEF l
<1>5. EndsAt(u, N + 1)
  BY <1>1, <1>4, Zenon DEF EndsAt, l
<1> QED
  BY <1>3, <1>5, Zenon DEF u, w

\* at2 says where the records of h2 start in u, as at does for the first m of them; there
\* is one more, and u ends with it.
IsAppended(at2, at, u, h2, m) ==
  /\ IsLayout(at2, h2) /\ OnFile(u, h2, m + 1, at2) /\ at2[(m + 1) + 1] = Len(u) + 1
  /\ \A i \in 1 .. m + 1 : at2[i] = at[i]

\* A record that is appended in full is the last one of the log.
LEMMA AppendLog ==
  ASSUME NEW data \in Seq(Byte), NEW h \in Seq(FitRecords), NEW at, IsLayout(at, h),
         OnFile(data, h, Len(h), at), at[Len(h) + 1] = Len(data) + 1, NEW r \in FitRecords
  PROVE  /\ data \o Encode(r) \in Seq(Byte) /\ Len(data) <= Len(data \o Encode(r))
         /\ Append(h, r) \in Seq(FitRecords) /\ Len(Append(h, r)) = Len(h) + 1
         /\ \E at2 : IsAppended(at2, at, data \o Encode(r), Append(h, r), Len(h))
<1> DEFINE m == Len(h)
           N == Len(data)
           e == Encode(r)
           l == Len(e)
           u == data \o e
           h2 == Append(h, r)
           at2 == [i \in 1 .. (m + 1) + 1 |-> IF i \in 1 .. m + 1 THEN at[i] ELSE N + 1 + l]
<1>0. N \in Nat /\ l \in Nat \ {0} /\ e \in Seq(Byte) /\ m \in Nat
  BY LenProperties, EncodeSize, Zenon
<1>1. h2 \in Seq(FitRecords) /\ Len(h2) = m + 1 /\ h2[m + 1] = r /\ \A i \in 1 .. m : h2[i] = h[i]
  OBVIOUS
<1>2. u \in Seq(Byte) /\ Len(u) = N + l /\ Agrees(u, N + 1, r)
  <2>1. l \in 1 .. l
    BY <1>0
  <2>2. SubSeq(e, 1, l) = e
    BY <1>0, SubSeqFull, Zenon
  <2> DEFINE x == data \o SubSeq(e, 1, l)
  <2>3. x \in Seq(Byte) /\ Len(x) = N + l /\ Agrees(x, N + 1, r)
    BY <2>1, WriteBegun, Zenon
  <2>4. x = u
    BY <2>2, Zenon
  <2> HIDE DEF x, u
  <2> QED
    BY <2>3, <2>4, Zenon
<1>3. OnFile(u, h, m, at)
  <2>1. m \in 0 .. Len(h)
    BY <1>0
  <2> QED
    BY <1>0, <2>1, OnFileKept, Zenon
<1> HIDE DEF h2, u, e, l, N, m
<1>4. /\ at \in [1 .. m + 1 -> Nat \ {0}] /\ at[1] = 1 /\ at[m + 1] = N + 1
      /\ \A i \in 1 .. m : at[i + 1] = at[i] + Len(Encode(h[i]))
  BY Zenon DEF IsLayout, N, m
<1>5. /\ at2 \in [1 .. (m + 1) + 1 -> Nat \ {0}] /\ at2[(m + 1) + 1] = N + 1 + l
      /\ \A i \in 1 .. m + 1 : at2[i] = at[i]
  <2>1. N + 1 + l \in Nat \ {0} /\ (m + 1) + 1 \in 1 .. (m + 1) + 1 /\ (m + 1) + 1 \notin 1 .. m + 1
        /\ \A i \in 1 .. m + 1 : i \in 1 .. (m + 1) + 1
    BY <1>0
  <2> QED
    BY <1>4, <2>1, Zenon
<1> HIDE DEF at2
<1>6. \A i \in 1 .. m + 1 : (i \in 1 .. m /\ i + 1 \in 1 .. m + 1) \/ i = m + 1
  BY <1>0
<1>7. 1 \in 1 .. m + 1 /\ m + 1 \in 1 .. m + 1 /\ \A i \in 1 .. m : i \in 1 .. m + 1
  BY <1>0
<1>8. ASSUME NEW i \in 1 .. m + 1 PROVE at2[i + 1] = at2[i] + Len(Encode(h2[i]))
  <2>1. CASE i \in 1 .. m /\ i + 1 \in 1 .. m + 1
    BY <1>1, <1>4, <1>5, <2>1, Zenon
  <2>2. CASE i = m + 1
    BY <1>1, <1>4, <1>5, <1>7, <2>2, Zenon DEF l, e
  <2> QED
    BY <1>6, <2>1, <2>2, Zenon
<1>9. IsLayout(at2, h2)
  BY <1>1, <1>4, <1>5, <1>7, <1>8, Zenon DEF IsLayout
<1>10. N + 1 + l <= Len(u) + 1 /\ N + 1 + l = Len(u) + 1 /\ N <= Len(u)
  BY <1>0, <1>2
<1>11. ASSUME NEW i \in 1 .. m + 1 PROVE at2[i + 1] <= Len(u) + 1 /\ Agrees(u, at2[i], h2[i])
  <2>1. CASE i \in 1 .. m /\ i + 1 \in 1 .. m + 1
    BY <1>1, <1>3, <1>5, <2>1, Zenon DEF OnFile
  <2>2. CASE i = m + 1
    BY <1>1, <1>2, <1>4, <1>5, <1>7, <1>10, <2>2, Zenon
  <2> QED
    BY <1>6, <2>1, <2>2, Zenon
<1>12. OnFile(u, h2, m + 1, at2)
  BY <1>11, Zenon DEF OnFile
<1>13. IsAppended(at2, at, u, h2, m)
  BY <1>5, <1>9, <1>10, <1>12, Zenon DEF IsAppended
<1> QED
  BY <1>1, <1>2, <1>10, <1>13, Zenon DEF u, h2, e, N, m

\* The records that are on file are a log of their own.
LEMMA TrimLog ==
  ASSUME NEW data \in Seq(Byte), NEW h \in Seq(FitRecords), NEW at, IsLayout(at, h),
         NEW m \in 0 .. Len(h), OnFile(data, h, m, at)
  PROVE  \E at2 : /\ IsLayout(at2, SubSeq(h, 1, m)) /\ OnFile(data, SubSeq(h, 1, m), m, at2)
                  /\ \A i \in 1 .. m + 1 : at2[i] = at[i]
<1> DEFINE h2 == SubSeq(h, 1, m)
           at2 == [i \in 1 .. m + 1 |-> at[i]]
<1>0. Len(h) \in Nat /\ m \in Nat
  BY LenProperties
<1>1. h2 \in Seq(FitRecords) /\ Len(h2) = m /\ \A i \in 1 .. m : h2[i] = h[i]
  BY CutIs, Zenon
<1> HIDE DEF h2
<1>2. \A i \in 1 .. m + 1 : i \in 1 .. Len(h) + 1
  BY <1>0
<1>3. 1 \in 1 .. m + 1 /\ \A i \in 1 .. m : i \in 1 .. m + 1 /\ i + 1 \in 1 .. m + 1 /\ i \in 1 .. Len(h)
  BY <1>0
<1>4. at2 \in [1 .. m + 1 -> Nat \ {0}] /\ \A i \in 1 .. m + 1 : at2[i] = at[i]
  BY <1>2, Zenon DEF IsLayout
<1> HIDE DEF at2
<1>5. IsLayout(at2, h2)
  BY <1>1, <1>3, <1>4, Zenon DEF IsLayout
<1>6. OnFile(data, h2, m, at2)
  BY <1>1, <1>3, <1>4, Zenon DEF OnFile
<1> QED
  BY <1>4, <1>5, <1>6, Zenon DEF h2

-----------------------------------------------------------------------------
\* The invariant.

\* The file f is a log of the first m records of the history h, and maybe of a piece of
\* the next record; the first d records end in the synced part. While the log is open,
\* the file holds all of h and nothing else; after a crash it holds what is owed.
Logged(f, s, u, h, d, o, m, at) ==
  /\ h \in Seq(FitRecords) /\ IsLayout(at, h) /\ m \in 0 .. Len(h)
  /\ OnFile(f, h, m, at) /\ EndsAt(f, at[m + 1])
  /\ d \in 0 .. m /\ \A i \in 1 .. d : at[i + 1] <= s + 1
  /\ u => m = Len(h) /\ at[m + 1] = Len(f) + 1
  /\ ~u => o <= m

\* A log that was opened without a torn end is in order.
LogInv ==
  /\ WalTypeOK /\ \E T : history \in Seq(T)
  /\ ~spoiled => \E m, at : Logged(file, synced, up, history, durable, owed, m, at)

\* An empty file is the log of no records.
LEMMA EmptyLog ==
  ASSUME NEW u \in BOOLEAN, NEW o \in Nat, ~u => o = 0
  PROVE  \E m, at : Logged(<<>>, 0, u, <<>>, 0, o, m, at)
<1> DEFINE at == [i \in 1 .. 1 |-> 1]
<1>1. at \in [1 .. 1 -> Nat \ {0}] /\ at[1] = 1
  OBVIOUS
<1> HIDE DEF at
<1>2. <<>> \in Seq(FitRecords) /\ Len(<<>>) = 0
  BY EmptySeq, Zenon
<1>3. 1 .. 0 = {} /\ 0 + 1 = 1 /\ 1 <= 0 + 1 /\ ~(1 <= 0) /\ 0 \in 0 .. 0
  OBVIOUS
<1>4. ~u => o <= 0
  OBVIOUS
<1>5. IsLayout(at, <<>>)
  BY <1>1, <1>2, <1>3, Zenon DEF IsLayout
<1>6. OnFile(<<>>, <<>>, 0, at) /\ EndsAt(<<>>, at[0 + 1])
  BY <1>1, <1>2, <1>3, Zenon DEF OnFile, EndsAt
<1>7. Logged(<<>>, 0, u, <<>>, 0, o, 0, at)
  BY <1>1, <1>2, <1>3, <1>4, <1>5, <1>6, Zenon DEF Logged
<1> QED
  BY <1>7, Zenon

\* What replay returns has a type.
LEMMA ReplayedIs ==
  ASSUME NEW data \in Seq(Byte)
  PROVE  /\ \E T : Replayed(data).records \in Seq(T)
         /\ Len(Replayed(data).records) \in Nat /\ Replayed(data).end \in 1 .. Len(data) + 1
<1>1. Len(data) \in Nat
  BY LenProperties, Zenon
<1>2. 1 \in 1 .. Len(data) + 1
  BY <1>1
<1>3. Replayed(data) \in Replays(data)
  BY <1>2, ReplayDef, Zenon DEF IsReplay, Replayed
<1> DEFINE T == {RecordAt(data, q) : q \in 1 .. Len(data) + 1}
<1>4. Replayed(data).records \in Seq(T) /\ Replayed(data).end \in 1 .. Len(data) + 1
  BY <1>3, Zenon DEF Replays
<1> HIDE DEF T
<1>5. Len(Replayed(data).records) \in Nat
  BY <1>4, LenProperties, Zenon
<1> QED
  BY <1>4, <1>5, Zenon

\* Opening a log that has no torn end.
LEMMA OpenLogged ==
  ASSUME NEW f \in Seq(Byte), NEW s \in 0 .. Len(f), NEW h, NEW d, NEW o, NEW m, NEW at,
         Logged(f, s, FALSE, h, d, o, m, at), ~IsTorn(f)
  PROVE  \E n, b : Logged(f, s, TRUE, Replayed(f).records,
                          Len(Replayed(SubSeq(f, 1, s)).records), o, n, b)
<1> DEFINE u == SubSeq(f, 1, s)
           h2 == SubSeq(h, 1, m)
<1>0. Len(f) \in Nat /\ s \in Nat
  BY LenProperties
<1>1. /\ h \in Seq(FitRecords) /\ IsLayout(at, h) /\ m \in 0 .. Len(h)
      /\ OnFile(f, h, m, at) /\ EndsAt(f, at[m + 1])
  BY Zenon DEF Logged
<1>2. Len(h) \in Nat /\ m \in Nat
  BY <1>1, LenProperties
<1>3. Replayed(f).records = h2 /\ Replayed(f).end = at[m + 1]
  BY <1>1, ReplayLog, Zenon
<1>4. at[m + 1] = Len(f) + 1
  <2>1. at[m + 1] \in 1 .. Len(f) + 1 /\ ~(at[m + 1] <= Len(f))
    BY <1>3, ReplayedIs, Zenon DEF IsTorn
  <2> QED
    BY <1>0, <2>1
<1>5. PICK k \in 0 .. m : OnFile(u, h, k, at) /\ EndsAt(u, at[k + 1])
  BY <1>1, CutLog, Zenon
<1>6. u \in Seq(Byte) /\ Len(u) = s
  BY CutIs, Zenon
<1> HIDE DEF u
<1>7. k \in 0 .. Len(h) /\ k \in Nat
  BY <1>1, <1>2
<1>8. Replayed(u).records = SubSeq(h, 1, k)
  BY <1>1, <1>5, <1>6, <1>7, ReplayLog, Zenon
<1>9. Len(Replayed(u).records) = k
  BY <1>1, <1>7, <1>8, CutIs, Zenon
<1>10. PICK at2 : IsLayout(at2, h2) /\ OnFile(f, h2, m, at2) /\ \A i \in 1 .. m + 1 : at2[i] = at[i]
  BY <1>1, TrimLog
<1>11. h2 \in Seq(FitRecords) /\ Len(h2) = m
  BY <1>1, CutIs, Zenon
<1> HIDE DEF h2
<1>12. m + 1 \in 1 .. m + 1 /\ m \in 0 .. m /\ \A i \in 1 .. k : i + 1 \in 1 .. m + 1
  BY <1>2, <1>7
<1>13. \A i \in 1 .. k : at2[i + 1] <= s + 1
  BY <1>5, <1>6, <1>10, <1>12, Zenon DEF OnFile
<1>14. Logged(f, s, TRUE, h2, k, o, m, at2)
  BY <1>1, <1>4, <1>10, <1>11, <1>12, <1>13, Zenon DEF Logged
<1> QED
  BY <1>3, <1>9, <1>14, Zenon DEF u

\* Appending a record, synced or not.
LEMMA AppendLogged ==
  ASSUME NEW f \in Seq(Byte), NEW s \in 0 .. Len(f), NEW h, NEW d, NEW o, NEW m, NEW at,
         Logged(f, s, TRUE, h, d, o, m, at), NEW r \in FitRecords
  PROVE  /\ f \o Encode(r) \in Seq(Byte) /\ Len(f) <= Len(f \o Encode(r))
         /\ Append(h, r) \in Seq(FitRecords)
         /\ \E n, b : Logged(f \o Encode(r), s, TRUE, Append(h, r), d, o, n, b)
         /\ \E n, b : Logged(f \o Encode(r), Len(f \o Encode(r)), TRUE, Append(h, r),
                             Len(Append(h, r)), o, n, b)
         /\ \E n, b : Logged(f \o Encode(r), s, FALSE, Append(h, r), d, Len(h), n, b)
<1> DEFINE u == f \o Encode(r)
           h2 == Append(h, r)
<1>1. /\ h \in Seq(FitRecords) /\ IsLayout(at, h) /\ m = Len(h)
      /\ OnFile(f, h, m, at) /\ at[m + 1] = Len(f) + 1
      /\ d \in 0 .. m /\ \A i \in 1 .. d : at[i + 1] <= s + 1
  BY Zenon DEF Logged
<1>2. m \in Nat /\ Len(f) \in Nat
  BY <1>1, LenProperties, Zenon
<1>3. OnFile(f, h, Len(h), at) /\ at[Len(h) + 1] = Len(f) + 1
  BY <1>1, Zenon
<1>4. u \in Seq(Byte) /\ h2 \in Seq(FitRecords) /\ Len(h2) = m + 1 /\ Len(f) <= Len(u)
  <2>1. u \in Seq(Byte) /\ h2 \in Seq(FitRecords) /\ Len(h2) = Len(h) + 1 /\ Len(f) <= Len(u)
    BY <1>1, <1>3, AppendLog, Zenon
  <2> HIDE DEF u, h2
  <2> QED
    BY <1>1, <2>1, Zenon
<1>5. PICK at2 : IsAppended(at2, at, u, h2, Len(h))
  BY <1>1, <1>3, AppendLog, Zenon
<1> HIDE DEF u, h2
<1>6. /\ IsLayout(at2, h2) /\ OnFile(u, h2, m + 1, at2) /\ at2[(m + 1) + 1] = Len(u) + 1
      /\ \A i \in 1 .. m + 1 : at2[i] = at[i]
  BY <1>1, <1>5, Zenon DEF IsAppended
<1>7. Len(u) \in Nat
  BY <1>4, LenProperties, Zenon
<1>8. /\ m + 1 \in 0 .. m + 1 /\ d \in 0 .. m + 1 /\ \A i \in 1 .. d : i + 1 \in 1 .. m + 1
      /\ m <= m + 1 /\ Len(u) + 1 <= Len(u) + 1 /\ ~(Len(u) + 1 <= Len(u))
  BY <1>1, <1>2, <1>7
<1>9. EndsAt(u, at2[(m + 1) + 1])
  BY <1>6, <1>8, Zenon DEF EndsAt
<1>10. \A i \in 1 .. d : at2[i + 1] <= s + 1
  BY <1>1, <1>6, <1>8, Zenon
<1>11. \A i \in 1 .. m + 1 : at2[i + 1] <= Len(u) + 1
  BY <1>6, Zenon DEF OnFile
<1>12. Logged(u, s, TRUE, h2, d, o, m + 1, at2)
  BY <1>4, <1>6, <1>8, <1>9, <1>10, Zenon DEF Logged
<1>13. Logged(u, Len(u), TRUE, h2, m + 1, o, m + 1, at2)
  BY <1>4, <1>6, <1>8, <1>9, <1>11, Zenon DEF Logged
<1>14. Logged(u, s, FALSE, h2, d, m, m + 1, at2)
  BY <1>4, <1>6, <1>8, <1>9, <1>10, Zenon DEF Logged
<1>15. /\ \E n, b : Logged(u, s, TRUE, h2, d, o, n, b)
       /\ \E n, b : Logged(u, Len(u), TRUE, h2, Len(h2), o, n, b)
       /\ \E n, b : Logged(u, s, FALSE, h2, d, Len(h), n, b)
  BY <1>1, <1>4, <1>12, <1>13, <1>14, Zenon
<1> QED
  BY <1>4, <1>15, Zenon DEF u, h2

\* Syncing the log.
LEMMA SyncLogged ==
  ASSUME NEW f \in Seq(Byte), NEW s, NEW h, NEW d, NEW o, NEW m, NEW at,
         Logged(f, s, TRUE, h, d, o, m, at)
  PROVE  Logged(f, Len(f), TRUE, h, Len(h), o, m, at)
<1>1. h \in Seq(FitRecords) /\ m = Len(h) /\ OnFile(f, h, m, at)
  BY Zenon DEF Logged
<1>2. m \in Nat
  BY <1>1, LenProperties, Zenon
<1>3. Len(h) \in 0 .. m
  BY <1>1, <1>2
<1>4. \A i \in 1 .. Len(h) : at[i + 1] <= Len(f) + 1
  BY <1>1, Zenon DEF OnFile
<1> QED
  BY <1>3, <1>4, Zenon DEF Logged

\* The process ends while a record is written: n of its bytes reach the file.
LEMMA TearLogged ==
  ASSUME NEW f \in Seq(Byte), NEW s \in 0 .. Len(f), NEW h, NEW d, NEW o, NEW m, NEW at,
         Logged(f, s, TRUE, h, d, o, m, at),
         NEW r \in FitRecords, NEW n \in 1 .. Len(Encode(r)), n # Len(Encode(r))
  PROVE  Logged(f \o SubSeq(Encode(r), 1, n), s, FALSE, h, d, Len(h), m, at)
<1> DEFINE u == f \o SubSeq(Encode(r), 1, n)
<1>1. /\ h \in Seq(FitRecords) /\ IsLayout(at, h) /\ m \in 0 .. Len(h) /\ m = Len(h)
      /\ OnFile(f, h, m, at) /\ at[m + 1] = Len(f) + 1
      /\ d \in 0 .. m /\ \A i \in 1 .. d : at[i + 1] <= s + 1
  BY Zenon DEF Logged
<1>2. OnFile(u, h, m, at) /\ EndsAt(u, at[m + 1])
  BY <1>1, TearLog, Zenon
<1>3. m \in Nat
  BY <1>1, LenProperties, Zenon
<1>4. Len(h) <= m
  BY <1>1, <1>3
<1> HIDE DEF u
<1>5. Logged(u, s, FALSE, h, d, Len(h), m, at)
  BY <1>1, <1>2, <1>4, Zenon DEF Logged
<1> QED
  BY <1>5, Zenon DEF u

\* The process ends between two calls.
LEMMA StopLogged ==
  ASSUME NEW f, NEW s, NEW h, NEW d, NEW o, NEW m, NEW at, Logged(f, s, TRUE, h, d, o, m, at)
  PROVE  Logged(f, s, FALSE, h, d, Len(h), m, at)
<1>1. h \in Seq(FitRecords) /\ m = Len(h)
  BY Zenon DEF Logged
<1>2. m \in Nat
  BY <1>1, LenProperties, Zenon
<1>3. Len(h) <= m
  BY <1>1, <1>2
<1> QED
  BY <1>3, Zenon DEF Logged

\* The power goes: the file is cut behind its synced part.
LEMMA CutLogged ==
  ASSUME NEW f \in Seq(Byte), NEW s \in 0 .. Len(f), NEW u, NEW h, NEW d, NEW o, NEW m, NEW at,
         Logged(f, s, u, h, d, o, m, at), NEW n \in s .. Len(f)
  PROVE  \E k : Logged(SubSeq(f, 1, n), n, FALSE, h, d, d, k, at)
<1> DEFINE w == SubSeq(f, 1, n)
<1>0. Len(f) \in Nat /\ s \in Nat
  BY LenProperties
<1>1. /\ h \in Seq(FitRecords) /\ IsLayout(at, h) /\ m \in 0 .. Len(h)
      /\ OnFile(f, h, m, at) /\ EndsAt(f, at[m + 1])
      /\ d \in 0 .. m /\ \A i \in 1 .. d : at[i + 1] <= s + 1
  BY Zenon DEF Logged
<1>2. n \in 0 .. Len(f) /\ n \in Nat /\ s <= n
  BY <1>0
<1>3. PICK k \in 0 .. m : /\ OnFile(w, h, k, at) /\ EndsAt(w, at[k + 1])
                          /\ k < m => ~(at[(k + 1) + 1] <= n + 1)
  BY <1>1, <1>2, CutLog, Zenon
<1> HIDE DEF w
<1>4. Len(h) \in Nat /\ m \in Nat /\ k \in 0 .. Len(h) /\ k \in Nat /\ d \in Nat
  BY <1>1, LenProperties
<1>5. ASSUME NEW i \in 1 .. d PROVE at[i + 1] <= n + 1
  <2>1. i \in 1 .. Len(h)
    BY <1>1, <1>4
  <2>2. at[i + 1] \in Nat
    BY <1>1, <2>1, LayoutIs, Zenon
  <2>3. at[i + 1] <= s + 1
    BY <1>1, Zenon
  <2> DEFINE q == at[i + 1]
  <2> HIDE DEF q
  <2>4. q <= n + 1
    BY <1>0, <1>2, <2>2, <2>3 DEF q
  <2> QED
    BY <2>4, Zenon DEF q
<1>6. d <= k
  <2>1. CASE ~(d <= k)
    <3>1. k < m /\ k + 1 \in 1 .. d
      BY <1>1, <1>4, <2>1
    <3> QED
      BY <1>3, <1>5, <3>1, Zenon
  <2> QED
    BY <2>1, Zenon
<1>7. d \in 0 .. k
  BY <1>4, <1>6
<1>8. Logged(w, n, FALSE, h, d, d, k, at)
  BY <1>1, <1>3, <1>4, <1>5, <1>6, <1>7, Zenon DEF Logged
<1> QED
  BY <1>8, Zenon DEF w

-----------------------------------------------------------------------------
\* Every step keeps the invariant.

\* The constructor without truncate.
LEMMA WalOpenInv ==
  ASSUME LogInv, WalOpen
  PROVE  LogInv'
<1>0. file \in Seq(Byte) /\ synced \in 0 .. Len(file)
  BY Zenon DEF LogInv, WalTypeOK
<1> DEFINE cut == SubSeq(file, 1, synced)
<1>1. cut \in Seq(Byte)
  BY <1>0, CutIs, Zenon
<1>2. /\ up' = TRUE /\ history' = Replayed(file).records /\ durable' = Len(Replayed(cut).records)
      /\ spoiled' = (spoiled \/ IsTorn(file)) /\ ~up
      /\ file' = file /\ synced' = synced /\ owed' = owed /\ walcrashes' = walcrashes
  BY Zenon DEF WalOpen
<1> HIDE DEF cut
<1>3. durable' \in Nat /\ \E T : history' \in Seq(T)
  BY <1>0, <1>1, <1>2, ReplayedIs, Zenon
<1>4. WalTypeOK'
  BY <1>2, <1>3, Zenon DEF LogInv, WalTypeOK
<1>5. ASSUME ~spoiled'
      PROVE  \E m, at : Logged(file', synced', up', history', durable', owed', m, at)
  <2>1. ~spoiled /\ ~IsTorn(file)
    BY <1>2, <1>5, Zenon
  <2>2. PICK m, at : Logged(file, synced, up, history, durable, owed, m, at)
    BY <2>1, Zenon DEF LogInv
  <2>3. Logged(file, synced, FALSE, history, durable, owed, m, at)
    BY <1>2, <2>2, Zenon DEF Logged
  <2>4. PICK n, b : Logged(file, synced, TRUE, Replayed(file).records, Len(Replayed(cut).records), owed, n, b)
    BY <1>0, <2>1, <2>3, OpenLogged, Zenon DEF cut
  <2> QED
    BY <1>2, <2>4, Zenon
<1> QED
  BY <1>3, <1>4, <1>5, Zenon DEF LogInv

\* append.
LEMMA WalAppendInv ==
  ASSUME LogInv, NEW r \in WalRecords, NEW sync \in BOOLEAN, WalAppend(r, sync)
  PROVE  LogInv'
<1> DEFINE e == Encode(r)
           h2 == Append(history, r)
<1>0. file \in Seq(Byte) /\ synced \in 0 .. Len(file) /\ r \in FitRecords
  BY Zenon DEF LogInv, WalTypeOK, WalAppend, FitRecords
<1>1. e \in Seq(Byte)
  BY <1>0, EncodeSize, Zenon
<1>2. /\ up /\ file' = file \o e /\ history' = h2
      /\ synced' = (IF sync THEN Len(file') ELSE synced)
      /\ durable' = (IF sync THEN Len(history') ELSE durable)
      /\ up' = up /\ owed' = owed /\ spoiled' = spoiled /\ walcrashes' = walcrashes
  BY Zenon DEF WalAppend
<1>3. file' \in Seq(Byte) /\ Len(file') = Len(file) + Len(e)
  BY <1>0, <1>1, <1>2, ConcatIs, Zenon
<1>4. synced' \in 0 .. Len(file')
  <2>1. Len(file) \in Nat /\ Len(e) \in Nat
    BY <1>0, <1>1, LenProperties, Zenon
  <2> HIDE DEF e
  <2> QED
    BY <1>0, <1>2, <1>3, <2>1
<1>5. PICK T : history \in Seq(T)
  BY Zenon DEF LogInv
<1>6. h2 \in Seq(T \cup {r})
  <2>1. history \in Seq(T \cup {r})
    BY <1>5, SeqMonotonic, Zenon
  <2> QED
    BY <2>1
<1>7. Len(h2) \in Nat
  BY <1>6, LenProperties, Zenon
<1> HIDE DEF h2, e
<1>8. WalTypeOK'
  BY <1>2, <1>3, <1>4, <1>7, Zenon DEF LogInv, WalTypeOK
<1>9. ASSUME ~spoiled'
      PROVE  \E m, at : Logged(file', synced', up', history', durable', owed', m, at)
  <2>1. PICK m, at : Logged(file, synced, up, history, durable, owed, m, at)
    BY <1>2, <1>9, Zenon DEF LogInv
  <2>2. Logged(file, synced, TRUE, history, durable, owed, m, at)
    BY <1>2, <2>1, Zenon DEF Logged
  <2>3. /\ \E n, b : Logged(file \o e, synced, TRUE, h2, durable, owed, n, b)
        /\ \E n, b : Logged(file \o e, Len(file \o e), TRUE, h2, Len(h2), owed, n, b)
    BY <1>0, <2>2, AppendLogged, Zenon DEF e, h2
  <2>4. up' = TRUE
    BY <1>2, Zenon DEF LogInv, WalTypeOK
  <2>5. CASE sync
    BY <1>2, <2>3, <2>4, <2>5, Zenon
  <2>6. CASE ~sync
    BY <1>2, <2>3, <2>4, <2>6, Zenon
  <2> QED
    BY <2>5, <2>6, Zenon
<1> QED
  BY <1>2, <1>6, <1>8, <1>9, Zenon DEF LogInv

\* sync.
LEMMA WalSyncInv ==
  ASSUME LogInv, WalSync
  PROVE  LogInv'
<1>0. file \in Seq(Byte) /\ up \in BOOLEAN
  BY Zenon DEF LogInv, WalTypeOK
<1>1. /\ up /\ synced' = Len(file) /\ durable' = Len(history)
      /\ file' = file /\ up' = up /\ history' = history /\ owed' = owed
      /\ spoiled' = spoiled /\ walcrashes' = walcrashes
  BY Zenon DEF WalSync
<1>2. Len(file) \in Nat /\ Len(history) \in Nat
  BY <1>0, LenProperties, Zenon DEF LogInv
<1>3. Len(file) \in 0 .. Len(file)
  BY <1>2
<1>4. WalTypeOK'
  BY <1>1, <1>2, <1>3, Zenon DEF LogInv, WalTypeOK
<1>5. ASSUME ~spoiled'
      PROVE  \E m, at : Logged(file', synced', up', history', durable', owed', m, at)
  <2>1. PICK m, at : Logged(file, synced, up, history, durable, owed, m, at)
    BY <1>1, <1>5, Zenon DEF LogInv
  <2>2. up = TRUE
    BY <1>0, <1>1, Zenon
  <2>3. Logged(file, Len(file), TRUE, history, Len(history), owed, m, at)
    BY <1>0, <2>1, <2>2, SyncLogged, Zenon
  <2> QED
    BY <1>1, <2>2, <2>3, Zenon
<1> QED
  BY <1>1, <1>4, <1>5, Zenon DEF LogInv

\* The constructor with truncate.
LEMMA WalTruncateInv ==
  ASSUME LogInv, WalTruncate
  PROVE  LogInv'
<1>0. up \in BOOLEAN /\ owed \in Nat /\ walcrashes \in Nat
  BY Zenon DEF LogInv, WalTypeOK
<1>1. /\ up /\ file' = <<>> /\ synced' = 0 /\ history' = <<>> /\ durable' = 0 /\ spoiled' = FALSE
      /\ up' = up /\ owed' = owed /\ walcrashes' = walcrashes
  BY Zenon DEF WalTruncate
<1>2. <<>> \in Seq(Byte) /\ Len(<<>>) = 0 /\ 0 \in 0 .. 0 /\ 0 \in Nat
  OBVIOUS
<1>3. WalTypeOK'
  BY <1>0, <1>1, <1>2, Zenon DEF WalTypeOK
<1>4. \E m, at : Logged(file', synced', up', history', durable', owed', m, at)
  BY <1>0, <1>1, EmptyLog, Zenon
<1> QED
  BY <1>1, <1>2, <1>3, <1>4, Zenon DEF LogInv

\* The process ends.
LEMMA WalExitInv ==
  ASSUME LogInv, WalExit
  PROVE  LogInv'
<1>0. /\ file \in Seq(Byte) /\ synced \in 0 .. Len(file) /\ up \in BOOLEAN /\ walcrashes \in Nat
      /\ durable \in Nat /\ spoiled \in BOOLEAN
  BY Zenon DEF LogInv, WalTypeOK
<1>1. /\ up /\ up' = FALSE /\ owed' = Len(history) /\ walcrashes' = walcrashes + 1
      /\ synced' = synced /\ durable' = durable /\ spoiled' = spoiled
  BY Zenon DEF WalExit, WalMayCrash
<1>2. Len(history) \in Nat /\ walcrashes + 1 \in Nat /\ Len(file) \in Nat
  BY <1>0, LenProperties DEF LogInv
<1>3. PICK T : history \in Seq(T)
  BY Zenon DEF LogInv
<1>4. up = TRUE
  BY <1>0, <1>1, Zenon
<1>5. CASE file' = file /\ history' = history
  <2>1. WalTypeOK'
    BY <1>0, <1>1, <1>2, <1>5, Zenon DEF WalTypeOK
  <2>2. ASSUME ~spoiled'
        PROVE  \E m, at : Logged(file', synced', up', history', durable', owed', m, at)
    <3>1. PICK m, at : Logged(file, synced, TRUE, history, durable, owed, m, at)
      BY <1>1, <1>4, <2>2, Zenon DEF LogInv
    <3>2. Logged(file, synced, FALSE, history, durable, Len(history), m, at)
      BY <3>1, StopLogged, Zenon
    <3> QED
      BY <1>1, <1>5, <3>2, Zenon
  <2> QED
    BY <1>3, <1>5, <2>1, <2>2, Zenon DEF LogInv
<1>6. ASSUME NEW r \in FitRecords, NEW n \in 1 .. Len(Encode(r)),
             file' = file \o SubSeq(Encode(r), 1, n),
             history' = IF n = Len(Encode(r)) THEN Append(history, r) ELSE history
      PROVE  LogInv'
  <2> DEFINE e == Encode(r)
             h2 == Append(history, r)
  <2>1. file' \in Seq(Byte) /\ Len(file') = Len(file) + n
    BY <1>0, <1>6, WriteBegun, Zenon
  <2>2. n \in Nat
    <3>1. Len(e) \in Nat
      BY EncodeSize, Zenon
    <3> QED
      BY <3>1
  <2>3. synced' \in 0 .. Len(file')
    BY <1>0, <1>1, <1>2, <2>1, <2>2
  <2>4. WalTypeOK'
    BY <1>0, <1>1, <1>2, <2>1, <2>3, Zenon DEF WalTypeOK
  <2>5. history' \in Seq(T \cup {r})
    <3>1. history \in Seq(T \cup {r})
      BY <1>3, SeqMonotonic, Zenon
    <3>2. h2 \in Seq(T \cup {r})
      BY <3>1
    <3> QED
      BY <1>6, <3>1, <3>2, Zenon
  <2>6. ASSUME ~spoiled'
        PROVE  \E m, at : Logged(file', synced', up', history', durable', owed', m, at)
    <3>1. PICK m, at : Logged(file, synced, TRUE, history, durable, owed, m, at)
      BY <1>1, <1>4, <2>6, Zenon DEF LogInv
    <3>2. CASE n = Len(e)
      <4>1. SubSeq(e, 1, Len(e)) = e
        BY EncodeSize, SubSeqFull, Zenon
      <4>2. file' = file \o e /\ history' = h2
        BY <1>6, <3>2, <4>1, Zenon
      <4>3. \E k, b : Logged(file \o e, synced, FALSE, h2, durable, Len(history), k, b)
        BY <1>0, <3>1, AppendLogged, Zenon
      <4> HIDE DEF e, h2
      <4> QED
        BY <1>1, <4>2, <4>3, Zenon
    <3>3. CASE n # Len(e)
      <4>1. Logged(file \o SubSeq(e, 1, n), synced, FALSE, history, durable, Len(history), m, at)
        BY <1>0, <3>1, <3>3, TearLogged, Zenon
      <4>2. file' = file \o SubSeq(e, 1, n) /\ history' = history
        BY <1>6, <3>3, Zenon
      <4> HIDE DEF e, h2
      <4> QED
        BY <1>1, <4>1, <4>2, Zenon
    <3> QED
      BY <3>2, <3>3, Zenon
  <2> QED
    BY <2>4, <2>5, <2>6, Zenon DEF LogInv
<1>7. \/ file' = file /\ history' = history
      \/ \E r \in FitRecords : \E n \in 1 .. Len(Encode(r)) :
           /\ file' = file \o SubSeq(Encode(r), 1, n)
           /\ history' = IF n = Len(Encode(r)) THEN Append(history, r) ELSE history
  BY Zenon DEF WalExit, FitRecords
<1> QED
  BY <1>5, <1>6, <1>7, Zenon

\* The power goes.
LEMMA WalPowerLossInv ==
  ASSUME LogInv, WalPowerLoss
  PROVE  LogInv'
<1>0. /\ file \in Seq(Byte) /\ synced \in 0 .. Len(file) /\ walcrashes \in Nat
      /\ durable \in Nat /\ spoiled \in BOOLEAN
  BY Zenon DEF LogInv, WalTypeOK
<1>1. /\ up' = FALSE /\ owed' = durable /\ walcrashes' = walcrashes + 1
      /\ history' = history /\ durable' = durable /\ spoiled' = spoiled
  BY Zenon DEF WalPowerLoss, WalMayCrash
<1>2. PICK n \in synced .. Len(file) : file' = SubSeq(file, 1, n) /\ synced' = n
  BY Zenon DEF WalPowerLoss
<1>3. Len(file) \in Nat /\ walcrashes + 1 \in Nat
  BY <1>0, LenProperties
<1>4. n \in 0 .. Len(file) /\ n \in 0 .. n
  BY <1>0, <1>3
<1>5. file' \in Seq(Byte) /\ Len(file') = n
  BY <1>0, <1>2, <1>4, CutIs, Zenon
<1>6. WalTypeOK'
  BY <1>0, <1>1, <1>2, <1>3, <1>4, <1>5, Zenon DEF WalTypeOK
<1>7. ASSUME ~spoiled'
      PROVE  \E m, at : Logged(file', synced', up', history', durable', owed', m, at)
  <2>1. PICK m, at : Logged(file, synced, up, history, durable, owed, m, at)
    BY <1>1, <1>7, Zenon DEF LogInv
  <2>2. PICK k : Logged(SubSeq(file, 1, n), n, FALSE, history, durable, durable, k, at)
    BY <1>0, <2>1, CutLogged, Zenon
  <2> QED
    BY <1>1, <1>2, <2>2, Zenon
<1> QED
  BY <1>1, <1>6, <1>7, Zenon DEF LogInv

-----------------------------------------------------------------------------
\* The theorems.

\* The log starts out empty.
LEMMA WalInitInv ==
  ASSUME WalInit
  PROVE  LogInv
<1>1. <<>> \in Seq(Byte) /\ Len(<<>>) = 0 /\ 0 \in 0 .. 0 /\ 0 \in Nat
  OBVIOUS
<1>2. WalTypeOK
  BY <1>1, Zenon DEF WalInit, WalTypeOK
<1>3. \E m, at : Logged(file, synced, up, history, durable, owed, m, at)
  BY <1>1, EmptyLog, Zenon DEF WalInit
<1> QED
  BY <1>1, <1>2, <1>3, Zenon DEF LogInv, WalInit

\* Whatever is appended, and wherever crashes cut the file, a log without a torn end at
\* its openings is in order.
THEOREM LogInvariant == WalSpec => []LogInv
<1>1. LogInv /\ [WalNext]_walvars => LogInv'
  <2> SUFFICES ASSUME LogInv, [WalNext]_walvars PROVE LogInv'
    BY Zenon
  <2>1. CASE WalOpen
    BY <2>1, WalOpenInv, Zenon
  <2>2. CASE \E r \in WalRecords, sync \in BOOLEAN : WalAppend(r, sync)
    BY <2>2, WalAppendInv, Zenon
  <2>3. CASE WalSync
    BY <2>3, WalSyncInv, Zenon
  <2>4. CASE WalTruncate
    BY <2>4, WalTruncateInv, Zenon
  <2>5. CASE WalExit
    BY <2>5, WalExitInv, Zenon
  <2>6. CASE WalPowerLoss
    BY <2>6, WalPowerLossInv, Zenon
  <2>7. CASE UNCHANGED walvars
    BY <2>7, Zenon DEF LogInv, WalTypeOK, walvars
  <2> QED
    BY <2>1, <2>2, <2>3, <2>4, <2>5, <2>6, <2>7, Zenon DEF WalNext
<1> QED
  BY <1>1, WalInitInv, PTL DEF WalSpec

\* The types of the variables, for every length of the fields and every keys and values.
THEOREM WalTypeCorrect == WalSpec => []WalTypeOK
<1>1. LogInv => WalTypeOK
  BY Zenon DEF LogInv
<1> QED
  BY <1>1, LogInvariant, PTL

\* A prefix of a prefix.
LEMMA PrefixIs ==
  ASSUME NEW T, NEW h \in Seq(T), NEW m \in 0 .. Len(h), NEW o \in Nat, o <= m
  PROVE  IsPrefix(SubSeq(h, 1, o), SubSeq(h, 1, m)) /\ IsPrefix(SubSeq(h, 1, m), h)
<1> DEFINE s == SubSeq(h, 1, o)
           t == SubSeq(h, 1, m)
<1>0. Len(h) \in Nat /\ m \in Nat /\ m <= Len(h)
  BY LenProperties
<1>1. o \in 0 .. Len(h)
  BY <1>0
<1>2. s \in Seq(T) /\ Len(s) = o /\ \A i \in 1 .. o : s[i] = h[i]
  BY <1>1, CutIs, Zenon
<1>3. t \in Seq(T) /\ Len(t) = m /\ \A i \in 1 .. m : t[i] = h[i]
  BY CutIs, Zenon
<1> HIDE DEF s, t
<1>4. o \in 0 .. Len(t) /\ \A i \in 1 .. o : i \in 1 .. m
  BY <1>0, <1>3
<1> DEFINE x == SubSeq(t, 1, o)
<1>5. x \in Seq(T) /\ Len(x) = o /\ \A i \in 1 .. o : x[i] = t[i]
  BY <1>3, <1>4, CutIs, Zenon
<1> HIDE DEF x
<1>6. s = x
  <2>1. Len(s) = Len(x) /\ \A i \in 1 .. Len(s) : s[i] = x[i]
    BY <1>2, <1>3, <1>4, <1>5, Zenon
  <2> QED
    BY <1>2, <1>5, <2>1, SeqEqual, Zenon
<1>7. SubSeq(s, 1, Len(s)) = s /\ SubSeq(t, 1, Len(t)) = t
  BY <1>2, <1>3, SubSeqFull, Zenon
<1>8. IsPrefix(s, t)
  BY <1>2, <1>3, <1>6, <1>7, Zenon DEF IsPrefix, x
<1>9. IsPrefix(t, h)
  BY <1>0, <1>3, <1>7, Zenon DEF IsPrefix, t
<1> QED
  BY <1>8, <1>9, Zenon DEF s, t

\* A log that had no torn end when it was opened is recovered well: replay returns every
\* acknowledged record, in order, and nothing that was not appended.
THEOREM CleanLogIsRecovered == WalSpec => []CleanLogRecovered
<1>1. LogInv => CleanLogRecovered
  <2> SUFFICES ASSUME LogInv, ~spoiled, ~up
               PROVE  /\ IsPrefix(SubSeq(history, 1, owed), Replayed(file).records)
                      /\ IsPrefix(Replayed(file).records, history)
    BY Zenon DEF CleanLogRecovered, AcknowledgedSurvive
  <2>1. file \in Seq(Byte) /\ owed \in Nat
    BY Zenon DEF LogInv, WalTypeOK
  <2>2. PICK m, at : Logged(file, synced, up, history, durable, owed, m, at)
    BY Zenon DEF LogInv
  <2>3. /\ history \in Seq(FitRecords) /\ IsLayout(at, history) /\ m \in 0 .. Len(history)
        /\ OnFile(file, history, m, at) /\ EndsAt(file, at[m + 1]) /\ owed <= m
    BY <2>2, Zenon DEF Logged
  <2>4. Replayed(file).records = SubSeq(history, 1, m)
    BY <2>1, <2>3, ReplayLog, Zenon
  <2>5. IsPrefix(SubSeq(history, 1, owed), SubSeq(history, 1, m)) /\ IsPrefix(SubSeq(history, 1, m), history)
    BY <2>1, <2>3, PrefixIs, Zenon
  <2> QED
    BY <2>4, <2>5, Zenon
<1> QED
  BY <1>1, LogInvariant, PTL
=============================================================================
