-------------------------- MODULE ValidationProofs --------------------------
(***************************************************************************)
(* Proofs about Validation, for any keys, columns, cells, slices, samples  *)
(* and number of writes: the types of its data, that it implements         *)
(* ComparisonPromise, and its invariants.                                  *)
(***************************************************************************)
EXTENDS Validation, TLAPS, FiniteSetTheorems, WellFoundedInduction

-----------------------------------------------------------------------------
(* Sums (MapThenSumSet).  The sum over a set is defined through the sums   *)
(* over its subsets; that there are such sums is shown at a smallest       *)
(* subset which has none.                                                  *)

\* Sets of subsets of a finite set have smallest members.
LEMMA SmallestSubset ==
  ASSUME NEW S, IsFiniteSet(S), NEW T, T \subseteq SUBSET S, T # {}
  PROVE  \E t \in T : \A u \in T : u \subseteq t => u = t
<1>1. IsWellFoundedOn(StrictSubsetOrdering(S), FiniteSubsetsOf(S))
  BY FS_StrictSubsetOrderingWellFounded
<1>2. T \subseteq FiniteSubsetsOf(S)
  BY FS_FiniteSubsetsOfFinite
<1>3. \E t \in T : \A u \in T : ~(<<u, t>> \in StrictSubsetOrdering(S))
  BY <1>1, <1>2, WFMin
<1> QED BY <1>3 DEF StrictSubsetOrdering

First(s) == CHOOSE x \in s : TRUE

\* h gives the sum of the values w over each subset of s.
Sums(h, w, s) ==
  /\ h \in [SUBSET s -> Int]
  /\ \A u \in SUBSET s : h[u] = IF u = {} THEN 0 ELSE w[First(u)] + h[u \ {First(u)}]

\* Two such functions agree where both are defined.
LEMMA SumsAgree ==
  ASSUME NEW S, IsFiniteSet(S), NEW w, NEW s \in SUBSET S, NEW t \in SUBSET S,
         NEW h, NEW k, Sums(h, w, s), Sums(k, w, t), NEW v \in (SUBSET s) \cap (SUBSET t)
  PROVE  h[v] = k[v]
<1> DEFINE Differ == {u \in (SUBSET s) \cap (SUBSET t) : h[u] # k[u]}
<1> SUFFICES ASSUME Differ # {} PROVE FALSE
  OBVIOUS
<1>1. Differ \subseteq SUBSET S
  OBVIOUS
<1>2. PICK u \in Differ : \A x \in Differ : x \subseteq u => x = u
  <2> HIDE DEF Differ
  <2> QED BY <1>1, SmallestSubset
<1>3. u # {}
  BY DEF Sums
<1>4. First(u) \in u
  BY <1>3 DEF First
<1>5. u \ {First(u)} \notin Differ
  BY <1>2, <1>4
<1>6. h[u \ {First(u)}] = k[u \ {First(u)}]
  BY <1>5
<1>7. h[u] = k[u]
  BY <1>3, <1>6 DEF Sums
<1> QED BY <1>7

\* Each finite set of integers has such a function.
LEMMA SumsExist ==
  ASSUME NEW S, IsFiniteSet(S), NEW w, \A x \in S : w[x] \in Int
  PROVE  \E h : Sums(h, w, S)
<1> DEFINE None == {s \in SUBSET S : ~\E h : Sums(h, w, s)}
           H(u) == CHOOSE h : Sums(h, w, u)
<1> SUFFICES ASSUME None # {} PROVE FALSE
  OBVIOUS
<1>1. PICK s \in None : \A u \in None : u \subseteq s => u = s
  <2>1. None \subseteq SUBSET S
    OBVIOUS
  <2> HIDE DEF None
  <2> QED BY <2>1, SmallestSubset
<1>2. \A u \in SUBSET s : u # s => Sums(H(u), w, u)
  BY <1>1
<1> HIDE DEF H
<1> DEFINE last == IF s = {} THEN 0
                   ELSE w[First(s)] + H(s \ {First(s)})[s \ {First(s)}]
           h == [u \in SUBSET s |-> IF u = s THEN last ELSE H(u)[u]]
<1>3. s # {} => First(s) \in s
  BY DEF First
<1>4. last \in Int
  <2>1. CASE s = {}
    BY <2>1
  <2>2. CASE s # {}
    <3>1. w[First(s)] \in Int
      BY <1>3, <2>2
    <3>2. Sums(H(s \ {First(s)}), w, s \ {First(s)})
      BY <1>2, <1>3, <2>2
    <3>3. H(s \ {First(s)})[s \ {First(s)}] \in Int
      BY <3>2 DEF Sums
    <3> QED BY <2>2, <3>1, <3>3
  <2> QED BY <2>1, <2>2
<1>5. h \in [SUBSET s -> Int]
  <2>1. ASSUME NEW u \in SUBSET s, u # s PROVE H(u)[u] \in Int
    <3>1. Sums(H(u), w, u)
      BY <1>2, <2>1
    <3> QED BY <3>1 DEF Sums
  <2> HIDE DEF last
  <2> QED BY <1>4, <2>1
<1>6. ASSUME NEW u \in SUBSET s
      PROVE  h[u] = IF u = {} THEN 0 ELSE w[First(u)] + h[u \ {First(u)}]
  <2> DEFINE rest == u \ {First(u)}
  <2>1. CASE u = {}
    <3>1. u # s => H(u)[u] = 0
      <4>1. u # s => Sums(H(u), w, u)
        BY <1>2
      <4> QED BY <2>1, <4>1 DEF Sums
    <3> QED BY <2>1, <3>1
  <2>2. CASE u # {}
    <3>1. First(u) \in u /\ rest \in SUBSET s /\ rest # s
      BY <2>2 DEF First
    <3>2. h[rest] = H(rest)[rest]
      BY <3>1
    <3>3. CASE u = s
      BY <2>2, <3>2, <3>3
    <3>4. CASE u # s
      <4>1. H(u)[u] = w[First(u)] + H(u)[rest]
        <5>1. Sums(H(u), w, u)
          BY <1>2, <3>4
        <5> QED BY <2>2, <3>1, <5>1 DEF Sums
      <4>2. H(u)[rest] = H(rest)[rest]
        <5>1. Sums(H(u), w, u) /\ Sums(H(rest), w, rest)
          BY <1>2, <3>1, <3>4
        <5> HIDE DEF rest
        <5>2. u \in SUBSET S /\ rest \in SUBSET S
          BY <3>1
        <5>3. rest \in (SUBSET u) \cap (SUBSET rest)
          BY <3>1 DEF rest
        <5> QED BY <5>1, <5>2, <5>3, SumsAgree
      <4> QED BY <2>2, <3>2, <3>4, <4>1, <4>2
    <3> QED BY <3>3, <3>4
  <2> QED BY <2>1, <2>2
<1>7. Sums(h, w, s)
  <2> HIDE DEF h
  <2> QED BY <1>5, <1>6 DEF Sums
<1> QED BY <1>1, <1>7

\* What SumOf adds up.
Total(rows, f) == MapThenSumSet(LAMBDA r : r.val[f], rows)

\* The sum of integers is an integer.
LEMMA SumIsInt ==
  ASSUME NEW S, IsFiniteSet(S), NEW f, \A r \in S : r.val[f] \in Int
  PROVE  Total(S, f) \in Int
<1> DEFINE w == [r \in S |-> r.val[f]]
           Step(g) == [s \in SUBSET S |->
                         IF s = {} THEN 0 ELSE First(s).val[f] + g[s \ {First(s)}]]
           iter == CHOOSE g : g = Step(g)
<1>1. Total(S, f) = iter[S]
  BY DEF Total, MapThenSumSet, MapThenFoldSet, First
<1>2. PICK h : Sums(h, w, S)
  BY SumsExist
<1>3. h = Step(h)
  <2>1. \A u \in SUBSET S : u # {} => First(u) \in S
    BY DEF First
  <2>2. \A u \in SUBSET S :
          h[u] = IF u = {} THEN 0 ELSE First(u).val[f] + h[u \ {First(u)}]
    BY <1>2, <2>1 DEF Sums
  <2>3. h \in [SUBSET S -> Int]
    BY <1>2 DEF Sums
  <2> QED BY <2>2, <2>3
<1>4. iter = Step(iter)
  BY <1>3
<1> HIDE DEF iter
<1>5. \A u \in SUBSET S :
        iter[u] = IF u = {} THEN 0 ELSE First(u).val[f] + iter[u \ {First(u)}]
  BY <1>4
<1> DEFINE NoInt == {u \in SUBSET S : iter[u] \notin Int}
<1>6. ASSUME NoInt # {} PROVE FALSE
  <2>1. NoInt \subseteq SUBSET S
    OBVIOUS
  <2>2. PICK u \in NoInt : \A x \in NoInt : x \subseteq u => x = u
    <3> HIDE DEF NoInt
    <3> QED BY <1>6, <2>1, SmallestSubset
  <2>3. u # {}
    <3>1. iter[{}] = 0
      BY <1>5
    <3>2. iter[u] \notin Int
      BY <2>2
    <3>3. 0 \in Int
      OBVIOUS
    <3> QED BY <3>1, <3>2, <3>3
  <2>4. First(u) \in u
    BY <2>3 DEF First
  <2>5. iter[u \ {First(u)}] \in Int
    BY <2>2, <2>4
  <2>6. iter[u] \in Int
    BY <1>5, <2>3, <2>4, <2>5
  <2> QED BY <2>6
<1> QED BY <1>1, <1>6

-----------------------------------------------------------------------------
(* Tables, and what the queries return of them.                            *)

\* The values of a function on a finite set.
LEMMA FiniteImage ==
  ASSUME NEW S, IsFiniteSet(S), NEW f, DOMAIN f = S, f = [x \in S |-> f[x]]
  PROVE  IsFiniteSet({f[x] : x \in S})
<1> DEFINE T == {f[x] : x \in S}
<1>1. f \in Surjection(S, T)
  BY DEF Surjection
<1> QED BY <1>1, FS_Surjection

IsTableRow(r) ==
  /\ r.key \in Keys /\ r.copy \in Copies[r.key] /\ r.val \in Contents(r.key)
  /\ r = RowAt(<<r.key, r.copy>>, r.val)

\* A slot is a key and one of its copies.
LEMMA SlotPairs == \A slot : slot \in Slots <=> \E k \in Keys : \E c \in Copies[k] : slot = <<k, c>>
<1>1. ASSUME NEW slot \in Slots PROVE \E k \in Keys : \E c \in Copies[k] : slot = <<k, c>>
  <2>1. PICK k \in Keys : slot \in {k} \X Copies[k]
    BY DEF Slots
  <2> QED BY <2>1
<1>2. ASSUME NEW k \in Keys, NEW c \in Copies[k] PROVE <<k, c>> \in Slots
  <2>1. <<k, c>> \in {k} \X Copies[k]
    OBVIOUS
  <2> QED BY <2>1 DEF Slots
<1> QED BY <1>1, <1>2

\* The rows a table may have (PossibleRows).
LEMMA PossibleRow == \A r : r \in PossibleRows <=> IsTableRow(r)
<1>1. ASSUME NEW r \in PossibleRows PROVE IsTableRow(r)
  <2>1. PICK slot \in Slots : \E v \in Contents(slot[1]) : r = RowAt(slot, v)
    BY DEF PossibleRows
  <2>2. PICK v \in Contents(slot[1]) : r = RowAt(slot, v)
    BY <2>1
  <2>3. PICK k \in Keys : \E c \in Copies[k] : slot = <<k, c>>
    BY SlotPairs
  <2>4. PICK c \in Copies[k] : slot = <<k, c>>
    BY <2>3
  <2> QED BY <2>2, <2>4 DEF IsTableRow, RowAt
<1>2. ASSUME NEW r, IsTableRow(r) PROVE r \in PossibleRows
  <2> DEFINE slot == <<r.key, r.copy>>
  <2>1. slot \in Slots
    BY <1>2, SlotPairs DEF IsTableRow
  <2>2. slot[1] = r.key /\ r.val \in Contents(r.key) /\ r = RowAt(slot, r.val)
    BY <1>2 DEF IsTableRow
  <2> HIDE DEF slot
  <2> QED BY <2>1, <2>2 DEF PossibleRows
<1> QED BY <1>1, <1>2

\* A table is a set of rows with one for a key and copy at most (Tables).
LEMMA TableIsRows ==
  ASSUME NEW t
  PROVE  t \in Tables <=> (\A r \in t : IsTableRow(r)) /\ OnePerSlot(t)
BY PossibleRow DEF Tables

\* The cells a row of a table may have are integers, or missing.
LEMMA ContentsTyped ==
  ASSUME NEW k \in Keys, NEW v \in Contents(k)
  PROVE  /\ v \in [Fields -> Int \cup {NULL}]
         /\ \A f \in Fields : v[f] \in Cells[k][f]
<1>1. \A f \in Fields : v[f] \in Cells[k][f]
  BY DEF Contents
<1>2. \A f \in Fields : Cells[k][f] \subseteq Int \cup {NULL}
  BY CellsAssumption
<1>3. v = [f \in Fields |-> v[f]]
  BY DEF Contents
<1> QED BY <1>1, <1>2, <1>3

\* The rows of a table are rows of a frame, and finitely many.
LEMMA TableTyped ==
  ASSUME NEW t \in Tables
  PROVE  t \subseteq Rows /\ IsFiniteSet(t)
<1>1. ASSUME NEW r \in t PROVE r \in Rows
  <2>1. IsTableRow(r)
    BY TableIsRows
  <2>2. r.copy \in Nat
    BY <2>1, CopiesAssumption DEF IsTableRow
  <2>3. /\ r.val \in [Fields -> Int \cup {NULL}]
        /\ \A f \in Fields : r.val[f] \in Cells[r.key][f]
    BY <2>1, ContentsTyped DEF IsTableRow
  <2> QED BY <2>1, <2>2, <2>3 DEF IsTableRow, RowAt, Rows
<1>2. IsFiniteSet(Slots)
  <2> DEFINE Part(k) == {k} \X Copies[k]
  <2>1. ASSUME NEW k \in Keys PROVE IsFiniteSet(Part(k))
    <3>1. IsFiniteSet({k}) /\ IsFiniteSet(Copies[k])
      BY FS_Singleton, CopiesAssumption
    <3> QED BY <3>1, FS_Product
  <2> DEFINE parts == [k \in Keys |-> Part(k)]
  <2>2. IsFiniteSet({parts[k] : k \in Keys})
    <3>1. DOMAIN parts = Keys /\ parts = [k \in Keys |-> parts[k]]
      OBVIOUS
    <3> HIDE DEF parts
    <3> QED BY <3>1, KeysAssumption, FiniteImage
  <2>3. {parts[k] : k \in Keys} = {Part(k) : k \in Keys}
    OBVIOUS
  <2> QED BY <2>1, <2>2, <2>3, FS_UNION DEF Slots
<1>3. IsFiniteSet(t)
  <2> DEFINE used == {<<r.key, r.copy>> : r \in t}
             The(slot) == CHOOSE r \in t : r.key = slot[1] /\ r.copy = slot[2]
             rows == [slot \in used |-> The(slot)]
  <2>1. used \in SUBSET Slots
    <3>1. ASSUME NEW r \in t PROVE <<r.key, r.copy>> \in Slots
      BY TableIsRows, SlotPairs DEF IsTableRow
    <3> QED BY <3>1
  <2>2. ASSUME NEW r \in t PROVE The(<<r.key, r.copy>>) = r
    <3>1. \A q \in t : q.key = r.key /\ q.copy = r.copy => q = r
      BY TableIsRows DEF OnePerSlot
    <3> QED BY <3>1
  <2>3. \A r \in t : <<r.key, r.copy>> \in used /\ rows[<<r.key, r.copy>>] = r
    BY <2>2
  <2>4. DOMAIN rows = used /\ rows = [slot \in used |-> rows[slot]]
    OBVIOUS
  <2> HIDE DEF used, The, rows
  <2>5. IsFiniteSet({rows[slot] : slot \in used})
    BY <1>2, <2>1, <2>4, FS_Subset, FiniteImage
  <2>6. t \in SUBSET {rows[slot] : slot \in used}
    BY <2>3
  <2> QED BY <2>5, <2>6, FS_Subset
<1> QED BY <1>1, <1>3

\* A row more, less or changed leaves a table a table (Overwritten).
LEMMA OverwrittenTable ==
  ASSUME NEW t \in Tables, NEW k \in Keys, NEW c \in Copies[k], NEW u \in Overwritten(t, k, c)
  PROVE  u \in Tables /\ \A r : r.key # k => (r \in u <=> r \in t)
<1> DEFINE others == {r \in t : ~(r.key = k /\ r.copy = c)}
<1>1. u = others \/ \E v \in Contents(k) : u = others \cup {RowAt(<<k, c>>, v)}
  BY DEF Overwritten
<1>2. (\A r \in t : IsTableRow(r)) /\ OnePerSlot(t)
  BY TableIsRows
<1>3. CASE u = others
  <2>1. (\A r \in u : IsTableRow(r)) /\ OnePerSlot(u)
    BY <1>2, <1>3 DEF OnePerSlot
  <2> QED BY <1>3, <2>1, TableIsRows
<1>4. CASE \E v \in Contents(k) : u = others \cup {RowAt(<<k, c>>, v)}
  <2>1. PICK v \in Contents(k) : u = others \cup {RowAt(<<k, c>>, v)}
    BY <1>4
  <2> DEFINE new == RowAt(<<k, c>>, v)
  <2>2. IsTableRow(new) /\ new.key = k /\ new.copy = c
    BY DEF IsTableRow, RowAt
  <2> HIDE DEF new
  <2>3. (\A r \in u : IsTableRow(r)) /\ OnePerSlot(u)
    BY <1>2, <2>1, <2>2 DEF OnePerSlot, new
  <2>4. \A r : r.key # k => (r \in u <=> r \in t)
    BY <2>1, <2>2 DEF new
  <2> QED BY <2>3, <2>4, TableIsRows
<1> QED BY <1>1, <1>3, <1>4

\* A sum of cells is an integer or NULL (SumOf).
LEMMA SumTyped ==
  ASSUME NEW rows \in SUBSET Rows, IsFiniteSet(rows), NEW f \in Fields
  PROVE  SumOf(rows, f) \in Int \cup {NULL}
<1> DEFINE present == {r \in rows : r.val[f] # NULL}
<1>1. IsFiniteSet(present)
  BY FS_Subset
<1>2. \A r \in present : r.val[f] \in Int
  BY DEF Rows
<1>3. Total(present, f) \in Int
  <2> HIDE DEF present
  <2> QED BY <1>1, <1>2, SumIsInt
<1> QED BY <1>3 DEF SumOf, Total

\* A query returns rows whose keys are in the table and in the sample (Query).
LEMMA QueryTyped ==
  ASSUME NEW table \in Tables
  PROVE  Query(table) \subseteq Rows /\ IsFiniteSet(Query(table))
<1> DEFINE seen == FilterRows(table)
           row == [k \in KeysOf(seen) |->
                     [key |-> k, copy |-> 1,
                      val |-> [f \in Fields |-> SumOf({r \in seen : r.key = k}, f)]]]
<1>1. seen \subseteq Rows /\ IsFiniteSet(seen)
  <2>1. seen \in SUBSET table
    BY DEF FilterRows
  <2> QED BY <2>1, TableTyped, FS_Subset
<1> HIDE DEF seen
<1>2. IsFiniteSet(KeysOf(seen))
  <2>1. KeysOf(seen) \in SUBSET Keys
    BY <1>1 DEF KeysOf, Rows
  <2> QED BY <2>1, KeysAssumption, FS_Subset
<1>3. ASSUME ~ValueComparison, NEW k \in KeysOf(seen) PROVE row[k] \in Rows
  <2> DEFINE group == {r \in seen : r.key = k}
  <2>1. k \in Keys
    BY <1>1 DEF KeysOf, Rows
  <2>2. group \in SUBSET Rows /\ IsFiniteSet(group)
    BY <1>1, FS_Subset
  <2>3. \A f \in Fields : SumOf(group, f) \in Int \cup {NULL}
    <3> HIDE DEF group
    <3> QED BY <2>2, SumTyped
  <2>4. Fields \cap JoinFields = {}
    BY <1>3, JoinFieldsAssumption
  <2> QED BY <2>1, <2>3, <2>4 DEF Rows
<1>4. IsFiniteSet({row[k] : k \in KeysOf(seen)})
  <2>1. DOMAIN row = KeysOf(seen) /\ row = [k \in KeysOf(seen) |-> row[k]]
    OBVIOUS
  <2> HIDE DEF row
  <2> QED BY <1>2, <2>1, FiniteImage
<1>5. Query(table) = IF ValueComparison THEN seen ELSE {row[k] : k \in KeysOf(seen)}
  BY DEF Query, seen
<1> HIDE DEF row
<1> QED BY <1>1, <1>3, <1>4, <1>5

At(df, k) == {r \in df : r.key = k}

\* The row of a group in a column validation.
Group(k, rows) ==
  [key |-> k, copy |-> 1, val |-> [f \in Fields |-> SumOf(rows, f)]]

Scope == IF sample = NULL THEN Keys ELSE sample

\* Frames are the same if they are for each key.
LEMMA SameAtEachKey ==
  ASSUME NEW S, NEW T, \A k : At(S, k) = At(T, k)
  PROVE  S = T
<1>1. \A r \in S : r \in T
  BY DEF At
<1>2. \A r \in T : r \in S
  BY DEF At
<1> QED BY <1>1, <1>2

\* The rows of a view of one key depend on the rows of the table of that key only.
LEMMA ViewAt ==
  ASSUME NEW t, NEW k
  PROVE  At(View(t), k) = IF ValueComparison THEN At(t, k)
                          ELSE IF At(t, k) = {} THEN {} ELSE {Group(k, At(t, k))}
<1>1. ASSUME ~ValueComparison
      PROVE  At(View(t), k) = IF At(t, k) = {} THEN {} ELSE {Group(k, At(t, k))}
  <2>1. View(t) = {Group(j, At(t, j)) : j \in KeysOf(t)}
    BY <1>1 DEF View, Group, At
  <2>2. \A j, rows : Group(j, rows).key = j
    BY DEF Group
  <2>3. k \in KeysOf(t) <=> At(t, k) # {}
    BY DEF KeysOf, At
  <2>4. \A r : r \in At(View(t), k) <=> \E j \in KeysOf(t) : r = Group(j, At(t, j)) /\ j = k
    <3>1. \A r : r \in View(t) <=> \E j \in KeysOf(t) : r = Group(j, At(t, j))
      BY <2>1
    <3>2. \A r : r \in At(View(t), k) <=> r \in View(t) /\ r.key = k
      BY DEF At
    <3>3. \A r, j : r = Group(j, At(t, j)) => (r.key = k <=> j = k)
      BY <2>2
    <3> QED BY <3>1, <3>2, <3>3, Zenon
  <2>5. \A r : r \in At(View(t), k) <=> At(t, k) # {} /\ r = Group(k, At(t, k))
    BY <2>3, <2>4
  <2> QED BY <2>5
<1> QED BY <1>1 DEF View

\* A query returns the view of the table, restricted to the keys of the run.
LEMMA QueryAt ==
  ASSUME NEW t \in Tables, NEW k
  PROVE  At(Query(t), k) = IF k \in Scope THEN At(View(t), k) ELSE {}
<1>1. Query(t) = View(FilterRows(t))
  BY DEF Query, View
<1>2. At(FilterRows(t), k) = IF k \in Scope THEN At(t, k) ELSE {}
  <2>1. t \subseteq Rows
    BY TableTyped
  <2> QED BY <2>1 DEF At, FilterRows, Scope, Rows
<1>3. CASE k \in Scope
  BY <1>1, <1>2, <1>3, ViewAt
<1>4. CASE k \notin Scope
  BY <1>1, <1>2, <1>4, ViewAt
<1> QED BY <1>3, <1>4

-----------------------------------------------------------------------------
(* One slice of the report (GenerateReportSlice).                          *)

\* A row of the report on a key that both frames have.  When the frame holds several
\* rows of the key, the values and the status may come from different ones.
PairRow(row, S, T) ==
  \E a, c \in At(S, row.key) : \E b, d \in At(T, row.key) :
    /\ row.source_agg_value = a.val[row.field]
    /\ row.target_agg_value = b.val[row.field]
    /\ row.validation_status = CalculateDifference(c.val[row.field], d.val[row.field])

\* A row of the report on a key that one frame has.
LoneRow(row, S, T) ==
  /\ (At(S, row.key) = {}) # (At(T, row.key) = {})
  /\ row.validation_status = Fail

\* A row of the report on a column of the key, for a key that both frames have.
KeyRow(row, S, T) ==
  /\ row.field \notin Compared
  /\ At(S, row.key) # {} /\ At(T, row.key) # {}
  /\ row.source_agg_value = NULL /\ row.target_agg_value = NULL
  /\ row.validation_status = Success

\* Where the values a row of the report was made from stood.
Pairs == Nat \X Nat
JoinOrigins == (Nat \cup {NULL}) \X (Pairs \cup {NULL})

\* Which columns of a slice are compared by their values (PivotedFields).
LEMMA ComparedIn ==
  ASSUME NEW F \in SUBSET Fields
  PROVE  PivotedFields(F) = F \cap Compared
BY DEF PivotedFields, Compared

\* A status is none of the values that stand for a missing one.
LEMMA StatusTyped ==
  \A s, t : CalculateDifference(s, t) \in {Success, Fail} /\ CalculateDifference(s, t) # NULL
BY NullAssumption DEF CalculateDifference

\* Rows with one key are compared (CalculateDifferences).
LEMMA DifferenceFor ==
  ASSUME NEW S, NEW T, NEW F, NEW f \in F, NEW c \in S, NEW d \in T, c.key = d.key
  PROVE  [field |-> f, key |-> c.key, pair |-> <<c.copy, d.copy>>,
          status |-> CalculateDifference(c.val[f], d.val[f])] \in CalculateDifferences(S, T, F)
<1> DEFINE p == <<c, d>>
           Row(g, q) == [field |-> g, key |-> q[1].key, pair |-> <<q[1].copy, q[2].copy>>,
                         status |-> CalculateDifference(q[1].val[g], q[2].val[g])]
<1>1. p \in {q \in S \X T : q[1].key = q[2].key} /\ p[1] = c /\ p[2] = d
  OBVIOUS
<1> HIDE DEF p
<1>2. CalculateDifferences(S, T, F) =
        {Row(g, q) : g \in F, q \in {o \in S \X T : o[1].key = o[2].key}}
  BY DEF CalculateDifferences
<1>3. Row(f, p) \in CalculateDifferences(S, T, F)
  <2> HIDE DEF Row
  <2> QED BY <1>1, <1>2
<1> QED BY <1>1, <1>3

\* What the first join makes of a slice (SourceDifference).
Joined(S, T, F) == SourceDifference(PivotResult(S, F), CalculateDifferences(S, T, F))

\* A difference comes from a pair of rows with one key (CalculateDifferences).
LEMMA DifferenceRow ==
  ASSUME NEW S \in SUBSET Rows, NEW T \in SUBSET Rows, NEW F,
         NEW e \in CalculateDifferences(S, T, F)
  PROVE  /\ e.field \in F /\ e.pair \in Pairs
         /\ \E c \in At(S, e.key) : \E d \in At(T, e.key) :
              e.status = CalculateDifference(c.val[e.field], d.val[e.field])
<1>1. PICK f \in F, p \in {q \in S \X T : q[1].key = q[2].key} :
        e = [field |-> f, key |-> p[1].key, pair |-> <<p[1].copy, p[2].copy>>,
             status |-> CalculateDifference(p[1].val[f], p[2].val[f])]
  BY DEF CalculateDifferences
<1>2. p[1] \in At(S, e.key) /\ p[2] \in At(T, e.key)
  BY <1>1 DEF At
<1>3. p[1].copy \in Nat /\ p[2].copy \in Nat
  BY DEF Rows
<1> QED BY <1>1, <1>2, <1>3 DEF Pairs

\* A row of the first join of a column whose values are compared.
ValueOfSource(sd, S, T) ==
  /\ \E a \in At(S, sd.key) : sd.value = a.val[sd.field]
  /\ \/ \E c \in At(S, sd.key) : \E d \in At(T, sd.key) :
          sd.status = CalculateDifference(c.val[sd.field], d.val[sd.field])
     \/ sd.status = NULL /\ At(T, sd.key) = {}

\* And one of a column of the key.
DifferenceOnly(sd, S, T) ==
  /\ sd.value = NULL
  /\ \E c \in At(S, sd.key) : \E d \in At(T, sd.key) :
       sd.status = CalculateDifference(c.val[sd.field], d.val[sd.field])

\* A row of the first join has a value of a source row, and the status of a pair of rows
\* with its key or none where the target has no such row; but the rows of a column of the
\* key have a status only.
LEMMA JoinedRow ==
  ASSUME NEW S \in SUBSET Rows, NEW T \in SUBSET Rows, NEW F \in SUBSET Fields,
         NEW sd \in Joined(S, T, F)
  PROVE  /\ sd.field \in F /\ sd.from \in JoinOrigins
         /\ sd.field \in PivotedFields(F) => ValueOfSource(sd, S, T)
         /\ sd.field \notin PivotedFields(F) => DifferenceOnly(sd, S, T)
<1> DEFINE source == PivotResult(S, F)
           differences == CalculateDifferences(S, T, F)
<1>1. ASSUME NEW p \in source
      PROVE  /\ p.field \in PivotedFields(F) /\ p.field \in F /\ p.copy \in Nat
             /\ \E a \in At(S, p.key) : p.value = a.val[p.field]
  <2>1. p.field \in PivotedFields(F) /\ p.copy \in Nat
        /\ \E a \in At(S, p.key) : p.value = a.val[p.field]
    BY <1>1 DEF PivotResult, At, Rows
  <2> QED BY <2>1 DEF PivotedFields
<1>2. ASSUME NEW e \in differences
      PROVE  /\ e.field \in F /\ e.pair \in Pairs
             /\ \E c \in At(S, e.key) : \E d \in At(T, e.key) :
                  e.status = CalculateDifference(c.val[e.field], d.val[e.field])
  BY DifferenceRow
<1>3. ASSUME NEW a \in S, NEW b \in T, a.key = b.key, NEW f \in F
      PROVE  \E e \in differences : e.field = f /\ e.key = a.key
  <2> DEFINE e == [field |-> f, key |-> a.key, pair |-> <<a.copy, b.copy>>,
                   status |-> CalculateDifference(a.val[f], b.val[f])]
  <2>1. e \in differences
    BY <1>3, DifferenceFor
  <2> QED BY <2>1
<1>4. ASSUME NEW e \in differences, \A p \in source : ~SameJoinKeys(p, e)
      PROVE  e.field \notin PivotedFields(F)
  <2>1. PICK c \in At(S, e.key) : TRUE
    BY <1>2
  <2> DEFINE p == [field |-> e.field, key |-> c.key, copy |-> c.copy, value |-> c.val[e.field]]
  <2>2. SameJoinKeys(p, e) /\ c \in S
    BY DEF SameJoinKeys, At
  <2>3. e.field \in PivotedFields(F) => p \in source
    BY <2>2 DEF PivotResult
  <2> QED BY <1>4, <2>2, <2>3
<1> HIDE DEF source, differences
<1>5. \/ \E p \in source : \E e \in differences :
           /\ SameJoinKeys(p, e)
           /\ sd = [field |-> p.field, key |-> p.key, value |-> p.value,
                    status |-> e.status, from |-> <<p.copy, e.pair>>]
      \/ \E p \in source :
           /\ \A e \in differences : ~SameJoinKeys(p, e)
           /\ sd = [field |-> p.field, key |-> p.key, value |-> p.value,
                    status |-> NULL, from |-> <<p.copy, NULL>>]
      \/ \E e \in differences :
           /\ \A p \in source : ~SameJoinKeys(p, e)
           /\ sd = [field |-> e.field, key |-> e.key, value |-> NULL,
                    status |-> e.status, from |-> <<NULL, e.pair>>]
  BY DEF Joined, SourceDifference, source, differences
<1>6. ASSUME NEW p \in source, NEW e \in differences, SameJoinKeys(p, e),
             sd = [field |-> p.field, key |-> p.key, value |-> p.value,
                   status |-> e.status, from |-> <<p.copy, e.pair>>]
      PROVE  /\ sd.field = p.field /\ sd.key = p.key /\ sd.value = p.value
             /\ sd.field = e.field /\ sd.key = e.key /\ sd.status = e.status
             /\ sd.from \in JoinOrigins
  BY <1>1, <1>2, <1>6 DEF SameJoinKeys, JoinOrigins
<1>7. ASSUME NEW p \in source, \A e \in differences : ~SameJoinKeys(p, e),
             sd = [field |-> p.field, key |-> p.key, value |-> p.value,
                   status |-> NULL, from |-> <<p.copy, NULL>>]
      PROVE  /\ sd.field = p.field /\ sd.key = p.key /\ sd.value = p.value
             /\ sd.status = NULL /\ At(T, sd.key) = {} /\ sd.from \in JoinOrigins
  <2>1. sd.field = p.field /\ sd.key = p.key /\ sd.value = p.value
        /\ sd.status = NULL /\ sd.from \in JoinOrigins
    BY <1>1, <1>7 DEF JoinOrigins
  <2>2. ASSUME NEW b \in At(T, p.key) PROVE FALSE
    <3>1. b \in T /\ b.key = p.key
      BY DEF At
    <3>2. PICK a \in S : a.key = p.key
      BY <1>1 DEF At
    <3> QED BY <1>1, <1>3, <1>7, <3>1, <3>2 DEF SameJoinKeys
  <2> QED BY <2>1, <2>2
<1>8. ASSUME NEW e \in differences, \A p \in source : ~SameJoinKeys(p, e),
             sd = [field |-> e.field, key |-> e.key, value |-> NULL,
                   status |-> e.status, from |-> <<NULL, e.pair>>]
      PROVE  /\ sd.field = e.field /\ sd.key = e.key /\ sd.value = NULL
             /\ sd.status = e.status /\ sd.field \notin PivotedFields(F)
             /\ sd.from \in JoinOrigins
  BY <1>2, <1>4, <1>8 DEF JoinOrigins
<1>9. CASE \E p \in source : \E e \in differences :
             /\ SameJoinKeys(p, e)
             /\ sd = [field |-> p.field, key |-> p.key, value |-> p.value,
                      status |-> e.status, from |-> <<p.copy, e.pair>>]
  BY <1>1, <1>2, <1>6, <1>9 DEF ValueOfSource
<1>10. CASE \E p \in source :
              /\ \A e \in differences : ~SameJoinKeys(p, e)
              /\ sd = [field |-> p.field, key |-> p.key, value |-> p.value,
                       status |-> NULL, from |-> <<p.copy, NULL>>]
  BY <1>1, <1>7, <1>10 DEF ValueOfSource
<1>11. CASE \E e \in differences :
              /\ \A p \in source : ~SameJoinKeys(p, e)
              /\ sd = [field |-> e.field, key |-> e.key, value |-> NULL,
                       status |-> e.status, from |-> <<NULL, e.pair>>]
  BY <1>2, <1>8, <1>11 DEF DifferenceOnly
<1> QED BY <1>5, <1>9, <1>10, <1>11

\* Nothing that the first join should have is lost: each pair of rows with one key is
\* there.
LEMMA JoinedPair ==
  ASSUME NEW S, NEW T, NEW F, NEW f \in PivotedFields(F), NEW c \in S, NEW d \in At(T, c.key)
  PROVE  \E sd \in Joined(S, T, F) :
           /\ sd.field = f /\ sd.key = c.key
           /\ sd.status = CalculateDifference(c.val[f], d.val[f])
<1> DEFINE p == [field |-> f, key |-> c.key, copy |-> c.copy, value |-> c.val[f]]
           e == [field |-> f, key |-> c.key, pair |-> <<c.copy, d.copy>>,
                 status |-> CalculateDifference(c.val[f], d.val[f])]
           sd == [field |-> f, key |-> c.key, value |-> c.val[f],
                  status |-> CalculateDifference(c.val[f], d.val[f]),
                  from |-> <<c.copy, <<c.copy, d.copy>>>>]
           q == <<p, e>>
<1>1. p \in PivotResult(S, F) /\ f \in F
  BY DEF PivotResult, PivotedFields
<1>2. e \in CalculateDifferences(S, T, F)
  <2>1. d \in T /\ d.key = c.key
    BY DEF At
  <2> QED BY <1>1, <2>1, DifferenceFor
<1>3. /\ q \in {o \in PivotResult(S, F) \X CalculateDifferences(S, T, F) :
                  SameJoinKeys(o[1], o[2])}
      /\ q[1] = p /\ q[2] = e
  BY <1>1, <1>2 DEF SameJoinKeys
<1>4. sd = [field |-> q[1].field, key |-> q[1].key, value |-> q[1].value,
            status |-> q[2].status, from |-> <<q[1].copy, q[2].pair>>]
  OBVIOUS
<1>5. /\ sd.field = f /\ sd.key = c.key
      /\ sd.status = CalculateDifference(c.val[f], d.val[f])
  OBVIOUS
<1> HIDE DEF q, sd
<1>6. sd \in Joined(S, T, F)
  BY <1>3, <1>4 DEF Joined, SourceDifference
<1> QED BY <1>5, <1>6

\* And so is each row of the source without one in the target.
LEMMA JoinedAlone ==
  ASSUME NEW S, NEW T, NEW F, NEW f \in PivotedFields(F), NEW a \in S, At(T, a.key) = {}
  PROVE  \E sd \in Joined(S, T, F) : sd.field = f /\ sd.key = a.key /\ sd.status = NULL
<1> DEFINE p == [field |-> f, key |-> a.key, copy |-> a.copy, value |-> a.val[f]]
           sd == [field |-> p.field, key |-> p.key, value |-> p.value, status |-> NULL,
                  from |-> <<p.copy, NULL>>]
<1>1. p \in PivotResult(S, F)
  BY DEF PivotResult
<1>2. \A d \in CalculateDifferences(S, T, F) : ~SameJoinKeys(p, d)
  BY DEF CalculateDifferences, SameJoinKeys, At
<1>3. sd.field = f /\ sd.key = a.key /\ sd.status = NULL
  OBVIOUS
<1> HIDE DEF p
<1>4. sd \in Joined(S, T, F)
  BY <1>1, <1>2 DEF Joined, SourceDifference
<1> QED BY <1>3, <1>4

\* And so are the differences of the columns of the key.
LEMMA JoinedDifference ==
  ASSUME NEW S, NEW T, NEW F, NEW f \in F \ PivotedFields(F), NEW c \in S,
         NEW d \in At(T, c.key)
  PROVE  \E sd \in Joined(S, T, F) :
           /\ sd.field = f /\ sd.key = c.key
           /\ sd.status = CalculateDifference(c.val[f], d.val[f])
<1> DEFINE e == [field |-> f, key |-> c.key, pair |-> <<c.copy, d.copy>>,
                 status |-> CalculateDifference(c.val[f], d.val[f])]
           sd == [field |-> e.field, key |-> e.key, value |-> NULL, status |-> e.status,
                  from |-> <<NULL, e.pair>>]
<1>1. e \in CalculateDifferences(S, T, F)
  <2>1. d \in T /\ d.key = c.key
    BY DEF At
  <2> QED BY <2>1, DifferenceFor
<1>2. \A p \in PivotResult(S, F) : ~SameJoinKeys(p, e)
  BY DEF PivotResult, SameJoinKeys
<1>3. /\ sd.field = f /\ sd.key = c.key
      /\ sd.status = CalculateDifference(c.val[f], d.val[f])
  OBVIOUS
<1> HIDE DEF e
<1>4. sd \in Joined(S, T, F)
  BY <1>1, <1>2 DEF Joined, SourceDifference
<1> QED BY <1>3, <1>4

\* The three parts of the second join (JoinPivots).
Matched(p) ==
  ReportRow(p[1].field, p[1].key, p[1].value, p[2].value, p[1].status, <<p[1].from, p[2].copy>>)
SourceOnly(s) == ReportRow(s.field, s.key, s.value, NULL, s.status, <<s.from, NULL>>)
TargetOnly(t) == ReportRow(t.field, t.key, NULL, t.value, NULL, <<NULL, t.copy>>)

\* They are all of a slice (GenerateReportSlice).
LEMMA SliceParts ==
  ASSUME NEW S, NEW T, NEW F
  PROVE  GenerateReportSlice(S, T, F) =
           ({Matched(p) : p \in {q \in Joined(S, T, F) \X PivotResult(T, F) :
                                   SameJoinKeys(q[1], q[2])}}
            \cup {SourceOnly(s) : s \in {q \in Joined(S, T, F) :
                                   \A t \in PivotResult(T, F) : ~SameJoinKeys(q, t)}})
           \cup {TargetOnly(t) : t \in {q \in PivotResult(T, F) :
                                   \A s \in Joined(S, T, F) : ~SameJoinKeys(s, q)}}
BY DEF GenerateReportSlice, JoinPivots, Joined, Matched, SourceOnly, TargetOnly

\* Cells of a column of the key agree where the keys do.
LEMMA KeyCellsAgree ==
  ASSUME NEW S \in SUBSET Rows, NEW T \in SUBSET Rows, NEW F \in SUBSET Fields,
         NEW f \in F \ PivotedFields(F), NEW k, NEW c \in At(S, k), NEW d \in At(T, k)
  PROVE  CalculateDifference(c.val[f], d.val[f]) = Success
<1>1. f \in Fields \cap JoinFields
  BY DEF PivotedFields
<1>2. k \in Keys /\ c.val[f] \in Cells[k][f] /\ d.val[f] \in Cells[k][f]
  BY <1>1 DEF At, Rows
<1>3. c.val[f] = d.val[f]
  BY <1>1, <1>2, CellsAssumption
<1>4. ValueComparison
  BY <1>1, JoinFieldsAssumption
<1> QED BY <1>3, <1>4 DEF CalculateDifference

\* A row of the report has the fields of a row.
LEMMA RowIsRecord ==
  ASSUME NEW field, NEW key, NEW s, NEW t, NEW status, NEW from
  PROVE  LET row == ReportRow(field, key, s, t, status, from) IN
           /\ row.field = field /\ row.key = key
           /\ row.source_agg_value = s /\ row.target_agg_value = t
           /\ row.validation_status = IF status = NULL THEN Fail ELSE status
           /\ row.from = from
           /\ row = [field |-> row.field, key |-> row.key,
                     source_agg_value |-> row.source_agg_value,
                     target_agg_value |-> row.target_agg_value,
                     validation_status |-> row.validation_status, from |-> row.from]
BY DEF ReportRow

RowSays(row, S, T) ==
  \/ row.field \in Compared /\ (PairRow(row, S, T) \/ LoneRow(row, S, T))
  \/ KeyRow(row, S, T)

\* A row of the report where the second join found a partner.
LEMMA MatchedSound ==
  ASSUME NEW S \in SUBSET Rows, NEW T \in SUBSET Rows, NEW F \in SUBSET Fields,
         NEW sd \in Joined(S, T, F), NEW t \in PivotResult(T, F), SameJoinKeys(sd, t)
  PROVE  LET row == Matched(<<sd, t>>) IN
           row \in SliceRows /\ row.field \in F /\ RowSays(row, S, T)
<1> DEFINE row == Matched(<<sd, t>>)
<1>1. /\ t.field \in PivotedFields(F) /\ t.copy \in Nat
      /\ \E b \in At(T, t.key) : t.value = b.val[t.field]
  BY DEF PivotResult, At, Rows
<1>2. sd.key = t.key /\ sd.field = t.field
  BY DEF SameJoinKeys
<1>3. sd.field \in F /\ sd.from \in JoinOrigins /\ ValueOfSource(sd, S, T)
  BY <1>1, <1>2, JoinedRow
<1>4. PICK a \in At(S, sd.key) : sd.value = a.val[sd.field]
  BY <1>3 DEF ValueOfSource
<1>5. PICK b \in At(T, sd.key) : t.value = b.val[sd.field]
  BY <1>1, <1>2
<1>6. \E c \in At(S, sd.key) : \E d \in At(T, sd.key) :
        sd.status = CalculateDifference(c.val[sd.field], d.val[sd.field])
  BY <1>3, <1>5 DEF ValueOfSource
<1>7. PICK c \in At(S, sd.key), d \in At(T, sd.key) :
        sd.status = CalculateDifference(c.val[sd.field], d.val[sd.field])
  BY <1>6
<1>8. /\ row.field = sd.field /\ row.key = sd.key
      /\ row.source_agg_value = a.val[sd.field] /\ row.target_agg_value = b.val[sd.field]
      /\ row.validation_status = CalculateDifference(c.val[sd.field], d.val[sd.field])
      /\ row.from = <<sd.from, t.copy>>
      /\ row = [field |-> row.field, key |-> row.key,
                source_agg_value |-> row.source_agg_value,
                target_agg_value |-> row.target_agg_value,
                validation_status |-> row.validation_status, from |-> row.from]
  BY <1>4, <1>5, <1>7, StatusTyped DEF Matched, ReportRow
<1> HIDE DEF row
<1>9. PairRow(row, S, T)
  BY <1>4, <1>5, <1>7, <1>8 DEF PairRow
<1>10. row.field \in Compared
  BY <1>1, <1>2, <1>8, ComparedIn
<1>11. row.from \in Origins
  BY <1>1, <1>3, <1>8 DEF Origins, JoinOrigins, Pairs
<1>12. /\ row.source_agg_value \in Int \cup {NULL} /\ row.target_agg_value \in Int \cup {NULL}
       /\ row.key \in Keys
  <2>1. sd.field \in Fields
    BY <1>3
  <2>2. a \in Rows /\ b \in Rows /\ a.key = sd.key
    BY DEF At
  <2> QED BY <1>8, <2>1, <2>2 DEF Rows
<1>13. row \in SliceRows
  BY <1>3, <1>8, <1>11, <1>12, StatusTyped DEF SliceRows, RowsFrom
<1> QED BY <1>3, <1>8, <1>9, <1>10, <1>13 DEF RowSays, row

\* One where it found none in the target.
LEMMA SourceOnlySound ==
  ASSUME NEW S \in SUBSET Rows, NEW T \in SUBSET Rows, NEW F \in SUBSET Fields,
         NEW sd \in Joined(S, T, F), \A t \in PivotResult(T, F) : ~SameJoinKeys(sd, t)
  PROVE  SourceOnly(sd) \in SliceRows /\ SourceOnly(sd).field \in F
         /\ RowSays(SourceOnly(sd), S, T)
<1> DEFINE row == SourceOnly(sd)
<1>1. sd.field \in F /\ sd.from \in JoinOrigins
  BY JoinedRow
<1>2. /\ row.field = sd.field /\ row.key = sd.key
      /\ row.source_agg_value = sd.value /\ row.target_agg_value = NULL
      /\ row.validation_status = IF sd.status = NULL THEN Fail ELSE sd.status
      /\ row.from = <<sd.from, NULL>>
      /\ row = [field |-> row.field, key |-> row.key,
                source_agg_value |-> row.source_agg_value,
                target_agg_value |-> row.target_agg_value,
                validation_status |-> row.validation_status, from |-> row.from]
  BY RowIsRecord DEF SourceOnly
<1> HIDE DEF row
<1>3. row.from \in Origins
  BY <1>1, <1>2 DEF Origins, JoinOrigins, Pairs
<1>4. ASSUME NEW r \in At(S, sd.key)
      PROVE  row.key \in Keys /\ r.val[sd.field] \in Int \cup {NULL}
  <2>1. sd.field \in Fields
    BY <1>1
  <2>2. r \in Rows /\ r.key = sd.key
    BY DEF At
  <2> QED BY <1>2, <2>1, <2>2 DEF Rows
<1>5. CASE sd.field \in PivotedFields(F)
  <2>1. ValueOfSource(sd, S, T)
    BY <1>5, JoinedRow
  <2>2. PICK a \in At(S, sd.key) : sd.value = a.val[sd.field]
    BY <2>1 DEF ValueOfSource
  <2>3. At(T, sd.key) = {}
    <3>1. ASSUME NEW b \in At(T, sd.key) PROVE FALSE
      <4> DEFINE t == [field |-> sd.field, key |-> b.key, copy |-> b.copy,
                       value |-> b.val[sd.field]]
      <4>1. b \in T /\ b.key = sd.key
        BY DEF At
      <4>2. t \in PivotResult(T, F)
        BY <1>5, <4>1 DEF PivotResult
      <4>3. SameJoinKeys(sd, t)
        BY <4>1 DEF SameJoinKeys
      <4> QED BY <4>2, <4>3
    <3> QED BY <3>1
  <2>4. sd.status = NULL
    BY <2>1, <2>3 DEF ValueOfSource
  <2>5. LoneRow(row, S, T) /\ row.validation_status = Fail
    BY <1>2, <2>2, <2>3, <2>4 DEF LoneRow
  <2>6. row.field \in Compared
    BY <1>2, <1>5, ComparedIn
  <2>7. row \in SliceRows
    BY <1>1, <1>2, <1>3, <1>4, <2>2, <2>5 DEF SliceRows, RowsFrom
  <2> QED BY <1>1, <1>2, <2>5, <2>6, <2>7 DEF RowSays, row
<1>6. CASE sd.field \notin PivotedFields(F)
  <2>1. DifferenceOnly(sd, S, T)
    BY <1>6, JoinedRow
  <2>2. PICK c \in At(S, sd.key) : \E d \in At(T, sd.key) :
          sd.status = CalculateDifference(c.val[sd.field], d.val[sd.field])
    BY <2>1 DEF DifferenceOnly
  <2>3. PICK d \in At(T, sd.key) :
          sd.status = CalculateDifference(c.val[sd.field], d.val[sd.field])
    BY <2>2
  <2>4. sd.status = Success
    BY <1>1, <1>6, <2>3, KeyCellsAgree
  <2>5. row.validation_status = Success /\ row.source_agg_value = NULL
    BY <1>2, <2>1, <2>4, NullAssumption DEF DifferenceOnly
  <2>6. row.field \notin Compared
    BY <1>1, <1>2, <1>6, ComparedIn
  <2>7. KeyRow(row, S, T)
    BY <1>2, <2>2, <2>3, <2>5, <2>6 DEF KeyRow
  <2>8. row \in SliceRows
    BY <1>1, <1>2, <1>3, <1>4, <2>2, <2>5 DEF SliceRows, RowsFrom
  <2> QED BY <1>1, <1>2, <2>7, <2>8 DEF RowSays, row
<1> QED BY <1>5, <1>6

\* And one where it found none in the source.
LEMMA TargetOnlySound ==
  ASSUME NEW S \in SUBSET Rows, NEW T \in SUBSET Rows, NEW F \in SUBSET Fields,
         NEW t \in PivotResult(T, F), \A sd \in Joined(S, T, F) : ~SameJoinKeys(sd, t)
  PROVE  TargetOnly(t) \in SliceRows /\ TargetOnly(t).field \in F
         /\ RowSays(TargetOnly(t), S, T)
<1> DEFINE row == TargetOnly(t)
<1>1. /\ t.field \in PivotedFields(F) /\ t.copy \in Nat
      /\ \E b \in At(T, t.key) : t.value = b.val[t.field]
  BY DEF PivotResult, At, Rows
<1>2. PICK b \in At(T, t.key) : t.value = b.val[t.field]
  BY <1>1
<1>3. At(S, t.key) = {}
  <2>1. ASSUME NEW a \in At(S, t.key) PROVE FALSE
    <3>1. a \in S /\ a.key = t.key
      BY DEF At
    <3>2. PICK sd \in Joined(S, T, F) : sd.field = t.field /\ sd.key = a.key
      <4>1. CASE At(T, a.key) = {}
        BY <1>1, <3>1, <4>1, JoinedAlone
      <4>2. CASE At(T, a.key) # {}
        <5>1. PICK d \in At(T, a.key) : TRUE
          BY <4>2
        <5>2. \E sd \in Joined(S, T, F) :
                /\ sd.field = t.field /\ sd.key = a.key
                /\ sd.status = CalculateDifference(a.val[t.field], d.val[t.field])
          BY <1>1, <3>1, JoinedPair
        <5> QED BY <5>2
      <4> QED BY <4>1, <4>2
    <3> QED BY <3>1, <3>2 DEF SameJoinKeys
  <2> QED BY <2>1
<1>4. /\ row.field = t.field /\ row.key = t.key
      /\ row.source_agg_value = NULL /\ row.target_agg_value = b.val[t.field]
      /\ row.validation_status = Fail /\ row.from = <<NULL, t.copy>>
      /\ row = [field |-> row.field, key |-> row.key,
                source_agg_value |-> row.source_agg_value,
                target_agg_value |-> row.target_agg_value,
                validation_status |-> row.validation_status, from |-> row.from]
  BY <1>2 DEF TargetOnly, ReportRow
<1> HIDE DEF row
<1>5. LoneRow(row, S, T)
  BY <1>2, <1>3, <1>4 DEF LoneRow
<1>6. row.field \in F /\ row.field \in Compared
  BY <1>1, <1>4, ComparedIn
<1>7. row.from \in Origins
  BY <1>1, <1>4 DEF Origins
<1>8. row.target_agg_value \in Int \cup {NULL} /\ row.key \in Keys
  <2>1. t.field \in Fields
    BY <1>4, <1>6
  <2>2. b \in Rows /\ b.key = t.key
    BY DEF At
  <2> QED BY <1>4, <2>1, <2>2 DEF Rows
<1>9. row \in SliceRows
  BY <1>4, <1>6, <1>7, <1>8 DEF SliceRows, RowsFrom
<1> QED BY <1>5, <1>6, <1>9 DEF RowSays, row

\* What a row of a slice of the report says about the frames.
LEMMA ReportSound ==
  ASSUME NEW S \in SUBSET Rows, NEW T \in SUBSET Rows, NEW F \in SUBSET Fields,
         NEW row \in GenerateReportSlice(S, T, F)
  PROVE  row \in SliceRows /\ row.field \in F /\ RowSays(row, S, T)
<1>1. \/ \E sd \in Joined(S, T, F) : \E t \in PivotResult(T, F) :
           SameJoinKeys(sd, t) /\ row = Matched(<<sd, t>>)
      \/ \E sd \in Joined(S, T, F) :
           (\A t \in PivotResult(T, F) : ~SameJoinKeys(sd, t)) /\ row = SourceOnly(sd)
      \/ \E t \in PivotResult(T, F) :
           (\A sd \in Joined(S, T, F) : ~SameJoinKeys(sd, t)) /\ row = TargetOnly(t)
  BY SliceParts
<1> QED BY <1>1, MatchedSound, SourceOnlySound, TargetOnlySound

VerdictOf(r) == [field |-> r.field, key |-> r.key, status |-> r.validation_status]

\* The report has a row for each pair of rows that share a key.
LEMMA PairReported ==
  ASSUME NEW S \in SUBSET Rows, NEW T \in SUBSET Rows, NEW F \in SUBSET Fields,
         NEW f \in PivotedFields(F), NEW c \in S, NEW d \in At(T, c.key)
  PROVE  [field |-> f, key |-> c.key, status |-> CalculateDifference(c.val[f], d.val[f])]
           \in VerdictsIn(GenerateReportSlice(S, T, F))
<1> DEFINE t == [field |-> f, key |-> d.key, copy |-> d.copy, value |-> d.val[f]]
<1>1. t \in PivotResult(T, F) /\ t.field = f /\ t.key = c.key
  BY DEF PivotResult, At
<1> HIDE DEF t
<1>2. PICK sd \in Joined(S, T, F) :
        /\ sd.field = f /\ sd.key = c.key
        /\ sd.status = CalculateDifference(c.val[f], d.val[f])
  BY JoinedPair
<1> DEFINE p == <<sd, t>>
<1>3. /\ p \in {q \in Joined(S, T, F) \X PivotResult(T, F) : SameJoinKeys(q[1], q[2])}
      /\ p[1] = sd /\ p[2] = t
  BY <1>1, <1>2 DEF SameJoinKeys
<1> HIDE DEF p
<1>4. Matched(p) \in GenerateReportSlice(S, T, F)
  BY <1>3, SliceParts
<1>5. /\ Matched(p).field = f /\ Matched(p).key = c.key
      /\ Matched(p).validation_status = CalculateDifference(c.val[f], d.val[f])
  BY <1>2, <1>3, StatusTyped DEF Matched, ReportRow
<1> QED BY <1>4, <1>5 DEF VerdictsIn

\* It has a failed row for each row of the source without one in the target.
LEMMA SourceOnlyReported ==
  ASSUME NEW S \in SUBSET Rows, NEW T \in SUBSET Rows, NEW F \in SUBSET Fields,
         NEW f \in PivotedFields(F), NEW a \in S, At(T, a.key) = {}
  PROVE  [field |-> f, key |-> a.key, status |-> Fail]
           \in VerdictsIn(GenerateReportSlice(S, T, F))
<1>1. PICK sd \in Joined(S, T, F) : sd.field = f /\ sd.key = a.key /\ sd.status = NULL
  BY JoinedAlone
<1>2. \A t \in PivotResult(T, F) : At(T, t.key) # {}
  BY DEF PivotResult, At
<1>3. \A t \in PivotResult(T, F) : ~SameJoinKeys(sd, t)
  BY <1>1, <1>2 DEF SameJoinKeys
<1>4. SourceOnly(sd) \in GenerateReportSlice(S, T, F)
  BY <1>3, SliceParts
<1>5. /\ SourceOnly(sd).field = f /\ SourceOnly(sd).key = a.key
      /\ SourceOnly(sd).validation_status = Fail
  BY <1>1 DEF SourceOnly, ReportRow
<1> QED BY <1>4, <1>5 DEF VerdictsIn

\* And one for each row of the target without one in the source.
LEMMA TargetOnlyReported ==
  ASSUME NEW S \in SUBSET Rows, NEW T \in SUBSET Rows, NEW F \in SUBSET Fields,
         NEW f \in PivotedFields(F), NEW b \in T, At(S, b.key) = {}
  PROVE  [field |-> f, key |-> b.key, status |-> Fail]
           \in VerdictsIn(GenerateReportSlice(S, T, F))
<1> DEFINE t == [field |-> f, key |-> b.key, copy |-> b.copy, value |-> b.val[f]]
<1>1. t \in PivotResult(T, F) /\ t.field = f /\ t.key = b.key
  BY DEF PivotResult
<1> HIDE DEF t
<1>2. ASSUME NEW sd \in Joined(S, T, F), SameJoinKeys(sd, t) PROVE FALSE
  <2>1. ValueOfSource(sd, S, T) \/ DifferenceOnly(sd, S, T)
    BY JoinedRow
  <2>2. At(S, sd.key) # {}
    BY <2>1 DEF ValueOfSource, DifferenceOnly
  <2> QED BY <1>1, <1>2, <2>2 DEF SameJoinKeys
<1>3. TargetOnly(t) \in GenerateReportSlice(S, T, F)
  BY <1>1, <1>2, SliceParts
<1>4. /\ TargetOnly(t).field = f /\ TargetOnly(t).key = b.key
      /\ TargetOnly(t).validation_status = Fail
  BY <1>1 DEF TargetOnly, ReportRow
<1> QED BY <1>3, <1>4 DEF VerdictsIn

\* And one that succeeded for each column of the key, where both frames have the key.
LEMMA KeyReported ==
  ASSUME NEW S \in SUBSET Rows, NEW T \in SUBSET Rows, NEW F \in SUBSET Fields,
         NEW f \in F \ PivotedFields(F), NEW c \in S, At(T, c.key) # {}
  PROVE  [field |-> f, key |-> c.key, status |-> Success]
           \in VerdictsIn(GenerateReportSlice(S, T, F))
<1>1. PICK d \in At(T, c.key) : TRUE
  OBVIOUS
<1>2. CalculateDifference(c.val[f], d.val[f]) = Success
  <2>1. c \in At(S, c.key)
    BY DEF At
  <2> QED BY <2>1, KeyCellsAgree
<1>3. PICK sd \in Joined(S, T, F) : sd.field = f /\ sd.key = c.key /\ sd.status = Success
  BY <1>2, JoinedDifference
<1>4. \A t \in PivotResult(T, F) : t.field \in PivotedFields(F)
  BY DEF PivotResult
<1>5. \A t \in PivotResult(T, F) : ~SameJoinKeys(sd, t)
  BY <1>3, <1>4 DEF SameJoinKeys
<1>6. SourceOnly(sd) \in GenerateReportSlice(S, T, F)
  BY <1>5, SliceParts
<1>7. /\ SourceOnly(sd).field = f /\ SourceOnly(sd).key = c.key
      /\ SourceOnly(sd).validation_status = Success
  BY <1>3, NullAssumption DEF SourceOnly, ReportRow
<1> QED BY <1>6, <1>7 DEF VerdictsIn

-----------------------------------------------------------------------------
(* The verdicts of a report are those of ComparisonPromise.                *)

\* The code's nested case expression and the promise's bounds agree on two cells
\* (CalculateDifference).
LEMMA Agreement ==
  ASSUME NEW s \in Int \cup {NULL}, NEW t \in Int \cup {NULL}
  PROVE  CalculateDifference(s, t) = IF Promise!Agree(s, t) THEN Success ELSE Fail
<1>1. CASE s = NULL \/ t = NULL \/ ValueComparison \/ s = t
  <2>1. s = t => ~ExceedsThreshold(s, t)
    BY DEF ExceedsThreshold
  <2> QED BY <1>1, <2>1, ValueComparisonAssumption DEF CalculateDifference, Promise!Agree
<1>2. CASE s # NULL /\ t # NULL /\ ~ValueComparison /\ s # t
  <2> DEFINE base == IF s = 0 THEN t ELSE s
             x == Threshold * base
             d == 100 * (t - s)
  <2>1. s \in Int /\ t \in Int /\ base \in Int /\ Threshold \in Nat
    BY <1>2, ThresholdAssumption
  <2> HIDE DEF base
  <2>2. x \in Int /\ d \in Int /\ (base >= 0 => x >= 0) /\ (base < 0 => x <= 0)
    BY <2>1
  <2>3. 100 * Magnitude(t - s) = Magnitude(d)
    BY <2>1 DEF Magnitude
  <2>4. Threshold * Magnitude(base) = Magnitude(x)
    <3>1. Threshold * (-base) = -x
      BY <2>1
    <3>2. CASE base < 0
      <4>1. Threshold * Magnitude(base) = -x
        BY <3>1, <3>2 DEF Magnitude
      <4> QED BY <2>1, <2>2, <3>2, <4>1 DEF Magnitude
    <3>3. CASE ~(base < 0)
      <4>1. Threshold * Magnitude(base) = x /\ x >= 0
        BY <2>1, <2>2, <3>3 DEF Magnitude
      <4> QED BY <2>1, <2>2, <4>1 DEF Magnitude
    <3> QED BY <3>2, <3>3
  <2>5. /\ Promise!Within(Threshold, base, t - s) <=> -x <= d /\ d <= x
        /\ Promise!Within(Threshold, -base, t - s) <=> x <= d /\ d <= -x
    BY <2>1 DEF Promise!Within
  <2>6. ExceedsThreshold(s, t) <=> Magnitude(d) > Magnitude(x)
    BY <1>2, <2>3, <2>4 DEF ExceedsThreshold, base
  <2>7. Promise!Agree(s, t) <=>
          \/ Promise!Within(Threshold, base, t - s)
          \/ Promise!Within(Threshold, -base, t - s)
    BY <1>2 DEF Promise!Agree, base
  <2>8. CalculateDifference(s, t) = IF ExceedsThreshold(s, t) THEN Fail ELSE Success
    BY <1>2 DEF CalculateDifference
  <2> HIDE DEF x, d
  <2>9. Magnitude(d) > Magnitude(x) <=> ~((-x <= d /\ d <= x) \/ (x <= d /\ d <= -x))
    BY <2>2 DEF Magnitude
  <2> QED BY <2>5, <2>6, <2>7, <2>8, <2>9
<1> QED BY <1>1, <1>2

PairVerdict(f, c, d) == Promise!Verdict(f, c.key, Promise!Agree(c.val[f], d.val[f]))
LoneVerdict(f, r) == Promise!Verdict(f, r.key, FALSE)

KeyVerdict(f, r) == Promise!Verdict(f, r.key, TRUE)

\* The verdicts of ComparisonPromise on a column whose values are compared, and on one of
\* the key, in terms of the rows of a key.
Judged(v, f, S, T) ==
  \/ \E c \in S : \E d \in At(T, c.key) : v = PairVerdict(f, c, d)
  \/ \E r \in S : At(T, r.key) = {} /\ v = LoneVerdict(f, r)
  \/ \E r \in T : At(S, r.key) = {} /\ v = LoneVerdict(f, r)
InBoth(v, f, S, T) == \E r \in S : At(T, r.key) # {} /\ v = KeyVerdict(f, r)

\* They are all of them.
LEMMA VerdictCases ==
  ASSUME NEW S, NEW T
  PROVE  \A v : v \in Promise!Verdicts(S, T) <=>
           \/ \E f \in Compared : Judged(v, f, S, T)
           \/ \E f \in Fields \ Compared : InBoth(v, f, S, T)
<1> DEFINE pairs == {q \in S \X T : q[1].key = q[2].key}
           lone == {s \in S : \A t \in T : s.key # t.key} \cup
                   {t \in T : \A s \in S : s.key # t.key}
           both == {s \in S : \E t \in T : s.key = t.key}
<1>1. Promise!Verdicts(S, T) =
        {PairVerdict(f, p[1], p[2]) : f \in Compared, p \in pairs} \cup
        {LoneVerdict(f, r) : f \in Compared, r \in lone} \cup
        {KeyVerdict(f, r) : f \in Fields \ Compared, r \in both}
  BY DEF Promise!Verdicts, PairVerdict, LoneVerdict, KeyVerdict
<1>2. /\ \A r : r \in lone <=> (r \in S /\ At(T, r.key) = {}) \/ (r \in T /\ At(S, r.key) = {})
      /\ \A r : r \in both <=> r \in S /\ At(T, r.key) # {}
  BY DEF At
<1>3. ASSUME NEW v, NEW f
      PROVE  (\E p \in pairs : v = PairVerdict(f, p[1], p[2])) <=>
             (\E c \in S : \E d \in At(T, c.key) : v = PairVerdict(f, c, d))
  <2>1. ASSUME NEW p \in pairs, v = PairVerdict(f, p[1], p[2])
        PROVE  \E c \in S : \E d \in At(T, c.key) : v = PairVerdict(f, c, d)
    <3>1. p[1] \in S /\ p[2] \in At(T, p[1].key)
      BY DEF At
    <3> QED BY <2>1, <3>1
  <2>2. ASSUME NEW c \in S, NEW d \in At(T, c.key), v = PairVerdict(f, c, d)
        PROVE  \E p \in pairs : v = PairVerdict(f, p[1], p[2])
    <3> DEFINE p == <<c, d>>
    <3>1. p \in pairs /\ p[1] = c /\ p[2] = d
      BY DEF At
    <3> HIDE DEF p
    <3> QED BY <2>2, <3>1
  <2> QED BY <2>1, <2>2
<1> HIDE DEF pairs, lone, both
<1>4. ASSUME NEW v
      PROVE  v \in Promise!Verdicts(S, T) <=>
               \/ \E f \in Compared : (\E p \in pairs : v = PairVerdict(f, p[1], p[2]))
                                      \/ \E r \in lone : v = LoneVerdict(f, r)
               \/ \E f \in Fields \ Compared : \E r \in both : v = KeyVerdict(f, r)
  BY <1>1
<1>5. ASSUME NEW v, NEW f
      PROVE  (\E r \in lone : v = LoneVerdict(f, r)) <=>
             \/ \E r \in S : At(T, r.key) = {} /\ v = LoneVerdict(f, r)
             \/ \E r \in T : At(S, r.key) = {} /\ v = LoneVerdict(f, r)
  BY <1>2
<1>6. ASSUME NEW v, NEW f
      PROVE  ((\E p \in pairs : v = PairVerdict(f, p[1], p[2]))
              \/ \E r \in lone : v = LoneVerdict(f, r)) <=> Judged(v, f, S, T)
  <2>1. (\E p \in pairs : v = PairVerdict(f, p[1], p[2])) <=>
        (\E c \in S : \E d \in At(T, c.key) : v = PairVerdict(f, c, d))
    BY <1>3
  <2>2. (\E r \in lone : v = LoneVerdict(f, r)) <=>
        \/ \E r \in S : At(T, r.key) = {} /\ v = LoneVerdict(f, r)
        \/ \E r \in T : At(S, r.key) = {} /\ v = LoneVerdict(f, r)
    BY <1>5, ZenonT(30)
  <2> QED BY <2>1, <2>2 DEF Judged
<1>7. ASSUME NEW v, NEW f
      PROVE  (\E r \in both : v = KeyVerdict(f, r)) <=> InBoth(v, f, S, T)
  BY <1>2 DEF InBoth
<1>8. ASSUME NEW v
      PROVE  v \in Promise!Verdicts(S, T) <=>
               \/ \E f \in Compared : Judged(v, f, S, T)
               \/ \E f \in Fields \ Compared : InBoth(v, f, S, T)
  <2>1. (\E f \in Compared : (\E p \in pairs : v = PairVerdict(f, p[1], p[2]))
                             \/ \E r \in lone : v = LoneVerdict(f, r)) <=>
        \E f \in Compared : Judged(v, f, S, T)
    BY <1>6, Zenon
  <2>2. (\E f \in Fields \ Compared : \E r \in both : v = KeyVerdict(f, r)) <=>
        \E f \in Fields \ Compared : InBoth(v, f, S, T)
    BY <1>7, Zenon
  <2> QED BY <1>4, <2>1, <2>2, Zenon
<1> QED BY <1>8

\* The verdicts in terms of cells and statuses.
LEMMA VerdictRecords ==
  /\ \A c \in Rows, d \in Rows, f \in Fields :
       PairVerdict(f, c, d) = [field |-> f, key |-> c.key,
                               status |-> CalculateDifference(c.val[f], d.val[f])]
  /\ \A r, f : LoneVerdict(f, r) = [field |-> f, key |-> r.key, status |-> Fail]
  /\ \A r, f : KeyVerdict(f, r) = [field |-> f, key |-> r.key, status |-> Success]
<1>1. ASSUME NEW c \in Rows, NEW d \in Rows, NEW f \in Fields
      PROVE  PairVerdict(f, c, d) = [field |-> f, key |-> c.key,
                                     status |-> CalculateDifference(c.val[f], d.val[f])]
  <2>1. c.val[f] \in Int \cup {NULL} /\ d.val[f] \in Int \cup {NULL}
    BY DEF Rows
  <2> QED BY <2>1, Agreement DEF PairVerdict, Promise!Verdict, Success, Fail
<1> QED BY <1>1 DEF LoneVerdict, KeyVerdict, Promise!Verdict, Success, Fail

\* A row of the report gives a verdict of the promise.
LEMMA RowVerdict ==
  ASSUME NEW S \in SUBSET Rows, NEW T \in SUBSET Rows, NEW row, row.field \in Fields,
         RowSays(row, S, T)
  PROVE  VerdictOf(row) \in Promise!Verdicts(S, T)
<1>1. CASE row.field \in Compared /\ PairRow(row, S, T)
  <2>1. PICK c \in At(S, row.key), d \in At(T, row.key) :
          row.validation_status = CalculateDifference(c.val[row.field], d.val[row.field])
    BY <1>1 DEF PairRow
  <2>2. c \in S /\ c.key = row.key /\ d \in At(T, c.key) /\ d \in T
    BY DEF At
  <2>3. VerdictOf(row) = PairVerdict(row.field, c, d)
    BY <2>1, <2>2, VerdictRecords DEF VerdictOf
  <2>4. Judged(VerdictOf(row), row.field, S, T)
    BY <2>2, <2>3 DEF Judged
  <2> QED BY <1>1, <2>4, VerdictCases
<1>2. CASE row.field \in Compared /\ LoneRow(row, S, T)
  <2>1. row.validation_status = Fail
    BY <1>2 DEF LoneRow
  <2>2. CASE At(S, row.key) # {} /\ At(T, row.key) = {}
    <3>1. PICK r \in S : r.key = row.key
      BY <2>2 DEF At
    <3>2. VerdictOf(row) = LoneVerdict(row.field, r)
      BY <2>1, <3>1, VerdictRecords DEF VerdictOf
    <3>3. Judged(VerdictOf(row), row.field, S, T)
      BY <2>2, <3>1, <3>2 DEF Judged
    <3> QED BY <1>2, <3>3, VerdictCases
  <2>3. CASE At(S, row.key) = {} /\ At(T, row.key) # {}
    <3>1. PICK r \in T : r.key = row.key
      BY <2>3 DEF At
    <3>2. VerdictOf(row) = LoneVerdict(row.field, r)
      BY <2>1, <3>1, VerdictRecords DEF VerdictOf
    <3>3. Judged(VerdictOf(row), row.field, S, T)
      BY <2>3, <3>1, <3>2 DEF Judged
    <3> QED BY <1>2, <3>3, VerdictCases
  <2> QED BY <1>2, <2>2, <2>3 DEF LoneRow
<1>3. CASE KeyRow(row, S, T)
  <2>1. PICK r \in S : r.key = row.key
    BY <1>3 DEF KeyRow, At
  <2>2. VerdictOf(row) = KeyVerdict(row.field, r)
    BY <1>3, <2>1, VerdictRecords DEF KeyRow, VerdictOf
  <2>3. InBoth(VerdictOf(row), row.field, S, T)
    BY <1>3, <2>1, <2>2 DEF KeyRow, InBoth
  <2> QED BY <1>3, <2>3, VerdictCases DEF KeyRow
<1> QED BY <1>1, <1>2, <1>3 DEF RowSays

\* One slice of the report says what the promise wants of its columns.
LEMMA SliceVerdicts ==
  ASSUME NEW S \in SUBSET Rows, NEW T \in SUBSET Rows, NEW F \in SUBSET Fields
  PROVE  VerdictsIn(GenerateReportSlice(S, T, F)) =
           {v \in Promise!Verdicts(S, T) : v.field \in F}
<1> DEFINE report == GenerateReportSlice(S, T, F)
<1>1. PivotedFields(F) = F \cap Compared
  BY ComparedIn
<1>2. ASSUME NEW row \in report
      PROVE  VerdictOf(row) \in Promise!Verdicts(S, T) /\ VerdictOf(row).field \in F
  <2>1. row.field \in F /\ RowSays(row, S, T)
    BY ReportSound
  <2>2. VerdictOf(row).field \in F
    BY <2>1 DEF VerdictOf
  <2>3. row.field \in Fields
    BY <2>1
  <2>4. VerdictOf(row) \in Promise!Verdicts(S, T)
    <3> HIDE DEF report
    <3> QED BY <2>1, <2>3, RowVerdict
  <2> QED BY <2>2, <2>4
<1>3. ASSUME NEW v, NEW f \in Compared, v.field \in F, Judged(v, f, S, T)
      PROVE  v \in VerdictsIn(report)
  <2>1. v.field = f
    BY <1>3 DEF Judged, PairVerdict, LoneVerdict, Promise!Verdict
  <2>2. f \in PivotedFields(F) /\ f \in Fields
    BY <1>1, <1>3, <2>1
  <2>3. CASE \E c \in S : \E d \in At(T, c.key) : v = PairVerdict(f, c, d)
    <3>1. PICK c \in S : \E d \in At(T, c.key) : v = PairVerdict(f, c, d)
      BY <2>3
    <3>2. PICK d \in At(T, c.key) : v = PairVerdict(f, c, d)
      BY <3>1
    <3>3. d \in T
      BY DEF At
    <3>4. v = [field |-> f, key |-> c.key, status |-> CalculateDifference(c.val[f], d.val[f])]
      BY <2>2, <3>2, <3>3, VerdictRecords
    <3> QED BY <2>2, <3>1, <3>2, <3>4, PairReported
  <2>4. CASE \E r \in S : At(T, r.key) = {} /\ v = LoneVerdict(f, r)
    <3>1. PICK r \in S : At(T, r.key) = {} /\ v = LoneVerdict(f, r)
      BY <2>4
    <3>2. v = [field |-> f, key |-> r.key, status |-> Fail]
      BY <3>1, VerdictRecords
    <3> QED BY <2>2, <3>1, <3>2, SourceOnlyReported
  <2>5. CASE \E r \in T : At(S, r.key) = {} /\ v = LoneVerdict(f, r)
    <3>1. PICK r \in T : At(S, r.key) = {} /\ v = LoneVerdict(f, r)
      BY <2>5
    <3>2. v = [field |-> f, key |-> r.key, status |-> Fail]
      BY <3>1, VerdictRecords
    <3> QED BY <2>2, <3>1, <3>2, TargetOnlyReported
  <2> QED BY <1>3, <2>3, <2>4, <2>5 DEF Judged
<1>4. ASSUME NEW v, NEW f \in Fields \ Compared, v.field \in F, InBoth(v, f, S, T)
      PROVE  v \in VerdictsIn(report)
  <2>1. v.field = f
    BY <1>4 DEF InBoth, KeyVerdict, Promise!Verdict
  <2>2. f \in F \ PivotedFields(F)
    BY <1>1, <1>4, <2>1
  <2>3. PICK r \in S : At(T, r.key) # {} /\ v = KeyVerdict(f, r)
    BY <1>4 DEF InBoth
  <2>4. v = [field |-> f, key |-> r.key, status |-> Success]
    BY <2>3, VerdictRecords
  <2> QED BY <2>2, <2>3, <2>4, KeyReported
<1> HIDE DEF report
<1>5. ASSUME NEW v \in Promise!Verdicts(S, T), v.field \in F
      PROVE  v \in VerdictsIn(report)
  BY <1>3, <1>4, <1>5, VerdictCases
<1>6. VerdictsIn(report) = {VerdictOf(row) : row \in report}
  BY DEF VerdictsIn, VerdictOf
<1>7. VerdictsIn(report) = {v \in Promise!Verdicts(S, T) : v.field \in F}
  BY <1>2, <1>5, <1>6
<1> QED BY <1>7 DEF report

\* A row's slice is added to where it comes from, and nothing else of it changes
\* (InSlice).
LEMMA SliceKept ==
  ASSUME NEW start \in Nat, NEW report \in SUBSET SliceRows
  PROVE  /\ InSlice(start, report) \subseteq ReportRows
         /\ VerdictsIn(InSlice(start, report)) = VerdictsIn(report)
         /\ \A S, T : (\A r \in report : RowSays(r, S, T)) =>
                        \A row \in InSlice(start, report) : RowSays(row, S, T)
<1> DEFINE Tagged(r) == [r EXCEPT !.from = <<start, @>>]
<1>1. ASSUME NEW r \in report
      PROVE  /\ Tagged(r) \in ReportRows
             /\ Tagged(r).field = r.field /\ Tagged(r).key = r.key
             /\ Tagged(r).source_agg_value = r.source_agg_value
             /\ Tagged(r).target_agg_value = r.target_agg_value
             /\ Tagged(r).validation_status = r.validation_status
  BY DEF SliceRows, ReportRows, RowsFrom
<1>2. InSlice(start, report) = {Tagged(r) : r \in report}
  BY DEF InSlice
<1> HIDE DEF Tagged
<1>3. \A row \in InSlice(start, report) : \E r \in report : row = Tagged(r)
  BY <1>2
<1>4. \A r \in report : VerdictOf(Tagged(r)) = VerdictOf(r)
  BY <1>1 DEF VerdictOf
<1>5. \A q : VerdictsIn(q) = {VerdictOf(r) : r \in q}
  BY DEF VerdictsIn, VerdictOf
<1>6. VerdictsIn(InSlice(start, report)) = VerdictsIn(report)
  <2>1. \A v : v \in VerdictsIn(InSlice(start, report)) <=>
                 \E r \in report : v = VerdictOf(Tagged(r))
    BY <1>2, <1>5
  <2>2. \A v : v \in VerdictsIn(report) <=> \E r \in report : v = VerdictOf(r)
    BY <1>5
  <2> QED BY <1>4, <2>1, <2>2
<1>7. ASSUME NEW S, NEW T, NEW r \in report, RowSays(r, S, T) PROVE RowSays(Tagged(r), S, T)
  BY <1>1, <1>7 DEF RowSays, PairRow, LoneRow, KeyRow
<1> QED BY <1>1, <1>3, <1>6, <1>7

-----------------------------------------------------------------------------
(* The inductive invariant.  The invariants of Validation speak about the  *)
(* end of a run; what leads there is which frames have been taken (Phases),*)
(* what the slices combined so far say about them (ReportSoFar), what the  *)
(* frames have to do with the tables as they are now (QuietFrames), and    *)
(* where the sampled keys come from (SampledFromSource).                   *)

Phases ==
  /\ pc \in {"start", "sampled"} => sourceFuture = Idle /\ targetFuture = Idle
  /\ pc = "start" => sample = NULL
  /\ pc = "querying" =>
       /\ sourceFuture = Pending \/ sourceFuture.state \in {"done", "failed"}
       /\ targetFuture = Pending \/ targetFuture.state \in {"done", "failed"}
  /\ pc \in {"combining", "handling"} =>
       sourceFuture.state = "done" /\ targetFuture.state = "done"

\* The columns of the slices that start below a threshold.
Prefix(start) == {Columns[i] : i \in {j \in 1..Len(Columns) : j <= start}}
                 \cup IF start = 0 THEN {} ELSE JoinColumns(Columns)

ReportSoFar ==
  /\ \E m \in 0..sliceStart : sliceStart = m * Width
  /\ pc \in {"start", "sampled", "querying"} => sliceStart = 0 /\ result = {}
  /\ pc \in {"combining", "handling"} =>
       /\ VerdictsIn(result) =
            {v \in Promise!Verdicts(sourceDf, targetDf) : v.field \in Prefix(sliceStart)}
       /\ \A row \in result : RowSays(row, sourceDf, targetDf)
  /\ pc = "handling" => sliceStart > LastThreshold

\* A frame has rows of the keys of the run only, and those of a key nobody has touched
\* are still what the table holds.
QuietFrame(future, table) ==
  future.state = "done" =>
    \A k \in Keys :
      /\ k \notin Scope => At(future.df, k) = {}
      /\ k \in Scope \ touched => At(future.df, k) = At(View(table), k)

QuietFrames == QuietFrame(sourceFuture, sourceTable) /\ QuietFrame(targetFuture, targetTable)

SampledFromSource ==
  sample # NULL => \A k \in sample \ touched : k \in KeysOf(sourceTable)

IInv == TypeOK /\ Phases /\ ReportSoFar /\ QuietFrames /\ SampledFromSource

-----------------------------------------------------------------------------
(* Facts the steps need.                                                   *)

\* A threshold at a multiple of Width beyond the last one has all columns below it,
\* and one step further the columns of one slice more are (Slice, LastThreshold).
LEMMA Prefixes ==
  /\ Prefix(0) = {}
  /\ \A start \in Nat : /\ Slice(Columns, start) \subseteq Fields
                        /\ Prefix(start + Width) = Prefix(start) \cup Slice(Columns, start)
  /\ \A m \in Nat : m * Width > LastThreshold => Prefix(m * Width) = Fields
<1>1. Width \in Nat /\ Width > 0 /\ Len(Columns) \in Nat
  BY WidthAssumption, ColumnsAssumption
<1>2. Prefix(0) = {}
  BY <1>1 DEF Prefix
<1>3. ASSUME NEW start \in Nat
      PROVE  /\ Slice(Columns, start) \subseteq Fields
             /\ Prefix(start + Width) = Prefix(start) \cup Slice(Columns, start)
  <2>1. start + Width # 0
    BY <1>1
  <2> QED BY <1>1, <2>1 DEF Prefix, Slice, Fields, JoinColumns
<1>4. ASSUME NEW m \in Nat, m * Width > LastThreshold PROVE Prefix(m * Width) = Fields
  <2> DEFINE q == Len(Columns) \div Width
  <2>1. q \in Nat /\ Len(Columns) < q * Width + Width
    BY <1>1
  <2>2. LastThreshold = q * Width
    BY <2>1 DEF LastThreshold, NumberOfSlices
  <2> HIDE DEF q
  <2>3. m > q
    <3>1. SUFFICES ASSUME m <= q PROVE FALSE
      BY <2>1
    <3>2. PICK e \in Nat : q = m + e
      BY <2>1, <3>1
    <3>3. q * Width = m * Width + e * Width /\ e * Width >= 0
      BY <1>1, <3>2
    <3> QED BY <1>1, <1>4, <2>2, <3>3
  <2>4. PICK e \in Nat : m = q + 1 + e
    BY <2>1, <2>3
  <2>5. m * Width = q * Width + Width + e * Width /\ e * Width >= 0 /\ m * Width \in Nat
    BY <1>1, <2>1, <2>4
  <2>6. Len(Columns) <= m * Width
    BY <1>1, <2>1, <2>5
  <2> QED BY <1>1, <2>5, <2>6 DEF Prefix, Fields, JoinColumns
<1> QED BY <1>2, <1>3, <1>4

\* Rows of two reports have the verdicts of both.
LEMMA VerdictsOfBoth == \A r, q : VerdictsIn(r \cup q) = VerdictsIn(r) \cup VerdictsIn(q)
BY DEF VerdictsIn

\* The verdicts of a key depend on the rows of that key only.
LEMMA VerdictsOfKey ==
  ASSUME NEW S, NEW T, NEW A, NEW B, NEW k, At(S, k) = At(A, k), At(T, k) = At(B, k)
  PROVE  {v \in Promise!Verdicts(S, T) : v.key = k} = {v \in Promise!Verdicts(A, B) : v.key = k}
<1> SUFFICES ASSUME NEW P, NEW Q, NEW C, NEW D, At(P, k) = At(C, k), At(Q, k) = At(D, k),
                    NEW v \in Promise!Verdicts(P, Q), v.key = k
             PROVE  v \in Promise!Verdicts(C, D)
  OBVIOUS
<1>1. ASSUME NEW f, Judged(v, f, P, Q) PROVE Judged(v, f, C, D)
  <2>1. CASE \E c \in P : \E d \in At(Q, c.key) : v = PairVerdict(f, c, d)
    <3>1. PICK c \in P : \E d \in At(Q, c.key) : v = PairVerdict(f, c, d)
      BY <2>1
    <3>2. PICK d \in At(Q, c.key) : v = PairVerdict(f, c, d)
      BY <3>1
    <3>3. c.key = k
      BY <3>2 DEF PairVerdict, Promise!Verdict
    <3>4. c \in C /\ d \in At(D, c.key)
      BY <3>3 DEF At
    <3> QED BY <3>2, <3>4 DEF Judged
  <2>2. CASE \E r \in P : At(Q, r.key) = {} /\ v = LoneVerdict(f, r)
    <3>1. PICK r \in P : At(Q, r.key) = {} /\ v = LoneVerdict(f, r)
      BY <2>2
    <3>2. r.key = k
      BY <3>1 DEF LoneVerdict, Promise!Verdict
    <3>3. r \in C /\ At(D, r.key) = {}
      BY <3>1, <3>2 DEF At
    <3> QED BY <3>1, <3>3 DEF Judged
  <2>3. CASE \E r \in Q : At(P, r.key) = {} /\ v = LoneVerdict(f, r)
    <3>1. PICK r \in Q : At(P, r.key) = {} /\ v = LoneVerdict(f, r)
      BY <2>3
    <3>2. r.key = k
      BY <3>1 DEF LoneVerdict, Promise!Verdict
    <3>3. r \in D /\ At(C, r.key) = {}
      BY <3>1, <3>2 DEF At
    <3> QED BY <3>1, <3>3 DEF Judged
  <2> QED BY <1>1, <2>1, <2>2, <2>3 DEF Judged
<1>2. ASSUME NEW f, InBoth(v, f, P, Q) PROVE InBoth(v, f, C, D)
  <2>1. PICK r \in P : At(Q, r.key) # {} /\ v = KeyVerdict(f, r)
    BY <1>2 DEF InBoth
  <2>2. r.key = k
    BY <2>1 DEF KeyVerdict, Promise!Verdict
  <2>3. r \in C /\ At(D, r.key) # {}
    BY <2>1, <2>2 DEF At
  <2> QED BY <2>1, <2>3 DEF InBoth
<1> QED BY <1>1, <1>2, VerdictCases

\* Verdicts are about validation columns.
LEMMA VerdictFields ==
  \A S, T : \A v \in Promise!Verdicts(S, T) : v.field \in Fields
<1> SUFFICES ASSUME NEW S, NEW T, NEW v \in Promise!Verdicts(S, T) PROVE v.field \in Fields
  OBVIOUS
<1>1. \A f : Judged(v, f, S, T) \/ InBoth(v, f, S, T) => v.field = f
  BY DEF Judged, InBoth, PairVerdict, LoneVerdict, KeyVerdict, Promise!Verdict
<1>2. Compared \subseteq Fields
  BY DEF Compared, PivotedFields
<1> QED BY <1>1, <1>2, VerdictCases

\* What a write of another session does (Write): one key, and nothing of the run.
LEMMA WriteChanges ==
  ASSUME TypeOK, Write
  PROVE  \E k \in Keys :
           /\ touched' = touched \cup {k}
           /\ writes' \in 0..MaxWrites
           /\ sourceTable' \in Tables /\ targetTable' \in Tables
           /\ \A r : r.key # k => (r \in sourceTable' <=> r \in sourceTable)
           /\ \A r : r.key # k => (r \in targetTable' <=> r \in targetTable)
           /\ pc \notin {"reported", "raised"}
           /\ UNCHANGED <<pc, sample, sourceFuture, targetFuture, sliceStart, result, stored>>
<1>1. PICK slot \in Slots : WriteSource(slot[1], slot[2]) \/ WriteTarget(slot[1], slot[2])
  BY DEF Write
<1>2. PICK k \in Keys : \E c \in Copies[k] : slot = <<k, c>>
  BY <1>1, SlotPairs
<1>3. PICK c \in Copies[k] : slot = <<k, c>>
  BY <1>2
<1>4. WriteSource(k, c) \/ WriteTarget(k, c)
  BY <1>1, <1>3
<1>5. CanWrite(k)
  BY <1>4 DEF WriteSource, WriteTarget
<1>6. writes' \in 0..MaxWrites
  BY <1>5, MaxWritesAssumption DEF CanWrite, TypeOK
<1>7. /\ sourceTable' \in Tables /\ targetTable' \in Tables
      /\ \A r : r.key # k => (r \in sourceTable' <=> r \in sourceTable)
      /\ \A r : r.key # k => (r \in targetTable' <=> r \in targetTable)
  <2>1. CASE WriteSource(k, c)
    BY <2>1, OverwrittenTable DEF WriteSource, TypeOK
  <2>2. CASE WriteTarget(k, c)
    BY <2>2, OverwrittenTable DEF WriteTarget, TypeOK
  <2> QED BY <1>4, <2>1, <2>2
<1> QED BY <1>5, <1>6, <1>7 DEF CanWrite

-----------------------------------------------------------------------------
(* The invariant is inductive.                                             *)

\* A run starts with tables, no frames and no report (Init).
LEMMA InitIInv == Init => IInv
<1> SUFFICES ASSUME Init PROVE IInv
  OBVIOUS
<1>1. TypeOK
  BY MaxWritesAssumption DEF Init, TypeOK, Idle, Frames
<1>2. ReportSoFar
  BY Prefixes, WidthAssumption DEF Init, ReportSoFar
<1> QED BY <1>1, <1>2 DEF Init, IInv, Phases, QuietFrames, QuietFrame, SampledFromSource, Idle

\* Each step keeps the types (TypeOK).
LEMMA TypeStep == IInv /\ [Next]_vars => TypeOK'
<1> SUFFICES ASSUME IInv, [Next]_vars PROVE TypeOK'
  OBVIOUS
<1> USE DEF IInv, environment
<1>1. CASE AddRandomRowFilter
  <2>1. sourceTable \subseteq Rows
    BY TableTyped DEF TypeOK
  <2>2. \A picked \in SUBSET sourceTable : KeysOf(picked) \subseteq Keys
    BY <2>1 DEF KeysOf, Rows
  <2>3. sample' = NULL \/ sample' \subseteq Keys
    BY <1>1, <2>2 DEF AddRandomRowFilter
  <2> QED BY <1>1, <2>3 DEF AddRandomRowFilter, TypeOK
<1>2. CASE RandomRowQueryFails
  BY <1>2 DEF RandomRowQueryFails, TypeOK
<1>3. CASE SubmitQueries
  <2>1. Pending \in Frames
    BY DEF Pending, Frames
  <2>2. pc # "reported" /\ pc' = "querying"
    BY <1>3 DEF SubmitQueries
  <2> QED BY <1>3, <2>1, <2>2 DEF SubmitQueries, TypeOK
<1>4. CASE SourceQueryReturns \/ SourceQueryFails \/ TargetQueryReturns \/ TargetQueryFails
  <2>1. Failed \in Frames
    BY DEF Failed, Frames
  <2>2. Done(Query(sourceTable)) \in Frames /\ Done(Query(targetTable)) \in Frames
    BY QueryTyped DEF Done, Frames, TypeOK
  <2>3. sourceFuture' \in Frames /\ targetFuture' \in Frames
    BY <1>4, <2>1, <2>2 DEF SourceQueryReturns, SourceQueryFails, TargetQueryReturns,
                            TargetQueryFails, SourceQuery, TargetQuery, TypeOK
  <2>4. UNCHANGED <<sourceTable, targetTable, writes, touched, pc, sample, sliceStart,
                    result, stored>>
    BY <1>4 DEF SourceQueryReturns, SourceQueryFails, TargetQueryReturns,
                TargetQueryFails, SourceQuery, TargetQuery
  <2> QED BY <2>3, <2>4 DEF TypeOK
<1>5. CASE GatherResults
  BY <1>5 DEF GatherResults, TypeOK
<1>6. CASE CombineSlice
  <2> DEFINE report == GenerateReportSlice(sourceDf, targetDf, Slice(Columns, sliceStart))
             slice == InSlice(sliceStart, report)
  <2>1. sourceDf \in SUBSET Rows /\ targetDf \in SUBSET Rows
    BY DEF TypeOK, Frames, sourceDf, targetDf
  <2>2. sliceStart \in Nat /\ Slice(Columns, sliceStart) \in SUBSET Fields
    BY Prefixes DEF TypeOK
  <2>3. slice \subseteq ReportRows
    <3>1. report \in SUBSET SliceRows
      BY <2>1, <2>2, ReportSound
    <3> HIDE DEF report
    <3> QED BY <2>2, <3>1, SliceKept
  <2> HIDE DEF slice, report
  <2>4. result' = result \cup slice /\ sliceStart' = sliceStart + Width
    BY <1>6 DEF CombineSlice, slice, report
  <2>5. sliceStart' \in Nat
    BY <2>2, <2>4, WidthAssumption
  <2>6. UNCHANGED <<sourceTable, targetTable, writes, touched, pc, sample, sourceFuture,
                    targetFuture, stored>>
    BY <1>6 DEF CombineSlice
  <2> QED BY <2>3, <2>4, <2>5, <2>6 DEF TypeOK
<1>7. CASE CombineSliceRaises \/ FinishReport \/ HandlerFails
  BY <1>7 DEF CombineSliceRaises, FinishReport, HandlerFails, TypeOK
<1>8. CASE HandleResults
  BY <1>8 DEF HandleResults, FilterByStatusList, TypeOK
<1>9. CASE Write
  BY <1>9, WriteChanges DEF TypeOK
<1>10. CASE UNCHANGED vars
  BY <1>10 DEF vars, TypeOK
<1> QED BY <1>1, <1>2, <1>3, <1>4, <1>5, <1>6, <1>7, <1>8, <1>9, <1>10
        DEF Next, Execute, Terminated

\* Frames are taken once each, after the sample and before the report (Phases).
LEMMA PhasesStep == IInv /\ [Next]_vars => Phases'
<1> SUFFICES ASSUME IInv, [Next]_vars PROVE Phases'
  OBVIOUS
<1> USE DEF IInv, Phases, environment
<1>1. CASE AddRandomRowFilter \/ RandomRowQueryFails
  BY <1>1 DEF AddRandomRowFilter, RandomRowQueryFails
<1>2. CASE SubmitQueries
  BY <1>2 DEF SubmitQueries
<1>3. CASE SourceQueryReturns \/ SourceQueryFails \/ TargetQueryReturns \/ TargetQueryFails
  BY <1>3 DEF SourceQueryReturns, SourceQueryFails, TargetQueryReturns,
              TargetQueryFails, SourceQuery, TargetQuery, Done, Failed
<1>4. CASE GatherResults
  BY <1>4 DEF GatherResults
<1>5. CASE CombineSlice \/ CombineSliceRaises \/ FinishReport
  BY <1>5 DEF CombineSlice, CombineSliceRaises, FinishReport
<1>6. CASE HandleResults \/ HandlerFails
  BY <1>6 DEF HandleResults, HandlerFails
<1>7. CASE Write
  BY <1>7, WriteChanges
<1>8. CASE UNCHANGED vars
  BY <1>8 DEF vars
<1> QED BY <1>1, <1>2, <1>3, <1>4, <1>5, <1>6, <1>7, <1>8 DEF Next, Execute, Terminated

\* Each slice adds the verdicts of its columns (ReportSoFar).
LEMMA ReportStep == IInv /\ [Next]_vars => ReportSoFar'
<1> SUFFICES ASSUME IInv, [Next]_vars PROVE ReportSoFar'
  OBVIOUS
<1> USE DEF IInv, environment
<1>1. CASE AddRandomRowFilter \/ RandomRowQueryFails \/ SubmitQueries
  BY <1>1 DEF AddRandomRowFilter, RandomRowQueryFails, SubmitQueries, ReportSoFar
<1>2. CASE SourceQueryReturns \/ SourceQueryFails \/ TargetQueryReturns \/ TargetQueryFails
  BY <1>2 DEF SourceQueryReturns, SourceQueryFails, TargetQueryReturns,
              TargetQueryFails, SourceQuery, TargetQuery, ReportSoFar
<1>3. CASE GatherResults
  <2>1. pc = "querying" /\ UNCHANGED <<sliceStart, result>> /\ pc' \in {"raised", "combining"}
    BY <1>3 DEF GatherResults
  <2>2. result = {} /\ sliceStart = 0
    BY <2>1 DEF ReportSoFar
  <2>3. Prefix(0) = {} /\ VerdictsIn({}) = {}
    BY Prefixes DEF VerdictsIn
  <2> QED BY <2>1, <2>2, <2>3 DEF ReportSoFar
<1>4. CASE CombineSlice
  <2> DEFINE fields == Slice(Columns, sliceStart)
             report == GenerateReportSlice(sourceDf, targetDf, fields)
             slice == InSlice(sliceStart, report)
  <2>1. sourceDf \in SUBSET Rows /\ targetDf \in SUBSET Rows
    BY DEF TypeOK, Frames, sourceDf, targetDf
  <2>2. /\ sliceStart \in Nat /\ fields \in SUBSET Fields
        /\ Prefix(sliceStart + Width) = Prefix(sliceStart) \cup fields
    BY Prefixes DEF TypeOK
  <2>3. /\ report \in SUBSET SliceRows
        /\ VerdictsIn(report) = {v \in Promise!Verdicts(sourceDf, targetDf) : v.field \in fields}
        /\ \A row \in report : RowSays(row, sourceDf, targetDf)
    BY <2>1, <2>2, SliceVerdicts, ReportSound
  <2> HIDE DEF report, fields
  <2>4. /\ VerdictsIn(slice) = {v \in Promise!Verdicts(sourceDf, targetDf) : v.field \in fields}
        /\ \A row \in slice : RowSays(row, sourceDf, targetDf)
    BY <2>2, <2>3, SliceKept
  <2> HIDE DEF slice
  <2>5. /\ result' = result \cup slice /\ sliceStart' = sliceStart + Width
        /\ pc = "combining" /\ UNCHANGED <<pc, sourceFuture, targetFuture>>
    BY <1>4 DEF CombineSlice, slice, report, fields
  <2>6. sourceDf' = sourceDf /\ targetDf' = targetDf
    BY <2>5 DEF sourceDf, targetDf
  <2>7. VerdictsIn(result') =
          {v \in Promise!Verdicts(sourceDf, targetDf) : v.field \in Prefix(sliceStart')}
    BY <2>2, <2>4, <2>5, VerdictsOfBoth DEF ReportSoFar
  <2>8. \A row \in result' : RowSays(row, sourceDf, targetDf)
    BY <2>4, <2>5 DEF ReportSoFar
  <2>9. \E m \in 0..sliceStart' : sliceStart' = m * Width
    <3>1. PICK m \in 0..sliceStart : sliceStart = m * Width
      BY DEF ReportSoFar
    <3>2. m + 1 \in 0..sliceStart' /\ sliceStart' = (m + 1) * Width
      BY <2>2, <2>5, <3>1, WidthAssumption
    <3> QED BY <3>2
  <2> QED BY <2>5, <2>6, <2>7, <2>8, <2>9 DEF ReportSoFar
<1>5. CASE CombineSliceRaises \/ HandleResults \/ HandlerFails
  BY <1>5 DEF CombineSliceRaises, HandleResults, HandlerFails, ReportSoFar
<1>6. CASE FinishReport
  BY <1>6 DEF FinishReport, ReportSoFar, sourceDf, targetDf
<1>7. CASE Write
  BY <1>7, WriteChanges DEF ReportSoFar, sourceDf, targetDf
<1>8. CASE UNCHANGED vars
  BY <1>8 DEF vars, ReportSoFar, sourceDf, targetDf
<1> QED BY <1>1, <1>2, <1>3, <1>4, <1>5, <1>6, <1>7, <1>8 DEF Next, Execute, Terminated

\* What a key's rows are in the view of a table changes with the rows of the key only.
LEMMA QuietUntouched ==
  ASSUME NEW future, NEW t, NEW u, NEW k \in Keys, QuietFrame(future, t),
         \A r : r.key # k => (r \in u <=> r \in t)
  PROVE  future.state = "done" =>
           \A q \in Keys : /\ q \notin Scope => At(future.df, q) = {}
                           /\ q \in Scope \ (touched \cup {k}) =>
                                At(future.df, q) = At(View(u), q)
<1> SUFFICES ASSUME future.state = "done", NEW q \in Keys
             PROVE  /\ q \notin Scope => At(future.df, q) = {}
                    /\ q \in Scope \ (touched \cup {k}) => At(future.df, q) = At(View(u), q)
  OBVIOUS
<1>1. q # k => At(u, q) = At(t, q)
  BY DEF At
<1>2. q # k => At(View(u), q) = At(View(t), q)
  BY <1>1, ViewAt
<1> QED BY <1>2 DEF QuietFrame

\* The frame of a query that has just answered is what the table holds (QuietFrame).
LEMMA FreshFrame ==
  ASSUME NEW t \in Tables
  PROVE  QuietFrame(Done(Query(t)), t)
BY QueryAt DEF QuietFrame, Done

\* A frame goes on agreeing with the table on the keys nobody has touched (QuietFrames).
LEMMA QuietStep == IInv /\ [Next]_vars => QuietFrames'
<1> SUFFICES ASSUME IInv, [Next]_vars PROVE QuietFrames'
  OBVIOUS
<1> USE DEF IInv, environment
<1>1. CASE AddRandomRowFilter \/ RandomRowQueryFails
  <2>1. sourceFuture' = Idle /\ targetFuture' = Idle
    BY <1>1 DEF AddRandomRowFilter, RandomRowQueryFails, Phases
  <2> QED BY <2>1 DEF QuietFrames, QuietFrame, Idle
<1>2. CASE SubmitQueries
  BY <1>2 DEF SubmitQueries, QuietFrames, QuietFrame, Pending
<1>3. CASE SourceQueryReturns \/ TargetQueryReturns
  <2>1. /\ QuietFrame(Done(Query(sourceTable)), sourceTable)
        /\ QuietFrame(Done(Query(targetTable)), targetTable)
    BY FreshFrame DEF TypeOK
  <2>2. UNCHANGED <<sourceTable, targetTable, touched, sample>>
    BY <1>3 DEF SourceQueryReturns, TargetQueryReturns, SourceQuery, TargetQuery
  <2>3. QuietFrame(sourceFuture', sourceTable) /\ QuietFrame(targetFuture', targetTable)
    BY <1>3, <2>1 DEF SourceQueryReturns, TargetQueryReturns, SourceQuery, TargetQuery,
                      QuietFrames
  <2> QED BY <2>2, <2>3 DEF QuietFrames, QuietFrame, Scope
<1>4. CASE SourceQueryFails \/ TargetQueryFails
  BY <1>4 DEF SourceQueryFails, TargetQueryFails, SourceQuery, TargetQuery, Failed,
              QuietFrames, QuietFrame, Scope
<1>5. CASE GatherResults \/ CombineSlice \/ CombineSliceRaises \/ FinishReport
           \/ HandleResults \/ HandlerFails
  BY <1>5 DEF GatherResults, CombineSlice, CombineSliceRaises, FinishReport,
              HandleResults, HandlerFails, QuietFrames, QuietFrame, Scope
<1>6. CASE Write
  <2>1. PICK k \in Keys :
          /\ touched' = touched \cup {k}
          /\ \A r : r.key # k => (r \in sourceTable' <=> r \in sourceTable)
          /\ \A r : r.key # k => (r \in targetTable' <=> r \in targetTable)
          /\ UNCHANGED <<pc, sample, sourceFuture, targetFuture, sliceStart, result, stored>>
    BY <1>6, WriteChanges
  <2>2. QuietFrame(sourceFuture, sourceTable) /\ QuietFrame(targetFuture, targetTable)
    BY DEF QuietFrames
  <2>3. QuietFrame(sourceFuture, sourceTable)'
    BY <2>1, <2>2, QuietUntouched DEF QuietFrame, Scope
  <2>4. QuietFrame(targetFuture, targetTable)'
    BY <2>1, <2>2, QuietUntouched DEF QuietFrame, Scope
  <2> QED BY <2>3, <2>4 DEF QuietFrames
<1>7. CASE UNCHANGED vars
  BY <1>7 DEF vars, QuietFrames, QuietFrame, Scope
<1> QED BY <1>1, <1>2, <1>3, <1>4, <1>5, <1>6, <1>7 DEF Next, Execute, Terminated

\* A sampled key stays in the source until somebody touches it (SampledFromSource).
LEMMA SampledStep == IInv /\ [Next]_vars => SampledFromSource'
<1> SUFFICES ASSUME IInv, [Next]_vars PROVE SampledFromSource'
  OBVIOUS
<1> USE DEF IInv, environment
<1>1. CASE AddRandomRowFilter
  <2>1. PICK picked \in SUBSET sourceTable :
          sample' = IF picked = {} THEN NULL ELSE KeysOf(picked)
    BY <1>1 DEF AddRandomRowFilter
  <2>2. KeysOf(picked) \subseteq KeysOf(sourceTable)
    BY DEF KeysOf
  <2> QED BY <1>1, <2>1, <2>2 DEF AddRandomRowFilter, SampledFromSource
<1>2. CASE RandomRowQueryFails \/ SubmitQueries
  BY <1>2 DEF RandomRowQueryFails, SubmitQueries, SampledFromSource
<1>3. CASE SourceQueryReturns \/ TargetQueryReturns \/ SourceQueryFails \/ TargetQueryFails
  BY <1>3 DEF SourceQueryReturns, TargetQueryReturns, SourceQueryFails, TargetQueryFails,
              SourceQuery, TargetQuery, SampledFromSource
<1>4. CASE GatherResults \/ CombineSlice \/ CombineSliceRaises \/ FinishReport
           \/ HandleResults \/ HandlerFails
  BY <1>4 DEF GatherResults, CombineSlice, CombineSliceRaises, FinishReport,
              HandleResults, HandlerFails, SampledFromSource
<1>5. CASE Write
  <2>1. PICK k \in Keys :
          /\ touched' = touched \cup {k}
          /\ \A r : r.key # k => (r \in sourceTable' <=> r \in sourceTable)
          /\ UNCHANGED <<pc, sample, sourceFuture, targetFuture, sliceStart, result, stored>>
    BY <1>5, WriteChanges
  <2>2. \A q : q # k /\ q \in KeysOf(sourceTable) => q \in KeysOf(sourceTable')
    BY <2>1 DEF KeysOf
  <2> QED BY <2>1, <2>2 DEF SampledFromSource
<1>6. CASE UNCHANGED vars
  BY <1>6 DEF vars, SampledFromSource
<1> QED BY <1>1, <1>2, <1>3, <1>4, <1>5, <1>6 DEF Next, Execute, Terminated

\* Every reachable state satisfies the inductive invariant.
THEOREM Inductive == Spec => []IInv
<1>1. IInv /\ [Next]_vars => IInv'
  BY TypeStep, PhasesStep, ReportStep, QuietStep, SampledStep DEF IInv
<1> QED BY InitIInv, <1>1, PTL DEF Spec

-----------------------------------------------------------------------------
(* The invariants of Validation.                                           *)

\* Every variable has the shape the code gives it, and a run that has not reached the
\* end has written nothing (TypeOK).
THEOREM TypeCorrect == Spec => []TypeOK
<1>1. IInv => TypeOK
  BY DEF IInv
<1> QED BY Inductive, <1>1, PTL

\* A finished report has all the verdicts the promise wants.
LEMMA WholeReport ==
  ASSUME IInv, pc = "handling"
  PROVE  VerdictsIn(result) = Promise!Verdicts(sourceDf, targetDf)
<1>1. PICK m \in 0..sliceStart : sliceStart = m * Width
  BY DEF IInv, ReportSoFar
<1>2. sliceStart > LastThreshold /\ m \in Nat
  BY DEF IInv, ReportSoFar, TypeOK
<1>3. Prefix(sliceStart) = Fields
  BY <1>1, <1>2, Prefixes
<1> QED BY <1>3, VerdictFields DEF IInv, ReportSoFar

\* A key nobody touched gets the verdict its rows deserve, however writes to other keys
\* and the two reads interleave (_execute_validation reads without a snapshot).
THEOREM QuietJudged == Spec => []QuietKeysJudgedRight
<1>1. IInv => QuietKeysJudgedRight
  <2> SUFFICES ASSUME IInv, pc = "handling", NEW k \in Keys \ touched, sample = NULL \/ k \in sample
               PROVE  {v \in VerdictsIn(result) : v.key = k} =
                      {v \in Promise!Verdicts(View(sourceTable), View(targetTable)) : v.key = k}
    BY DEF QuietKeysJudgedRight
  <2>1. k \in Scope
    BY DEF Scope
  <2>2. sourceFuture.state = "done" /\ targetFuture.state = "done"
    BY DEF IInv, Phases
  <2>3. At(sourceDf, k) = At(View(sourceTable), k) /\ At(targetDf, k) = At(View(targetTable), k)
    BY <2>1, <2>2 DEF IInv, QuietFrames, QuietFrame, sourceDf, targetDf
  <2> QED BY <2>3, WholeReport, VerdictsOfKey
<1> QED BY Inductive, <1>1, PTL

\* A key that a sampled run reports as missing in the source was changed by another
\* session after it was sampled (_add_random_row_filter).
THEOREM SampledMissing == Spec => []SampledKeyMissingOnlyIfTouched
<1>1. IInv => SampledKeyMissingOnlyIfTouched
  <2> SUFFICES ASSUME IInv, sample # NULL, pc = "handling", NEW row \in result,
                      \A s \in sourceDf : s.key # row.key, row.key \notin touched
               PROVE  FALSE
    BY DEF SampledKeyMissingOnlyIfTouched
  <2>1. sourceFuture.state = "done" /\ targetFuture.state = "done"
    BY DEF IInv, Phases
  <2>2. At(sourceDf, row.key) = {}
    BY DEF At
  <2>3. At(targetDf, row.key) # {} /\ row.key \in Keys
    BY <2>2 DEF IInv, ReportSoFar, RowSays, PairRow, LoneRow, KeyRow, TypeOK, ReportRows,
                RowsFrom
  <2>4. row.key \in Scope
    BY <2>1, <2>3 DEF IInv, QuietFrames, QuietFrame, targetDf
  <2>5. At(View(sourceTable), row.key) = {}
    BY <2>1, <2>2, <2>3, <2>4 DEF IInv, QuietFrames, QuietFrame, sourceDf
  <2>6. row.key \in sample \ touched
    BY <2>4 DEF Scope
  <2>7. row.key \in KeysOf(sourceTable)
    BY <2>6 DEF IInv, SampledFromSource
  <2>8. At(sourceTable, row.key) # {}
    BY <2>7 DEF KeysOf, At
  <2>9. At(View(sourceTable), row.key) # {}
    BY <2>8, ViewAt
  <2> QED BY <2>5, <2>9
<1> QED BY Inductive, <1>1, PTL

\* A report without a failed row means that the two frames hold the same (the joins of
\* combiner.py and its fillna with the failed status).
THEOREM CleanMeansEqual == Spec => []CleanReportMeansEqualRows
<1>1. IInv => CleanReportMeansEqualRows
  <2> SUFFICES ASSUME IInv, ValueComparison, pc = "handling",
                      \A r \in result : r.validation_status = Success, NEW f \in Compared
               PROVE  /\ KeysOf(sourceDf) = KeysOf(targetDf)
                      /\ \A s \in sourceDf, t \in targetDf : s.key = t.key => s.val[f] = t.val[f]
    BY DEF CleanReportMeansEqualRows
  <2>1. \A v \in Promise!Verdicts(sourceDf, targetDf) : v.status = Success
    <3>1. \A v \in VerdictsIn(result) : v.status = Success
      BY DEF VerdictsIn
    <3> QED BY <3>1, WholeReport
  <2>2. \A v : Judged(v, f, sourceDf, targetDf) => v.status = Success
    BY <2>1, VerdictCases
  <2>3. \A r : LoneVerdict(f, r).status # Success
    BY DEF LoneVerdict, Promise!Verdict, Success
  <2>4. /\ \A r \in sourceDf : At(targetDf, r.key) # {}
        /\ \A r \in targetDf : At(sourceDf, r.key) # {}
    BY <2>2, <2>3 DEF Judged
  <2>5. KeysOf(sourceDf) = KeysOf(targetDf)
    BY <2>4 DEF KeysOf, At
  <2>6. ASSUME NEW s \in sourceDf, NEW t \in targetDf, s.key = t.key PROVE s.val[f] = t.val[f]
    <3>1. t \in At(targetDf, s.key)
      BY <2>6 DEF At
    <3>2. Judged(PairVerdict(f, s, t), f, sourceDf, targetDf)
      BY <2>6, <3>1 DEF Judged
    <3>3. PairVerdict(f, s, t).status = Success
      BY <2>2, <3>2
    <3>4. Promise!Agree(s.val[f], t.val[f])
      BY <3>3 DEF PairVerdict, Promise!Verdict, Success
    <3> QED BY <3>4 DEF Promise!Agree
  <2> QED BY <2>5, <2>6
<1> QED BY Inductive, <1>1, PTL

-----------------------------------------------------------------------------
(* A run implements ComparisonPromise: each step is one of the promise's   *)
(* or changes nothing the promise speaks of.                               *)

\* The moment the answer of a query is computed is the moment its frame is taken.
LEMMA TakenAtOnce ==
  ASSUME NEW t \in Tables
  PROVE  Query(t) = {r \in View(t) : r.key \in Scope}
<1> DEFINE wanted == {r \in View(t) : r.key \in Scope}
<1>1. ASSUME NEW k PROVE At(Query(t), k) = At(wanted, k)
  <2>1. At(wanted, k) = IF k \in Scope THEN At(View(t), k) ELSE {}
    BY DEF At
  <2> QED BY <2>1, QueryAt
<1> HIDE DEF wanted
<1>2. Query(t) = wanted
  BY <1>1, SameAtEachKey
<1> QED BY <1>2 DEF wanted

\* What the result handler keeps is what the promise publishes (FilterByStatusList).
LEMMA KeptVerdicts ==
  ASSUME NEW report
  PROVE  VerdictsIn(FilterByStatusList(report)) =
           {v \in VerdictsIn(report) : v.status \in StatusList}
BY DEF VerdictsIn, FilterByStatusList

\* A run's first state is the promise's.
LEMMA InitKept == Init => Promise!Init
BY DEF Init, Promise!Init, Idle, Taken, VerdictsIn

\* Each step of a run keeps the promise.
LEMMA StepKept == IInv /\ [Next]_vars => [Promise!Next]_(Promise!vars)
<1> SUFFICES ASSUME IInv, [Next]_vars PROVE [Promise!Next]_(Promise!vars)
  OBVIOUS
<1> USE DEF environment
<1>0. TypeOK
  BY DEF IInv
<1>1. CASE AddRandomRowFilter
  <2>1. sample = NULL
    BY <1>1 DEF AddRandomRowFilter, IInv, Phases
  <2>2. (IF sample = NULL THEN Keys ELSE sample)' \subseteq IF sample = NULL THEN Keys ELSE sample
    BY <2>1, TypeStep DEF IInv, TypeOK
  <2>3. Taken(sourceFuture) = {} /\ Taken(targetFuture) = {}
    BY <1>1 DEF AddRandomRowFilter, IInv, Phases, Idle, Taken
  <2>4. Promise!ChooseScope
    BY <1>1, <2>2, <2>3 DEF AddRandomRowFilter, Promise!ChooseScope, Promise!Running,
                            Taken, View
  <2> QED BY <2>4 DEF Promise!Next
<1>2. CASE RandomRowQueryFails \/ CombineSliceRaises \/ HandlerFails
  <2>1. Promise!Abort
    BY <1>2 DEF RandomRowQueryFails, CombineSliceRaises, HandlerFails, Promise!Abort,
                Promise!Running, Taken, View, VerdictsIn
  <2> QED BY <2>1 DEF Promise!Next
<1>3. CASE SubmitQueries
  <2>1. UNCHANGED <<Taken(sourceFuture), Taken(targetFuture)>>
    BY <1>3 DEF SubmitQueries, IInv, Phases, Idle, Pending, Taken
  <2>2. UNCHANGED Promise!vars
    BY <1>3, <2>1 DEF SubmitQueries, Promise!vars, View, VerdictsIn
  <2> QED BY <2>2
<1>4. CASE SourceQueryReturns
  <2>1. Query(sourceTable) =
          Promise!InScope(View(sourceTable))
    BY <1>0, TakenAtOnce DEF TypeOK, Promise!InScope, Scope
  <2>2. Taken(sourceFuture) = {} /\ Taken(sourceFuture') = {Query(sourceTable)}
    BY <1>4 DEF SourceQueryReturns, SourceQuery, Taken, Done, Pending
  <2>3. Promise!TakeSource
    BY <1>4, <2>1, <2>2 DEF SourceQueryReturns, SourceQuery, Promise!TakeSource,
                            Promise!Running, Taken, View, VerdictsIn
  <2> QED BY <2>3 DEF Promise!Next
<1>5. CASE TargetQueryReturns
  <2>1. Query(targetTable) =
          Promise!InScope(View(targetTable))
    BY <1>0, TakenAtOnce DEF TypeOK, Promise!InScope, Scope
  <2>2. Taken(targetFuture) = {} /\ Taken(targetFuture') = {Query(targetTable)}
    BY <1>5 DEF TargetQueryReturns, TargetQuery, Taken, Done, Pending
  <2>3. Promise!TakeTarget
    BY <1>5, <2>1, <2>2 DEF TargetQueryReturns, TargetQuery, Promise!TakeTarget,
                            Promise!Running, Taken, View, VerdictsIn
  <2> QED BY <2>3 DEF Promise!Next
<1>6. CASE SourceQueryFails \/ TargetQueryFails
  <2>1. UNCHANGED <<Taken(sourceFuture), Taken(targetFuture)>>
    BY <1>6 DEF SourceQueryFails, TargetQueryFails, SourceQuery, TargetQuery, Failed,
                Pending, Taken
  <2>2. UNCHANGED Promise!vars
    BY <1>6, <2>1 DEF SourceQueryFails, TargetQueryFails, SourceQuery, TargetQuery,
                      Promise!vars, View, VerdictsIn
  <2> QED BY <2>2
<1>7. CASE GatherResults
  <2>1. CASE pc' = "raised"
    <3>1. Promise!Abort
      BY <1>7, <2>1 DEF GatherResults, Promise!Abort, Promise!Running, Taken, View, VerdictsIn
    <3> QED BY <3>1 DEF Promise!Next
  <2>2. CASE pc' = "combining"
    <3>1. UNCHANGED Promise!vars
      BY <1>7, <2>2 DEF GatherResults, Promise!vars, Taken, View, VerdictsIn
    <3> QED BY <3>1
  <2> QED BY <1>7, <2>1, <2>2 DEF GatherResults
<1>8. CASE CombineSlice \/ FinishReport
  <2>1. UNCHANGED Promise!vars
    BY <1>8 DEF CombineSlice, FinishReport, Promise!vars, Taken, View, VerdictsIn
  <2> QED BY <2>1
<1>9. CASE HandleResults
  <2>1. pc = "handling" /\ pc' = "reported" /\ stored' = FilterByStatusList(result)
        /\ UNCHANGED <<sourceTable, targetTable, sample, sourceFuture, targetFuture>>
    BY <1>9 DEF HandleResults
  <2>2. Taken(sourceFuture) = {sourceDf} /\ Taken(targetFuture) = {targetDf}
    BY <2>1 DEF IInv, Phases, Taken, sourceDf, targetDf
  <2>3. VerdictsIn(stored') =
          {v \in Promise!Verdicts(sourceDf, targetDf) : v.status \in StatusList}
    BY <2>1, WholeReport, KeptVerdicts
  <2>4. Promise!Publish
    BY <2>1, <2>2, <2>3 DEF Promise!Publish, Promise!Running, Taken, View
  <2> QED BY <2>4 DEF Promise!Next
<1>10. CASE Write
  <2>1. UNCHANGED <<pc, sample, sourceFuture, targetFuture, stored>>
    BY <1>0, <1>10, WriteChanges
  <2>2. Promise!TablesChange
    BY <2>1 DEF Promise!TablesChange, Taken, VerdictsIn
  <2> QED BY <2>2 DEF Promise!Next
<1>11. CASE UNCHANGED vars
  <2>1. UNCHANGED Promise!vars
    BY <1>11 DEF vars, Promise!vars, Taken, View, VerdictsIn
  <2> QED BY <2>1
<1> QED BY <1>1, <1>2, <1>3, <1>4, <1>5, <1>6, <1>7, <1>8, <1>9, <1>10, <1>11
        DEF Next, Execute, Terminated

\* Slices, outer joins, futures and the status filter together implement the comparison
\* of two frames (data_validation.py _execute_validation, combiner.py generate_report).
THEOREM ImplementsPromise == Spec => KeepsPromise
<1>1. Init => Promise!Init
  BY InitKept
<1>2. IInv /\ [Next]_vars => [Promise!Next]_(Promise!vars)
  BY StepKept
<1> QED BY <1>1, <1>2, Inductive, PTL DEF Spec, KeepsPromise, Promise!Spec

-----------------------------------------------------------------------------
(* The counts of the summary.  To be counted, a report has to be finite.   *)

\* There are finitely many columns.
LEMMA FiniteFields == IsFiniteSet(Fields)
<1> DEFINE at == [i \in 1..Len(Columns) |-> Columns[i]]
<1>1. IsFiniteSet(1..Len(Columns))
  BY ColumnsAssumption, FS_Interval
<1>2. IsFiniteSet({at[i] : i \in 1..Len(Columns)})
  <2>1. DOMAIN at = 1..Len(Columns) /\ at = [i \in 1..Len(Columns) |-> at[i]]
    OBVIOUS
  <2> HIDE DEF at
  <2> QED BY <1>1, <2>1, FiniteImage
<1> QED BY <1>2 DEF Fields

\* A pivot has one row for each column and row of the frame (PivotResult).
LEMMA FinitePivot ==
  ASSUME NEW df, IsFiniteSet(df), NEW F \in SUBSET Fields
  PROVE  IsFiniteSet(PivotResult(df, F))
<1> DEFINE cells == PivotedFields(F) \X df
           row == [p \in cells |-> [field |-> p[1], key |-> p[2].key, copy |-> p[2].copy,
                                    value |-> p[2].val[p[1]]]]
<1>1. IsFiniteSet(PivotedFields(F))
  <2>1. PivotedFields(F) \in SUBSET Fields
    BY DEF PivotedFields
  <2> QED BY <2>1, FiniteFields, FS_Subset
<1>2. IsFiniteSet(cells)
  BY <1>1, FS_Product
<1>3. PivotResult(df, F) \in SUBSET {row[p] : p \in cells}
  <2>1. ASSUME NEW x \in PivotResult(df, F) PROVE \E p \in cells : x = row[p]
    <3>1. PICK f \in PivotedFields(F) : \E r \in df :
            x = [field |-> f, key |-> r.key, copy |-> r.copy, value |-> r.val[f]]
      BY <2>1 DEF PivotResult
    <3>2. PICK r \in df :
            x = [field |-> f, key |-> r.key, copy |-> r.copy, value |-> r.val[f]]
      BY <3>1
    <3>3. <<f, r>> \in cells /\ x = row[<<f, r>>]
      BY <3>1, <3>2
    <3> QED BY <3>3
  <2> HIDE DEF row, cells
  <2> QED BY <2>1
<1>4. DOMAIN row = cells /\ row = [p \in cells |-> row[p]]
  OBVIOUS
<1> HIDE DEF row, cells
<1>5. IsFiniteSet({row[p] : p \in cells})
  BY <1>2, <1>4, FiniteImage
<1> QED BY <1>3, <1>5, FS_Subset

\* There is one difference for each column and pair of rows (CalculateDifferences).
LEMMA FiniteDifferences ==
  ASSUME NEW S, IsFiniteSet(S), NEW T, IsFiniteSet(T), NEW F \in SUBSET Fields
  PROVE  IsFiniteSet(CalculateDifferences(S, T, F))
<1> DEFINE pairs == {q \in S \X T : q[1].key = q[2].key}
           cells == F \X pairs
           difference ==
             [c \in cells |->
                [field |-> c[1], key |-> c[2][1].key, pair |-> <<c[2][1].copy, c[2][2].copy>>,
                 status |-> CalculateDifference(c[2][1].val[c[1]], c[2][2].val[c[1]])]]
<1>1. IsFiniteSet(F)
  BY FiniteFields, FS_Subset
<1>2. IsFiniteSet(S \X T)
  BY FS_Product
<1>3. IsFiniteSet(pairs)
  <2>1. pairs \in SUBSET (S \X T)
    OBVIOUS
  <2> QED BY <1>2, <2>1, FS_Subset
<1>4. IsFiniteSet(cells)
  <2> HIDE DEF pairs
  <2> QED BY <1>1, <1>3, FS_Product
<1>5. CalculateDifferences(S, T, F) \in SUBSET {difference[c] : c \in cells}
  <2>1. ASSUME NEW x \in CalculateDifferences(S, T, F) PROVE \E c \in cells : x = difference[c]
    <3>1. PICK f \in F : \E p \in pairs :
            x = [field |-> f, key |-> p[1].key, pair |-> <<p[1].copy, p[2].copy>>,
                 status |-> CalculateDifference(p[1].val[f], p[2].val[f])]
      BY <2>1 DEF CalculateDifferences
    <3>2. PICK p \in pairs :
            x = [field |-> f, key |-> p[1].key, pair |-> <<p[1].copy, p[2].copy>>,
                 status |-> CalculateDifference(p[1].val[f], p[2].val[f])]
      BY <3>1
    <3> HIDE DEF pairs
    <3>3. <<f, p>> \in cells /\ x = difference[<<f, p>>]
      BY <3>1, <3>2
    <3> QED BY <3>3
  <2> HIDE DEF difference, cells
  <2> QED BY <2>1
<1>6. DOMAIN difference = cells /\ difference = [c \in cells |-> difference[c]]
  OBVIOUS
<1> HIDE DEF difference, cells
<1>7. IsFiniteSet({difference[c] : c \in cells})
  BY <1>4, <1>6, FiniteImage
<1> QED BY <1>5, <1>7, FS_Subset

\* An outer join of finite sets is finite (SourceDifference).
LEMMA FiniteJoin ==
  ASSUME NEW source, IsFiniteSet(source), NEW differences, IsFiniteSet(differences)
  PROVE  IsFiniteSet(SourceDifference(source, differences))
<1> DEFINE pairs == {q \in source \X differences : SameJoinKeys(q[1], q[2])}
           alone == {p \in source : \A d \in differences : ~SameJoinKeys(p, d)}
           others == {e \in differences : \A p \in source : ~SameJoinKeys(p, e)}
           paired == [p \in pairs |->
                        [field |-> p[1].field, key |-> p[1].key, value |-> p[1].value,
                         status |-> p[2].status, from |-> <<p[1].copy, p[2].pair>>]]
           left == [s \in alone |->
                      [field |-> s.field, key |-> s.key, value |-> s.value, status |-> NULL,
                       from |-> <<s.copy, NULL>>]]
           right == [d \in others |->
                       [field |-> d.field, key |-> d.key, value |-> NULL, status |-> d.status,
                        from |-> <<NULL, d.pair>>]]
<1>1. IsFiniteSet(source \X differences)
  BY FS_Product
<1>2. IsFiniteSet(pairs) /\ IsFiniteSet(alone) /\ IsFiniteSet(others)
  <2>1. /\ pairs \in SUBSET (source \X differences) /\ alone \in SUBSET source
        /\ others \in SUBSET differences
    OBVIOUS
  <2> HIDE DEF pairs, alone, others
  <2> QED BY <1>1, <2>1, FS_Subset
<1>3. SourceDifference(source, differences) =
        {paired[p] : p \in pairs} \cup {left[s] : s \in alone} \cup {right[d] : d \in others}
  BY DEF SourceDifference
<1>4. /\ DOMAIN paired = pairs /\ paired = [p \in pairs |-> paired[p]]
      /\ DOMAIN left = alone /\ left = [s \in alone |-> left[s]]
      /\ DOMAIN right = others /\ right = [d \in others |-> right[d]]
  OBVIOUS
<1> HIDE DEF pairs, alone, others, paired, left, right
<1>5. /\ IsFiniteSet({paired[p] : p \in pairs}) /\ IsFiniteSet({left[s] : s \in alone})
      /\ IsFiniteSet({right[d] : d \in others})
  BY <1>2, <1>4, FiniteImage
<1>6. IsFiniteSet({paired[p] : p \in pairs} \cup {left[s] : s \in alone})
  BY <1>5, FS_Union
<1>7. IsFiniteSet(({paired[p] : p \in pairs} \cup {left[s] : s \in alone})
                  \cup {right[d] : d \in others})
  BY <1>5, <1>6, FS_Union
<1> QED BY <1>3, <1>7

\* A slice of the report of finite frames is finite (GenerateReportSlice).
LEMMA FiniteSlice ==
  ASSUME NEW S, IsFiniteSet(S), NEW T, IsFiniteSet(T), NEW F \in SUBSET Fields
  PROVE  IsFiniteSet(GenerateReportSlice(S, T, F))
<1> DEFINE target == PivotResult(T, F)
           sd == Joined(S, T, F)
           pairs == {q \in sd \X target : SameJoinKeys(q[1], q[2])}
           lone == {q \in sd : \A t \in target : ~SameJoinKeys(q, t)}
           rest == {q \in target : \A s \in sd : ~SameJoinKeys(s, q)}
           matched == [p \in pairs |-> Matched(p)]
           sourceOnly == [s \in lone |-> SourceOnly(s)]
           targetOnly == [t \in rest |-> TargetOnly(t)]
<1>1. IsFiniteSet(target) /\ IsFiniteSet(sd)
  BY FinitePivot, FiniteDifferences, FiniteJoin DEF Joined
<1>2. IsFiniteSet(sd \X target)
  <2> HIDE DEF sd, target
  <2> QED BY <1>1, FS_Product
<1>3. IsFiniteSet(pairs) /\ IsFiniteSet(lone) /\ IsFiniteSet(rest)
  <2>1. pairs \in SUBSET (sd \X target) /\ lone \in SUBSET sd /\ rest \in SUBSET target
    OBVIOUS
  <2> HIDE DEF sd, target, pairs, lone, rest
  <2> QED BY <1>1, <1>2, <2>1, FS_Subset
<1>4. GenerateReportSlice(S, T, F) =
        ({matched[p] : p \in pairs} \cup {sourceOnly[s] : s \in lone})
        \cup {targetOnly[t] : t \in rest}
  BY SliceParts
<1>5. /\ DOMAIN matched = pairs /\ matched = [p \in pairs |-> matched[p]]
      /\ DOMAIN sourceOnly = lone /\ sourceOnly = [s \in lone |-> sourceOnly[s]]
      /\ DOMAIN targetOnly = rest /\ targetOnly = [t \in rest |-> targetOnly[t]]
  OBVIOUS
<1> HIDE DEF sd, target, pairs, lone, rest, matched, sourceOnly, targetOnly
<1>6. /\ IsFiniteSet({matched[p] : p \in pairs})
      /\ IsFiniteSet({sourceOnly[s] : s \in lone})
      /\ IsFiniteSet({targetOnly[t] : t \in rest})
  BY <1>3, <1>5, FiniteImage
<1>7. IsFiniteSet({matched[p] : p \in pairs} \cup {sourceOnly[s] : s \in lone})
  BY <1>6, FS_Union
<1>8. IsFiniteSet(({matched[p] : p \in pairs} \cup {sourceOnly[s] : s \in lone})
                  \cup {targetOnly[t] : t \in rest})
  BY <1>6, <1>7, FS_Union
<1> QED BY <1>4, <1>8

\* And so it is when its rows know the slice (InSlice).
LEMMA FiniteInSlice ==
  ASSUME NEW report, IsFiniteSet(report), NEW start
  PROVE  IsFiniteSet(InSlice(start, report))
<1> DEFINE tagged == [r \in report |-> [r EXCEPT !.from = <<start, @>>]]
<1>1. InSlice(start, report) = {tagged[r] : r \in report}
  BY DEF InSlice
<1>2. DOMAIN tagged = report /\ tagged = [r \in report |-> tagged[r]]
  OBVIOUS
<1> HIDE DEF tagged
<1> QED BY <1>1, <1>2, FiniteImage

\* Frames and report are finite.
FiniteData ==
  IsFiniteSet(sourceFuture.df) /\ IsFiniteSet(targetFuture.df) /\ IsFiniteSet(result)

\* They are so at first, when they are empty.
LEMMA FiniteInit == Init => FiniteData
BY FS_EmptySet DEF Init, FiniteData, Idle

\* Each step adds finitely many rows.
LEMMA FiniteStep == IInv /\ FiniteData /\ [Next]_vars => FiniteData'
<1> SUFFICES ASSUME IInv, FiniteData, [Next]_vars PROVE FiniteData'
  OBVIOUS
<1> USE DEF environment
<1>1. CASE SubmitQueries \/ SourceQueryFails \/ TargetQueryFails
  BY <1>1, FS_EmptySet DEF SubmitQueries, SourceQueryFails, TargetQueryFails, SourceQuery,
                           TargetQuery, Pending, Failed, FiniteData
<1>2. CASE SourceQueryReturns \/ TargetQueryReturns
  <2>1. IsFiniteSet(Query(sourceTable)) /\ IsFiniteSet(Query(targetTable))
    BY QueryTyped DEF IInv, TypeOK
  <2> QED BY <1>2, <2>1 DEF SourceQueryReturns, TargetQueryReturns, SourceQuery, TargetQuery,
                            Done, FiniteData
<1>3. CASE CombineSlice
  <2> DEFINE report == GenerateReportSlice(sourceDf, targetDf, Slice(Columns, sliceStart))
  <2>1. IsFiniteSet(InSlice(sliceStart, report))
    <3>1. Slice(Columns, sliceStart) \in SUBSET Fields
      BY Prefixes DEF IInv, TypeOK
    <3>2. IsFiniteSet(report)
      BY <3>1, FiniteSlice DEF FiniteData, sourceDf, targetDf
    <3> HIDE DEF report
    <3> QED BY <3>2, FiniteInSlice
  <2>2. IsFiniteSet(result')
    BY <1>3, <2>1, FS_Union DEF CombineSlice, FiniteData
  <2> QED BY <1>3, <2>2 DEF CombineSlice, FiniteData
<1>4. CASE AddRandomRowFilter \/ RandomRowQueryFails \/ GatherResults \/ CombineSliceRaises
           \/ FinishReport \/ HandleResults \/ HandlerFails
  BY <1>4 DEF AddRandomRowFilter, RandomRowQueryFails, GatherResults, CombineSliceRaises,
              FinishReport, HandleResults, HandlerFails, FiniteData
<1>5. CASE Write
  BY <1>5, WriteChanges DEF IInv, FiniteData
<1>6. CASE UNCHANGED vars
  BY <1>6 DEF vars, FiniteData
<1> QED BY <1>1, <1>2, <1>3, <1>4, <1>5, <1>6 DEF Next, Execute, Terminated

\* Four sets without common members have as many as they have together.
LEMMA FourParts ==
  ASSUME NEW A, NEW B, NEW C, NEW D, IsFiniteSet(A), IsFiniteSet(B), IsFiniteSet(C),
         IsFiniteSet(D), A \cap B = {}, (A \cup B) \cap C = {}, (A \cup B \cup C) \cap D = {}
  PROVE  Cardinality(A \cup B \cup C \cup D) =
           Cardinality(A) + Cardinality(B) + Cardinality(C) + Cardinality(D)
<1>1. /\ IsFiniteSet(A \cup B)
      /\ Cardinality(A \cup B) = Cardinality(A) + Cardinality(B) - Cardinality(A \cap B)
  BY FS_Union
<1>2. /\ IsFiniteSet(A \cup B \cup C)
      /\ Cardinality(A \cup B \cup C) =
           Cardinality(A \cup B) + Cardinality(C) - Cardinality((A \cup B) \cap C)
  BY <1>1, FS_Union
<1>3. Cardinality(A \cup B \cup C \cup D) =
        Cardinality(A \cup B \cup C) + Cardinality(D) - Cardinality((A \cup B \cup C) \cap D)
  BY <1>2, FS_Union
<1>4. /\ Cardinality(A) \in Nat /\ Cardinality(B) \in Nat /\ Cardinality(C) \in Nat
      /\ Cardinality(D) \in Nat /\ Cardinality(A \cap B) = 0
      /\ Cardinality((A \cup B) \cap C) = 0 /\ Cardinality((A \cup B \cup C) \cap D) = 0
  BY FS_CardinalityType, FS_EmptySet
<1> QED BY <1>1, <1>2, <1>3, <1>4

\* The failed rows of the summary's three kinds, and those of one table's NULLs, are all
\* failed rows, none counted twice (_log_row_validation_summary).
THEOREM SummaryAdds == Spec => []SummaryAccountsForFailures
<1> DEFINE Unique(df) == \A r, q \in df : r.key = q.key => r = q
           OnOneSide(k) == (k \in KeysOf(sourceDf)) # (k \in KeysOf(targetDf))
           failures == {r \in result : r.validation_status # Success}
           inSource == {r \in failures : r.source_agg_value # NULL /\ ~(r.target_agg_value # NULL)}
           inTarget == {r \in failures : ~(r.source_agg_value # NULL) /\ r.target_agg_value # NULL}
           inBoth == {r \in failures : r.source_agg_value # NULL /\ r.target_agg_value # NULL}
           empty == {r \in result : /\ OnOneSide(r.key)
                                    /\ r.source_agg_value = NULL
                                    /\ r.target_agg_value = NULL}
<1>1. ASSUME IInv, FiniteData, pc = "handling", Unique(sourceDf), Unique(targetDf)
      PROVE  Cardinality(failures) = Cardinality(inSource) + Cardinality(inTarget)
                                     + Cardinality(inBoth) + Cardinality(empty)
  <2>1. ASSUME NEW row \in result, row.source_agg_value = NULL, row.target_agg_value = NULL
        PROVE  OnOneSide(row.key) <=> row.validation_status # Success
    <3>1. \A k : OnOneSide(k) <=> (At(sourceDf, k) = {}) # (At(targetDf, k) = {})
      BY DEF KeysOf, At
    <3>2. CASE LoneRow(row, sourceDf, targetDf)
      BY <3>1, <3>2 DEF LoneRow, Success, Fail
    <3>3. CASE PairRow(row, sourceDf, targetDf)
      <4>1. PICK a \in At(sourceDf, row.key), c \in At(sourceDf, row.key),
                 b \in At(targetDf, row.key), d \in At(targetDf, row.key) :
              /\ row.source_agg_value = a.val[row.field]
              /\ row.target_agg_value = b.val[row.field]
              /\ row.validation_status = CalculateDifference(c.val[row.field], d.val[row.field])
        BY <3>3 DEF PairRow
      <4>2. a = c /\ b = d
        BY <1>1, <4>1 DEF At
      <4>3. row.validation_status = Success
        BY <2>1, <4>1, <4>2 DEF CalculateDifference
      <4>4. ~OnOneSide(row.key)
        BY <3>1, <4>1
      <4> QED BY <4>3, <4>4
    <3>4. CASE KeyRow(row, sourceDf, targetDf)
      BY <3>1, <3>4 DEF KeyRow
    <3> QED BY <1>1, <3>2, <3>3, <3>4 DEF IInv, ReportSoFar, RowSays
  <2>2. failures = inSource \cup inTarget \cup inBoth \cup empty
    <3>1. \A r \in result : r \in failures <=> r \in inSource \cup inTarget \cup inBoth \cup empty
      <4> HIDE DEF OnOneSide
      <4> QED BY <2>1
    <3> QED BY <3>1
  <2>3. /\ inSource \cap inTarget = {} /\ (inSource \cup inTarget) \cap inBoth = {}
        /\ (inSource \cup inTarget \cup inBoth) \cap empty = {}
    OBVIOUS
  <2>4. /\ inSource \in SUBSET result /\ inTarget \in SUBSET result
        /\ inBoth \in SUBSET result /\ empty \in SUBSET result
    OBVIOUS
  <2> HIDE DEF failures, inSource, inTarget, inBoth, empty
  <2>5. /\ IsFiniteSet(inSource) /\ IsFiniteSet(inTarget)
        /\ IsFiniteSet(inBoth) /\ IsFiniteSet(empty)
    BY <1>1, <2>4, FS_Subset DEF FiniteData
  <2> QED BY <2>2, <2>3, <2>5, FourParts
<1>2. IInv /\ FiniteData => SummaryAccountsForFailures
  <2> DEFINE summary == RowValidationSummary(result)
  <2>1. /\ summary.fail = Cardinality(failures)
        /\ summary.sourceNotInTarget = Cardinality(inSource)
        /\ summary.targetNotInSource = Cardinality(inTarget)
        /\ summary.inBoth = Cardinality(inBoth)
    <3>1. /\ {r \in result : r.validation_status # Success /\ r.source_agg_value # NULL
                             /\ ~(r.target_agg_value # NULL)} = inSource
          /\ {r \in result : r.validation_status # Success /\ ~(r.source_agg_value # NULL)
                             /\ r.target_agg_value # NULL} = inTarget
          /\ {r \in result : r.validation_status # Success /\ r.source_agg_value # NULL
                             /\ r.target_agg_value # NULL} = inBoth
      OBVIOUS
    <3> QED BY <3>1 DEF RowValidationSummary, CountWhere
  <2> HIDE DEF summary, failures, inSource, inTarget, inBoth
  <2>2. IInv /\ FiniteData /\ pc = "handling" /\ Unique(sourceDf) /\ Unique(targetDf) =>
          summary.fail = summary.sourceNotInTarget + summary.targetNotInSource
                         + summary.inBoth + Cardinality(empty)
    BY <1>1, <2>1
  <2> QED BY <2>2 DEF SummaryAccountsForFailures, summary
<1>3. Init => IInv /\ FiniteData
  BY InitIInv, FiniteInit
<1>4. IInv /\ FiniteData /\ [Next]_vars => IInv' /\ FiniteData'
  BY TypeStep, PhasesStep, ReportStep, QuietStep, SampledStep, FiniteStep DEF IInv
<1> QED BY <1>2, <1>3, <1>4, PTL DEF Spec
=============================================================================
