-------------------------- MODULE BuildConfigProofs --------------------------
(***************************************************************************)
(* Proofs about BuildConfig, for any tables and arguments: that the two    *)
(* queries of a configuration agree, that they name no column twice, that  *)
(* aggregates are of their own columns, and that each column a row         *)
(* validation is asked for is compared once, in this order.  Each part has *)
(* first the lemmas on the operators of the configuration and the queries, *)
(* then an invariant and a lemma for each action.                          *)
(***************************************************************************)
EXTENDS BuildConfig, ListLemmas

Databases == {input.db : input \in Inputs}

-----------------------------------------------------------------------------
(* Tables and the names in them.                                           *)

\* The words of the code: prefixes of names, operations and what they are given.
Words ==
  Reserved \cup {"all", "none", "string", "uuid_string", "bool_string", "bool", "float64", "int64",
               "timestamp", "seconds", "days", "strftime"}

\* The parts of names, the digits of any number among them.
Parts == STRING \cup Words \cup {Numeral[n] : n \in Nat}

\* Names of calculated fields and aggregates.
Derived == {n \in Seq(Parts) : n # <<>> /\ n[1] \in Reserved}

\* The names of the columns of a table.
NamesOf(side) == {side.columns[i].name : i \in DOMAIN side.columns}

\* Names that mean the same on both sides: those of columns with the same key, and that of a
\* calculated field; or one that means nothing in the target.
Pair(d, a, b) ==
  \/ \E i \in DOMAIN d.source.columns, j \in DOMAIN d.target.columns :
       /\ d.source.columns[i].name = a /\ d.target.columns[j].name = b
       /\ d.source.columns[i].key = d.target.columns[j].key
  \/ a = b /\ a \in Derived
  \/ b \in ColumnName \ NamesOf(d.target)

\* What the assumption on tables says of one side.
LEMMA TableOf ==
  ASSUME NEW d \in Databases, NEW s \in Sides
  PROVE  /\ d[s] \in [client : STRING, columns : Seq(TableColumn), primary : Seq(Seq(STRING))]
         /\ Len(d[s].columns) \in Nat \ {0} /\ DOMAIN d[s].columns = 1..Len(d[s].columns)
         /\ \A i \in DOMAIN d[s].columns :
              /\ d[s].columns[i] \in TableColumn
              /\ d[s].columns[i].key \in ColumnName /\ d[s].columns[i].name \in ColumnName
              /\ i - 1 \in DOMAIN Numeral
         /\ \A i, j \in DOMAIN d[s].columns :
              \/ d[s].columns[i].key = d[s].columns[j].key
              \/ d[s].columns[i].name = d[s].columns[j].name
              => i = j
         /\ IsInjective(d[s].primary)
<1>1. IsTable(d[s])
  BY TablesAssumption DEF Databases
<1>2. d[s].columns \in Seq(TableColumn) /\ d[s].columns # <<>>
  BY <1>1 DEF IsTable
<1>3. Len(d[s].columns) \in Nat \ {0} /\ DOMAIN d[s].columns = 1..Len(d[s].columns)
  BY <1>2
<1>4. \A i \in DOMAIN d[s].columns : d[s].columns[i] \in TableColumn
  BY <1>2
<1>5. \A i, j \in DOMAIN d[s].columns :
        \/ d[s].columns[i].key = d[s].columns[j].key
        \/ d[s].columns[i].name = d[s].columns[j].name
        => i = j
  BY <1>1 DEF IsTable, Keys, IsInjective
<1>6. \A i \in DOMAIN d[s].columns : i - 1 \in DOMAIN Numeral
  BY <1>1 DEF IsTable
<1> QED BY <1>1, <1>3, <1>4, <1>5, <1>6 DEF IsTable, TableColumn

\* A key that a table has is that of one of its columns.
LEMMA ColumnOfKey ==
  ASSUME NEW d \in Databases, NEW s \in Sides, NEW key, Has(d[s], key)
  PROVE  /\ \E i \in DOMAIN d[s].columns :
              ColumnOf(d[s], key) = d[s].columns[i] /\ d[s].columns[i].key = key
         /\ ColumnOf(d[s], key) \in TableColumn /\ ColumnOf(d[s], key).key = key
<1> DEFINE i == CHOOSE i \in DOMAIN d[s].columns : d[s].columns[i].key = key
<1>1. i \in DOMAIN d[s].columns /\ d[s].columns[i].key = key
  BY DEF Has
<1>2. ColumnOf(d[s], key) = d[s].columns[i]
  BY DEF ColumnOf
<1> HIDE DEF i
<1> QED BY <1>1, <1>2, TableOf

\* What a name means in a table.
LEMMA TableEnvOf ==
  ASSUME NEW d \in Databases, NEW s \in Sides, NEW i \in DOMAIN d[s].columns
  PROVE  /\ d[s].columns[i].name \in DOMAIN TableEnv(d[s])
         /\ TableEnv(d[s])[d[s].columns[i].name] = Column(d[s].columns[i].key)
<1> DEFINE n == d[s].columns[i].name
           j == CHOOSE j \in DOMAIN d[s].columns : d[s].columns[j].name = n
<1>1. j \in DOMAIN d[s].columns /\ d[s].columns[j].name = n
  OBVIOUS
<1>2. j = i
  <2> HIDE DEF j
  <2> QED BY <1>1, TableOf
<1>3. n \in DOMAIN TableEnv(d[s]) /\ TableEnv(d[s])[n] = Column(d[s].columns[j].key)
  BY DEF TableEnv
<1> QED BY <1>2, <1>3

\* A neutral table differs in types only.
LEMMA NeutralTable ==
  ASSUME NEW d \in Databases, NEW s \in Sides
  PROVE  /\ DOMAIN Neutral(d[s]).columns = DOMAIN d[s].columns
         /\ \A i \in DOMAIN d[s].columns :
              LET c == Neutral(d[s]).columns[i]
              IN  /\ c.key = d[s].columns[i].key /\ c.name = d[s].columns[i].name
                  /\ c.raw = "none"
                  /\ c.type = IF d[s].columns[i].type = "date" THEN "timestamp"
                              ELSE d[s].columns[i].type
         /\ TableEnv(Neutral(d[s])) = TableEnv(d[s])
<1> DEFINE side == d[s]
           N == [i \in DOMAIN side.columns |-> [side.columns[i] EXCEPT
                   !.raw = "none", !.type = IF side.columns[i].type = "date" THEN "timestamp"
                                            ELSE side.columns[i].type]]
           M == Neutral(side)
<1>1. side \in [client : STRING, columns : Seq(TableColumn), primary : Seq(Seq(STRING))]
  BY TableOf
<1>3. \A i \in DOMAIN side.columns : side.columns[i] \in TableColumn
  BY TableOf
<1> HIDE DEF side
<1>2. M.columns = N
  <2>1. M = [side EXCEPT !.columns = N]
    BY DEF Neutral
  <2> HIDE DEF N, M
  <2> QED BY <1>1, <2>1
<1> HIDE DEF M
<1>4. ASSUME NEW i \in DOMAIN side.columns
      PROVE  /\ N[i].key = side.columns[i].key /\ N[i].name = side.columns[i].name
             /\ N[i].raw = "none"
             /\ N[i].type = IF side.columns[i].type = "date" THEN "timestamp"
                            ELSE side.columns[i].type
  <2>1. N[i] = [side.columns[i] EXCEPT
                  !.raw = "none", !.type = IF side.columns[i].type = "date" THEN "timestamp"
                                           ELSE side.columns[i].type]
    OBVIOUS
  <2> QED BY <1>3, <2>1 DEF TableColumn
<1>5. DOMAIN N = DOMAIN side.columns
  OBVIOUS
<1> HIDE DEF N
<1>6. TableEnv(M) = TableEnv(side)
  <2>1. \A i \in DOMAIN side.columns : N[i].key = side.columns[i].key
                                    /\ N[i].name = side.columns[i].name
    BY <1>4
  <2> DEFINE At(n) == CHOOSE i \in DOMAIN side.columns : side.columns[i].name = n
             NAt(n) == CHOOSE i \in DOMAIN N : N[i].name = n
             names == {side.columns[i].name : i \in DOMAIN side.columns}
  <2>2. {N[i].name : i \in DOMAIN N} = names
    BY <1>5, <2>1
  <2>3. ASSUME NEW n \in names PROVE N[NAt(n)].key = side.columns[At(n)].key
    <3>1. \A i : i \in DOMAIN N /\ N[i].name = n <=> i \in DOMAIN side.columns
                                                     /\ side.columns[i].name = n
      BY <1>5, <2>1
    <3>2. NAt(n) = At(n)
      BY <3>1, <1>5
    <3>3. At(n) \in DOMAIN side.columns
      OBVIOUS
    <3> QED BY <2>1, <3>2, <3>3
  <2>4. TableEnv(side) = [n \in names |-> Column(side.columns[At(n)].key)]
    BY DEF TableEnv
  <2>5. TableEnv(M) = [n \in {N[i].name : i \in DOMAIN N} |-> Column(N[NAt(n)].key)]
    BY <1>2 DEF TableEnv
  <2>6. TableEnv(M) = [n \in names |-> Column(N[NAt(n)].key)]
    BY <2>2, <2>5
  <2> HIDE DEF At, NAt, names
  <2> QED BY <2>3, <2>4, <2>6
<1> QED BY <1>2, <1>4, <1>5, <1>6 DEF side, M

-----------------------------------------------------------------------------
(* The table with the calculated fields, depth after depth.                *)

Depths == 0..8

\* e has the tables after the fields of each depth.
EnvSteps(e, side, s, fields) ==
  /\ e[0] = TableEnv(side)
  /\ \A n \in 0..DepthLimit(fields) :
       e[n + 1] = AfterDepth(side, s, e[n], AtDepth(fields, n))
  /\ CalculatedEnv(side, s, fields) = e[DepthLimit(fields) + 1]

\* There is a last depth.
LEMMA DepthIsBounded ==
  ASSUME NEW fields, \A f \in fields : f.depth \in Depths
  PROVE  DepthLimit(fields) \in Nat
<1> DEFINE S == {0} \cup {f.depth : f \in fields}
<1>1. S \in SUBSET (0..8) /\ S # {}
  BY DEF Depths
<1> HIDE DEF S
<1>2. Max(S) \in 0..8
  BY <1>1, LargestNumber
<1> QED BY <1>2 DEF DepthLimit, S

\* The recursion of CalculatedEnv has a value at every depth.
LEMMA EnvOf ==
  ASSUME NEW side, NEW s, NEW fields, \A f \in fields : f.depth \in Depths
  PROVE  \E e : EnvSteps(e, side, s, fields)
<1> DEFINE N == DepthLimit(fields) + 1
           B(x, n) == AfterDepth(side, s, x, AtDepth(fields, n))
           Goes(g, m) == g = [n \in 0..m |-> IF n = 0 THEN TableEnv(side) ELSE B(g[n - 1], n - 1)]
           P(m) == \E g : Goes(g, m)
           e == CHOOSE g : Goes(g, N)
<1>1. N \in Nat
  BY DepthIsBounded
<1>2. CalculatedEnv(side, s, fields) = e[N]
  BY DEF CalculatedEnv
<1> HIDE DEF N, B
<1>3. P(0)
  <2> DEFINE g == [n \in 0..0 |-> TableEnv(side)]
  <2>1. \A n \in 0..0 : n = 0
    OBVIOUS
  <2>2. g = [n \in 0..0 |-> IF n = 0 THEN TableEnv(side) ELSE B(g[n - 1], n - 1)]
    BY <2>1
  <2> QED BY <2>2
<1>4. ASSUME NEW m \in Nat, P(m) PROVE P(m + 1)
  <2>1. PICK g : Goes(g, m)
    BY <1>4
  <2> DEFINE h == [n \in 0..(m + 1) |-> IF n = m + 1 THEN B(g[m], m) ELSE g[n]]
  <2>2. ASSUME NEW n \in 0..(m + 1)
        PROVE  h[n] = IF n = 0 THEN TableEnv(side) ELSE B(h[n - 1], n - 1)
    <3>1. CASE n = m + 1
      <4>1. m \in 0..(m + 1) /\ m # m + 1 /\ n # 0 /\ n - 1 = m
        BY <3>1
      <4> QED BY <3>1, <4>1
    <3>2. CASE n # m + 1
      <4>1. n \in 0..m /\ h[n] = g[n]
        BY <3>2
      <4>2. g[n] = IF n = 0 THEN TableEnv(side) ELSE B(g[n - 1], n - 1)
        BY <2>1, <4>1
      <4>3. n # 0 => n - 1 \in 0..(m + 1) /\ n - 1 # m + 1
        BY <4>1
      <4>4. n # 0 => h[n - 1] = g[n - 1]
        BY <4>3
      <4> HIDE DEF h
      <4> QED BY <4>1, <4>2, <4>4
    <3> QED BY <3>1, <3>2
  <2>3. h = [n \in 0..(m + 1) |-> h[n]]
    OBVIOUS
  <2> HIDE DEF h
  <2>4. Goes(h, m + 1)
    BY <2>2, <2>3
  <2> QED BY <2>4
<1> HIDE DEF P
<1>5. P(N)
  <2> DEFINE Good == {m \in 0..N : P(m)}
  <2>1. 0 \in Good
    BY <1>1, <1>3
  <2>2. \A m \in 1..N : m - 1 \in Good => m \in Good
    <3>1. ASSUME NEW m \in 1..N, P(m - 1) PROVE P(m)
      <4>1. m - 1 \in Nat /\ (m - 1) + 1 = m
        BY <1>1
      <4>2. P((m - 1) + 1)
        BY <1>4, <3>1, <4>1
      <4> QED BY <4>1, <4>2
    <3> QED BY <3>1
  <2> HIDE DEF Good
  <2>3. N \in Good
    BY <1>1, <2>1, <2>2, UpTo
  <2> QED BY <2>3 DEF Good
<1>6. Goes(e, N)
  BY <1>5 DEF P
<1> HIDE DEF e
<1>7. e[0] = TableEnv(side)
  BY <1>1, <1>6
<1>8. ASSUME NEW n \in 0..DepthLimit(fields) PROVE e[n + 1] = B(e[n], n)
  <2>1. n + 1 \in 0..N /\ n + 1 # 0 /\ (n + 1) - 1 = n
    BY <1>1, DepthIsBounded DEF N
  <2> QED BY <1>6, <2>1
<1> QED BY <1>2, <1>7, <1>8 DEF EnvSteps, N, B

-----------------------------------------------------------------------------
(* Names that mean the same on both sides stand for the same expressions.  *)

\* A calculated field as the code makes it.
GoodField(d, f) ==
  /\ f.depth \in Depths /\ f.alias \in Derived
  /\ DOMAIN f.source = DOMAIN f.target
  /\ \A i \in DOMAIN f.source : Pair(d, f.source[i], f.target[i])

FieldSet(d) ==
  {f \in [source : Seq(Seq(Parts)), target : Seq(Seq(Parts)), op : Words, param : Words,
          alias : Seq(Parts), depth : Nat] : GoodField(d, f)}

\* Two tables of the two sides in which names that mean the same do so.
Agree(d, e, f) ==
  /\ DOMAIN f \subseteq NamesOf(d.target) \cup Derived
  /\ \A a \in DOMAIN e, b \in DOMAIN f : Pair(d, a, b) => e[a] = f[b]

\* No column is named like a calculated field.
LEMMA NamesAreNotDerived ==
  ASSUME NEW d \in Databases, NEW s \in Sides
  PROVE  NamesOf(d[s]) \subseteq ColumnName /\ ColumnName \cap Derived = {}
<1>1. NamesOf(d[s]) \subseteq ColumnName
  BY TableOf DEF NamesOf
<1>2. \A n : n \in ColumnName => n[1] \notin Reserved
  BY DEF ColumnName
<1>3. \A n : n \in Derived => n[1] \in Reserved
  BY DEF Derived
<1> QED BY <1>1, <1>2, <1>3

\* There are two sides.
LEMMA SidesAre == Sides = {"source", "target"} /\ "source" \in Sides /\ "target" \in Sides
BY DEF Sides

\* No column of a neutral side is padded.
LEMMA NotPadded ==
  ASSUME NEW d \in Databases, NEW s \in Sides, NEW key
  PROVE  ~IsPaddedChar(Neutral(d[s]), key)
<1> DEFINE N == Neutral(d[s])
<1>1. \A i \in DOMAIN N.columns : N.columns[i].raw = "none"
  BY NeutralTable
<1> HIDE DEF N
<1>2. ASSUME Has(N, key) PROVE ColumnOf(N, key).raw = "none"
  <2> DEFINE i == CHOOSE i \in DOMAIN N.columns : N.columns[i].key = key
  <2>1. i \in DOMAIN N.columns
    BY <1>2 DEF Has
  <2>2. ColumnOf(N, key) = N.columns[i]
    BY DEF ColumnOf
  <2> HIDE DEF i
  <2> QED BY <1>1, <2>1, <2>2
<1>3. ~IsPaddedChar(N, key)
  BY <1>2, PaddedTypesAssumption DEF IsPaddedChar, RawOf
<1> QED BY <1>3 DEF N

\* A neutral side computes a field in no way of its own.
LEMMA NeutralOp ==
  ASSUME NEW d \in Databases, NEW s \in Sides, NEW f, NEW names
  PROVE  CalcOp(Neutral(d[s]), f, names) = f.op
BY NotPadded DEF CalcOp

\* The tables before any field agree.
LEMMA TablesAgree ==
  ASSUME NEW d \in Databases
  PROVE  Agree(d, TableEnv(Neutral(d.source)), TableEnv(Neutral(d.target)))
<1> DEFINE e == TableEnv(Neutral(d.source))
           f == TableEnv(Neutral(d.target))
<1>1. e = TableEnv(d["source"]) /\ f = TableEnv(d["target"])
  BY NeutralTable, SidesAre
<1>2. DOMAIN e = NamesOf(d.source) /\ DOMAIN f = NamesOf(d.target)
  BY <1>1 DEF TableEnv, NamesOf
<1>3. /\ \A i \in DOMAIN d.source.columns :
           e[d.source.columns[i].name] = Column(d.source.columns[i].key)
      /\ \A i \in DOMAIN d.target.columns :
           f[d.target.columns[i].name] = Column(d.target.columns[i].key)
  BY <1>1, TableEnvOf, SidesAre
<1>4. NamesOf(d.source) \cap Derived = {}
  BY NamesAreNotDerived, SidesAre
<1> HIDE DEF e, f
<1>5. ASSUME NEW a \in DOMAIN e, NEW b \in DOMAIN f, Pair(d, a, b) PROVE e[a] = f[b]
  <2>1. PICK i \in DOMAIN d.source.columns, j \in DOMAIN d.target.columns :
          /\ d.source.columns[i].name = a /\ d.target.columns[j].name = b
          /\ d.source.columns[i].key = d.target.columns[j].key
    BY <1>2, <1>4, <1>5 DEF Pair
  <2>2. e[a] = Column(d.source.columns[i].key) /\ f[b] = Column(d.target.columns[j].key)
    BY <1>3, <2>1
  <2> QED BY <2>1, <2>2
<1> QED BY <1>2, <1>5 DEF Agree, e, f

\* A field is the same expression on both sides.
LEMMA FieldsAgree ==
  ASSUME NEW d \in Databases, NEW e, NEW f, Agree(d, e, f), NEW x, GoodField(d, x),
         ToSet(x.source) \subseteq DOMAIN e, ToSet(x.target) \subseteq DOMAIN f
  PROVE  CalcExpr(Neutral(d.source), e, x, x.source) = CalcExpr(Neutral(d.target), f, x, x.target)
<1> DEFINE Of(env, name) == IF x.op = "concat" THEN Cast(env[name], "string") ELSE env[name]
           as == [i \in DOMAIN x.source |-> Of(e, x.source[i])]
           bs == [i \in DOMAIN x.target |-> Of(f, x.target[i])]
<1>1. \A i \in DOMAIN x.source : e[x.source[i]] = f[x.target[i]]
  BY DEF GoodField, Agree, ToSet
<1>2. DOMAIN x.source = DOMAIN x.target
  BY DEF GoodField
<1>3. as = bs
  BY <1>1, <1>2
<1>4. CalcOp(Neutral(d.source), x, x.source) = x.op /\ CalcOp(Neutral(d.target), x, x.target) = x.op
  BY NeutralOp, SidesAre
<1>5. /\ CalcExpr(Neutral(d.source), e, x, x.source) = Apply(x.op, x.param, as)
      /\ CalcExpr(Neutral(d.target), f, x, x.target) = Apply(x.op, x.param, bs)
  BY <1>4 DEF CalcExpr
<1> QED BY <1>3, <1>5

\* Tables agree after the fields of one depth if they did before them.
LEMMA MutateAgrees ==
  ASSUME NEW d \in Databases, NEW e, NEW f, Agree(d, e, f),
         NEW fields, \A x \in fields : GoodField(d, x),
         FieldsResolve("source", e, fields), FieldsResolve("target", f, fields)
  PROVE  Agree(d, Mutate(Neutral(d.source), "source", e, fields),
                  Mutate(Neutral(d.target), "target", f, fields))
<1> DEFINE S == Neutral(d.source)
           T == Neutral(d.target)
           new == {x.alias : x \in fields}
           Named(a) == CHOOSE x \in fields : x.alias = a
           g == Mutate(S, "source", e, fields)
           h == Mutate(T, "target", f, fields)
<1>1. new \subseteq Derived
  BY DEF GoodField
<1>2. g = [a \in new \cup DOMAIN e |->
             IF a \in new THEN CalcExpr(S, e, Named(a), Named(a).source) ELSE e[a]]
  BY DEF Mutate
<1>3. h = [a \in new \cup DOMAIN f |->
             IF a \in new THEN CalcExpr(T, f, Named(a), Named(a).target) ELSE f[a]]
  BY DEF Mutate
<1>4. ASSUME NEW a \in new
      PROVE  CalcExpr(S, e, Named(a), Named(a).source) = CalcExpr(T, f, Named(a), Named(a).target)
  <2>1. Named(a) \in fields
    OBVIOUS
  <2> HIDE DEF Named
  <2>2. ToSet(Named(a).source) \subseteq DOMAIN e /\ ToSet(Named(a).target) \subseteq DOMAIN f
    BY <2>1 DEF FieldsResolve
  <2> QED BY <2>1, <2>2, FieldsAgree
<1>5. NamesOf(d.source) \cap Derived = {} /\ NamesOf(d.target) \cap Derived = {}
      /\ ColumnName \cap Derived = {}
  BY NamesAreNotDerived, SidesAre
<1> HIDE DEF g, h, new, Named
<1>6. DOMAIN h \subseteq NamesOf(d.target) \cup Derived
  BY <1>1, <1>3 DEF Agree
<1>7. ASSUME NEW a \in DOMAIN g, NEW b \in DOMAIN h, Pair(d, a, b) PROVE g[a] = h[b]
  <2>1. CASE a \in new \/ b \in new
    <3>1. a = b
      <4>1. a \in Derived \/ b \in Derived
        BY <1>1, <2>1
      <4>2. ~ \E i \in DOMAIN d.source.columns, j \in DOMAIN d.target.columns :
                 d.source.columns[i].name = a /\ d.target.columns[j].name = b
        BY <1>5, <4>1 DEF NamesOf
      <4>3. b \notin ColumnName \ NamesOf(d.target)
        BY <1>5, <1>6
      <4> QED BY <1>7, <4>2, <4>3 DEF Pair
    <3> QED BY <1>2, <1>3, <1>4, <2>1, <3>1
  <2>2. CASE a \notin new /\ b \notin new
    <3>1. a \in DOMAIN e /\ b \in DOMAIN f /\ g[a] = e[a] /\ h[b] = f[b]
      BY <1>2, <1>3, <2>2
    <3> QED BY <1>7, <3>1 DEF Agree
  <2> QED BY <2>1, <2>2
<1> QED BY <1>6, <1>7 DEF Agree, g, h

\* A set that contains the first number and with each number the next contains all.
LEMMA AllDepths ==
  ASSUME NEW N \in Nat, NEW Good, 0 \in Good, \A n \in 0..N : n \in Good => n + 1 \in Good
  PROVE  N + 1 \in Good
<1>1. \A i \in 1..(N + 1) : i - 1 \in Good => i \in Good
  <2>1. \A i \in 1..(N + 1) : i - 1 \in 0..N /\ (i - 1) + 1 = i
    OBVIOUS
  <2> QED BY <2>1
<1>2. N + 1 \in Nat /\ N + 1 \in 0..(N + 1)
  OBVIOUS
<1> QED BY <1>1, <1>2, UpTo

\* Calculated fields as the code makes them.
GoodFields(d, fields) == fields \subseteq FieldSet(d)

\* The empty table of what does not compile.
LEMMA NoTable == DOMAIN <<>> = {}
OBVIOUS

\* The tables with all fields agree, if both compile.
LEMMA EnvsAgree ==
  ASSUME NEW d \in Databases, NEW fields, GoodFields(d, fields),
         DOMAIN CalculatedEnv(Neutral(d.source), "source", fields) # {},
         DOMAIN CalculatedEnv(Neutral(d.target), "target", fields) # {}
  PROVE  Agree(d, CalculatedEnv(Neutral(d.source), "source", fields),
                  CalculatedEnv(Neutral(d.target), "target", fields))
<1> DEFINE S == Neutral(d.source)
           T == Neutral(d.target)
           N == DepthLimit(fields)
<1>1. \A x \in fields : x.depth \in Depths
  BY DEF GoodFields, FieldSet, GoodField
<1>2. N \in Nat
  BY <1>1, DepthIsBounded
<1>3. PICK e : EnvSteps(e, S, "source", fields)
  BY <1>1, EnvOf
<1>4. PICK f : EnvSteps(f, T, "target", fields)
  BY <1>1, EnvOf
<1> DEFINE Good == {n \in 0..(N + 1) :
                      DOMAIN e[n] # {} /\ DOMAIN f[n] # {} => Agree(d, e[n], f[n])}
<1>5. 0 \in Good
  <2>1. e[0] = TableEnv(S) /\ f[0] = TableEnv(T)
    BY <1>3, <1>4 DEF EnvSteps
  <2>2. 0 \in 0..(N + 1)
    BY <1>2
  <2> QED BY <2>1, <2>2, TablesAgree
<1>6. ASSUME NEW n \in 0..N, n \in Good PROVE n + 1 \in Good
  <2> DEFINE at == AtDepth(fields, n)
  <2>1. /\ e[n + 1] = AfterDepth(S, "source", e[n], at)
        /\ f[n + 1] = AfterDepth(T, "target", f[n], at)
    BY <1>3, <1>4 DEF EnvSteps
  <2>2. \A x \in at : GoodField(d, x)
    BY DEF AtDepth, GoodFields, FieldSet
  <2> HIDE DEF at
  <2>3. n + 1 \in 0..(N + 1)
    BY <1>2
  <2>4. ASSUME DOMAIN e[n + 1] # {}, DOMAIN f[n + 1] # {} PROVE Agree(d, e[n + 1], f[n + 1])
    <3>1. /\ DOMAIN e[n] # {} /\ FieldsResolve("source", e[n], at)
          /\ e[n + 1] = Mutate(S, "source", e[n], at)
      BY <2>1, <2>4, NoTable DEF AfterDepth
    <3>2. /\ DOMAIN f[n] # {} /\ FieldsResolve("target", f[n], at)
          /\ f[n + 1] = Mutate(T, "target", f[n], at)
      BY <2>1, <2>4, NoTable DEF AfterDepth
    <3>3. Agree(d, e[n], f[n])
      BY <1>6, <3>1, <3>2
    <3> QED BY <2>2, <3>1, <3>2, <3>3, MutateAgrees
  <2> QED BY <2>3, <2>4
<1> HIDE DEF Good, N, S, T
<1>7. N + 1 \in Good
  BY <1>2, <1>5, <1>6, AllDepths
<1>8. /\ CalculatedEnv(S, "source", fields) = e[N + 1]
      /\ CalculatedEnv(T, "target", fields) = f[N + 1]
  BY <1>3, <1>4 DEF EnvSteps, N
<1> QED BY <1>7, <1>8 DEF Good, S, T

\* The names of a neutral table, with all fields, are those of the table.
LEMMA NeutralNames ==
  ASSUME NEW d \in Databases, NEW s \in Sides, NEW fields, GoodFields(d, fields)
  PROVE  DOMAIN CalculatedEnv(Neutral(d[s]), s, fields) = DOMAIN CalculatedEnv(d[s], s, fields)
<1> DEFINE M == Neutral(d[s])
           side == d[s]
           N == DepthLimit(fields)
<1>1. \A x \in fields : x.depth \in Depths
  BY DEF GoodFields, FieldSet, GoodField
<1>2. N \in Nat
  BY <1>1, DepthIsBounded
<1>3. PICK e : EnvSteps(e, M, s, fields)
  BY <1>1, EnvOf
<1>4. PICK f : EnvSteps(f, side, s, fields)
  BY <1>1, EnvOf
<1> DEFINE Good == {n \in 0..(N + 1) : DOMAIN e[n] = DOMAIN f[n]}
<1>5. 0 \in Good
  <2>1. e[0] = TableEnv(M) /\ f[0] = TableEnv(side)
    BY <1>3, <1>4 DEF EnvSteps
  <2>2. 0 \in 0..(N + 1)
    BY <1>2
  <2>3. TableEnv(M) = TableEnv(side)
    BY NeutralTable
  <2> QED BY <2>1, <2>2, <2>3
<1>6. ASSUME NEW n \in 0..N, n \in Good PROVE n + 1 \in Good
  <2> DEFINE at == AtDepth(fields, n)
  <2>1. e[n + 1] = AfterDepth(M, s, e[n], at) /\ f[n + 1] = AfterDepth(side, s, f[n], at)
    BY <1>3, <1>4 DEF EnvSteps
  <2> HIDE DEF at
  <2>2. n + 1 \in 0..(N + 1)
    BY <1>2
  <2>3. DOMAIN e[n] = DOMAIN f[n]
    BY <1>6
  <2>4. FieldsResolve(s, e[n], at) <=> FieldsResolve(s, f[n], at)
    BY <2>3 DEF FieldsResolve
  <2>5. DOMAIN Mutate(M, s, e[n], at) = DOMAIN Mutate(side, s, f[n], at)
    BY <2>3 DEF Mutate
  <2>6. DOMAIN e[n + 1] = DOMAIN f[n + 1]
    BY <2>1, <2>3, <2>4, <2>5 DEF AfterDepth
  <2> QED BY <2>2, <2>6
<1> HIDE DEF Good, N, M, side
<1>7. N + 1 \in Good
  BY <1>2, <1>5, <1>6, AllDepths
<1>8. CalculatedEnv(M, s, fields) = e[N + 1] /\ CalculatedEnv(side, s, fields) = f[N + 1]
  BY <1>3, <1>4 DEF EnvSteps, N
<1> QED BY <1>7, <1>8 DEF Good, M, side

-----------------------------------------------------------------------------
(* The queries of a configuration.                                         *)

\* References to columns of both sides.
Refs == [source : Seq(Parts), target : Seq(Parts), alias : Seq(Parts), cast : Words]

\* References to what means the same on both sides.
GoodRefs(d) ==
  {r \in Refs : r.source # <<>> /\ r.target # <<>> /\ Pair(d, r.source, r.target)}

\* Aggregates of what means the same on both sides, or of rows.
GoodAggregates(d) ==
  {agg \in [type : AggregateTypes, ref : Refs] :
     \/ agg.ref \in GoodRefs(d)
     \/ agg.ref.source = <<>> /\ agg.ref.target = <<>>}

\* Configurations of what means the same on both sides.
ConfigSet(d) ==
  [columns : ColumnLists, calculated : SUBSET FieldSet(d), primary : Seq(GoodRefs(d)),
   comparison : Seq(GoodRefs(d)), groups : Seq(GoodRefs(d)), aggregates : Seq(GoodAggregates(d))]

\* A configuration as the code makes it, for the tables d and the arguments a.
GoodConfig(d, a, c) ==
  /\ c \in ConfigSet(d)
  /\ c.groups \in {<<>>, ColumnConfigs(d, a.groups)}
  /\ c.groups # <<>> => ~MissingColumn(d, a.groups)

\* The elements of two lists one after the other.
LEMMA ConcatElements ==
  ASSUME NEW S, NEW s \in Seq(S), NEW t \in Seq(S)
  PROVE  s \o t \in Seq(S) /\ ToSet(s \o t) = ToSet(s) \cup ToSet(t)
<1>1. /\ DOMAIN s = 1..Len(s) /\ DOMAIN t = 1..Len(t) /\ DOMAIN (s \o t) = 1..(Len(s) + Len(t))
      /\ Len(s) \in Nat /\ Len(t) \in Nat /\ s \o t \in Seq(S)
  OBVIOUS
<1>2. /\ \A i \in 1..Len(s) : (s \o t)[i] = s[i]
      /\ \A i \in 1..Len(t) : (s \o t)[i + Len(s)] = t[i]
  OBVIOUS
<1>3. \A i \in 1..(Len(s) + Len(t)) : i \in 1..Len(s) \/ i - Len(s) \in 1..Len(t)
  BY <1>1
<1>4. /\ \A i \in 1..Len(s) : i \in 1..(Len(s) + Len(t))
      /\ \A i \in 1..Len(t) : i + Len(s) \in 1..(Len(s) + Len(t))
  BY <1>1
<1> DEFINE u == s \o t
           m == Len(s)
           n == Len(t)
<1> HIDE DEF u, m, n
<1>5. ToSet(s) \cup ToSet(t) \subseteq ToSet(u)
  BY <1>1, <1>2, <1>4 DEF ToSet, u
<1>6. ASSUME NEW i \in DOMAIN u PROVE u[i] \in ToSet(s) \cup ToSet(t)
  <2>1. CASE i \in 1..Len(s)
    BY <1>1, <1>2, <2>1 DEF ToSet, u
  <2>2. CASE i - Len(s) \in 1..Len(t)
    <3>1. i = (i - Len(s)) + Len(s)
      BY <1>1 DEF u
    <3>2. u[i] = t[i - Len(s)]
      BY <1>2, <2>2, <3>1 DEF u
    <3> QED BY <1>1, <2>2, <3>2 DEF ToSet
  <2> QED BY <1>1, <1>3, <2>1, <2>2 DEF u
<1>7. ToSet(u) \subseteq ToSet(s) \cup ToSet(t)
  BY <1>6 DEF ToSet
<1> QED BY <1>1, <1>5, <1>7 DEF u

\* Everything a configuration that compiles refers to is in its table.
LEMMA CompiledRefs ==
  ASSUME NEW d \in Databases, NEW a, NEW c, GoodConfig(d, a, c), NEW s \in Sides,
         Compiles(d[s], s, c)
  PROVE  LET names == DOMAIN CalculatedEnv(d[s], s, c.calculated)
         IN  /\ names # {}
             /\ \A i \in DOMAIN c.comparison : c.comparison[i][s] \in names
             /\ \A i \in DOMAIN c.primary : c.primary[i][s] \in names
             /\ \A i \in DOMAIN c.groups : c.groups[i][s] \in names
             /\ \A i \in DOMAIN c.aggregates :
                  c.aggregates[i].ref[s] = <<>> \/ c.aggregates[i].ref[s] \in names
<1> DEFINE names == DOMAIN CalculatedEnv(d[s], s, c.calculated)
           aggs == [i \in DOMAIN c.aggregates |-> c.aggregates[i].ref]
           refs == References(c)
<1>1. names # {} /\ \A i \in DOMAIN refs : refs[i][s] = <<>> \/ refs[i][s] \in names
  BY DEF Compiles
<1>2. \A r \in GoodRefs(d) : r \in Refs /\ r[s] # <<>>
  BY DEF GoodRefs, Sides
<1>3. /\ c.comparison \in Seq(GoodRefs(d)) /\ c.primary \in Seq(GoodRefs(d))
      /\ c.groups \in Seq(GoodRefs(d)) /\ c.aggregates \in Seq(GoodAggregates(d))
  BY DEF GoodConfig, ConfigSet, GoodFields
<1>4. /\ c.comparison \in Seq(Refs) /\ c.primary \in Seq(Refs) /\ c.groups \in Seq(Refs)
  BY <1>2, <1>3
<1>5. aggs \in Seq(Refs)
  <2>1. \A g \in GoodAggregates(d) : g.ref \in Refs
    BY DEF GoodAggregates
  <2> QED BY <1>3, <2>1, SMTT(30)
<1>6. refs = ((c.comparison \o c.primary) \o c.groups) \o aggs
  BY DEF References
<1> HIDE DEF names, refs, aggs
<1>7. ToSet(refs) = ToSet(c.comparison) \cup ToSet(c.primary) \cup ToSet(c.groups) \cup ToSet(aggs)
  <2> DEFINE u == c.comparison \o c.primary
  <2>1. u \in Seq(Refs) /\ ToSet(u) = ToSet(c.comparison) \cup ToSet(c.primary)
    BY <1>4, ConcatElements
  <2> HIDE DEF u
  <2> DEFINE v == u \o c.groups
  <2>2. v \in Seq(Refs) /\ ToSet(v) = ToSet(u) \cup ToSet(c.groups)
    BY <1>4, <2>1, ConcatElements
  <2> HIDE DEF v
  <2>3. ToSet(v \o aggs) = ToSet(v) \cup ToSet(aggs)
    BY <1>5, <2>2, ConcatElements
  <2> QED BY <1>6, <2>1, <2>2, <2>3 DEF u, v
<1>8. \A r \in ToSet(refs) : r[s] = <<>> \/ r[s] \in names
  BY <1>1 DEF ToSet
<1>9. /\ \A i \in DOMAIN c.comparison : c.comparison[i] \in ToSet(refs)
      /\ \A i \in DOMAIN c.primary : c.primary[i] \in ToSet(refs)
      /\ \A i \in DOMAIN c.groups : c.groups[i] \in ToSet(refs)
  BY <1>7 DEF ToSet
<1>10. \A i \in DOMAIN c.aggregates : c.aggregates[i].ref \in ToSet(refs)
  BY <1>7 DEF ToSet, aggs
<1>11. /\ \A i \in DOMAIN c.comparison : c.comparison[i][s] # <<>>
       /\ \A i \in DOMAIN c.primary : c.primary[i][s] # <<>>
       /\ \A i \in DOMAIN c.groups : c.groups[i][s] # <<>>
  BY <1>2, <1>3
<1>12. names # {}
  BY <1>1
<1>13. \A i \in DOMAIN c.comparison : c.comparison[i][s] \in names
  BY <1>8, <1>9, <1>11
<1>14. \A i \in DOMAIN c.primary : c.primary[i][s] \in names
  BY <1>8, <1>9, <1>11
<1>15. \A i \in DOMAIN c.groups : c.groups[i][s] \in names
  BY <1>8, <1>9, <1>11
<1>16. \A i \in DOMAIN c.aggregates :
         c.aggregates[i].ref[s] = <<>> \/ c.aggregates[i].ref[s] \in names
  BY <1>8, <1>10
<1> QED BY <1>12, <1>13, <1>14, <1>15, <1>16 DEF names

\* A grouped column is a moment on both sides or on neither.
Alike(d, keys) ==
  \A i \in DOMAIN keys :
    (ColumnOf(d.source, keys[i]).type \in Temporal) <=> (ColumnOf(d.target, keys[i]).type \in Temporal)

\* What a neutral side does to a key is to cast it.
LEMMA NeutralKey ==
  ASSUME NEW d \in Databases, NEW s \in Sides, NEW env, NEW name, NEW cast
  PROVE  KeyExpr(Neutral(d[s]), env, name, cast) = Cast(env[name], cast)
BY NotPadded DEF KeyExpr

\* What a neutral side does to a grouped column depends on whether it is a moment.
LEMMA NeutralGroup ==
  ASSUME NEW d \in Databases, NEW s \in Sides, NEW key, Has(d[s], key), NEW env, NEW cast
  PROVE  LET c == ColumnOf(d[s], key)
         IN  GroupExpr(Neutral(d[s]), env, c.name, cast)
               = Cast(env[c.name], IF cast = "none" /\ c.type \in Temporal THEN "date" ELSE cast)
<1> DEFINE N == Neutral(d[s])
           c == ColumnOf(d[s], key)
           j == CHOOSE n \in DOMAIN N.columns : N.columns[n].name = c.name
<1>1. PICK i \in DOMAIN d[s].columns : c = d[s].columns[i]
  BY ColumnOfKey
<1>2. DOMAIN N.columns = DOMAIN d[s].columns
      /\ \A n \in DOMAIN d[s].columns : N.columns[n].name = d[s].columns[n].name
  BY NeutralTable
<1>3. \A n \in DOMAIN d[s].columns : d[s].columns[n].name = c.name => n = i
  BY <1>1, TableOf
<1>4. j = i
  <2>1. i \in DOMAIN N.columns /\ N.columns[i].name = c.name
    BY <1>1, <1>2
  <2>2. j \in DOMAIN N.columns /\ N.columns[j].name = c.name
    BY <2>1
  <2> HIDE DEF N, c, j
  <2> QED BY <1>2, <1>3, <2>2
<1>5. N.columns[i].type = IF c.type = "date" THEN "timestamp" ELSE c.type
  BY <1>1, NeutralTable
<1>6. GroupExpr(N, env, c.name, cast) =
        Cast(env[c.name], IF cast = "none" /\ N.columns[j].type = "timestamp" THEN "date" ELSE cast)
  BY DEF GroupExpr
<1> HIDE DEF N, c, j
<1>7. N.columns[j].type = "timestamp" <=> c.type \in Temporal
  BY <1>4, <1>5 DEF Temporal
<1> QED BY <1>6, <1>7 DEF N, c

\* The queries of a configuration that compiles on both sides are the same.
LEMMA QueriesOfAgree ==
  ASSUME NEW d \in Databases, NEW a, NEW c, GoodConfig(d, a, c), Alike(d, a.groups),
         \A s \in Sides : Compiles(d[s], s, c)
  PROVE  Query(Neutral(d.source), "source", c) = Query(Neutral(d.target), "target", c)
<1> DEFINE S == Neutral(d.source)
           T == Neutral(d.target)
           e == CalculatedEnv(S, "source", c.calculated)
           f == CalculatedEnv(T, "target", c.calculated)
<1>1. GoodFields(d, c.calculated)
  BY DEF GoodConfig, ConfigSet, GoodFields
<1>2. /\ DOMAIN e = DOMAIN CalculatedEnv(d.source, "source", c.calculated)
      /\ DOMAIN f = DOMAIN CalculatedEnv(d.target, "target", c.calculated)
  BY <1>1, NeutralNames, SidesAre
<1>3. /\ DOMAIN e # {}
      /\ \A i \in DOMAIN c.comparison : c.comparison[i].source \in DOMAIN e
      /\ \A i \in DOMAIN c.primary : c.primary[i].source \in DOMAIN e
      /\ \A i \in DOMAIN c.groups : c.groups[i].source \in DOMAIN e
      /\ \A i \in DOMAIN c.aggregates :
           c.aggregates[i].ref.source = <<>> \/ c.aggregates[i].ref.source \in DOMAIN e
  BY <1>2, CompiledRefs, SidesAre
<1>4. /\ DOMAIN f # {}
      /\ \A i \in DOMAIN c.comparison : c.comparison[i].target \in DOMAIN f
      /\ \A i \in DOMAIN c.primary : c.primary[i].target \in DOMAIN f
      /\ \A i \in DOMAIN c.groups : c.groups[i].target \in DOMAIN f
      /\ \A i \in DOMAIN c.aggregates :
           c.aggregates[i].ref.target = <<>> \/ c.aggregates[i].ref.target \in DOMAIN f
  BY <1>2, CompiledRefs, SidesAre
<1>5. Agree(d, e, f)
  BY <1>1, <1>3, <1>4, EnvsAgree
<1> HIDE DEF e, f
<1>6. \A r \in GoodRefs(d) :
        r.source \in DOMAIN e /\ r.target \in DOMAIN f => e[r.source] = f[r.target]
  BY <1>5 DEF Agree, GoodRefs
<1>7. /\ c.comparison \in Seq(GoodRefs(d)) /\ c.primary \in Seq(GoodRefs(d))
      /\ c.groups \in Seq(GoodRefs(d)) /\ c.aggregates \in Seq(GoodAggregates(d))
  BY DEF GoodConfig, ConfigSet, GoodFields
<1> DEFINE C(env, s) == [i \in DOMAIN c.comparison |->
                          Output(c.comparison[i].alias, Cast(env[c.comparison[i][s]], c.comparison[i].cast))]
           P(side, env, s) == [i \in DOMAIN c.primary |->
                          Output(c.primary[i].alias, KeyExpr(side, env, c.primary[i][s], c.primary[i].cast))]
           G(side, env, s) == [i \in DOMAIN c.groups |->
                          Output(c.groups[i].alias, GroupExpr(side, env, c.groups[i][s], c.groups[i].cast))]
           A(env, s) == [i \in DOMAIN c.aggregates |->
                          Output(c.aggregates[i].ref.alias,
                                 AggregateExpr(env, c.aggregates[i], c.aggregates[i].ref[s]))]
<1>8. Query(S, "source", c) = C(e, "source") \o P(S, e, "source") \o G(S, e, "source") \o A(e, "source")
  BY DEF Query, e
<1>9. Query(T, "target", c) = C(f, "target") \o P(T, f, "target") \o G(T, f, "target") \o A(f, "target")
  BY DEF Query, f
<1>10. C(e, "source") = C(f, "target")
  BY <1>3, <1>4, <1>6, <1>7
<1>11. P(S, e, "source") = P(T, f, "target")
  <2>1. ASSUME NEW i \in DOMAIN c.primary
        PROVE  KeyExpr(S, e, c.primary[i].source, c.primary[i].cast)
                 = KeyExpr(T, f, c.primary[i].target, c.primary[i].cast)
    <3> DEFINE r == c.primary[i]
    <3>1. e[r.source] = f[r.target]
      BY <1>3, <1>4, <1>6, <1>7
    <3>2. \A s \in Sides : \A env, name : KeyExpr(Neutral(d[s]), env, name, r.cast)
                                            = Cast(env[name], r.cast)
      BY NeutralKey, SMTT(30)
    <3> HIDE DEF r
    <3>3. KeyExpr(S, e, r.source, r.cast) = Cast(e[r.source], r.cast)
      BY <3>2, SidesAre
    <3>4. KeyExpr(T, f, r.target, r.cast) = Cast(f[r.target], r.cast)
      BY <3>2, SidesAre
    <3> QED BY <3>1, <3>3, <3>4 DEF r
  <2> HIDE DEF S, T
  <2> QED BY <2>1
<1>12. G(S, e, "source") = G(T, f, "target")
  <2>1. ASSUME NEW i \in DOMAIN c.groups
        PROVE  GroupExpr(S, e, c.groups[i].source, c.groups[i].cast)
                 = GroupExpr(T, f, c.groups[i].target, c.groups[i].cast)
    <3> DEFINE r == c.groups[i]
               s == ColumnOf(d.source, a.groups[i])
               t == ColumnOf(d.target, a.groups[i])
    <3>1. e[r.source] = f[r.target]
      BY <1>3, <1>4, <1>6, <1>7
    <3>2. c.groups = ColumnConfigs(d, a.groups) /\ ~MissingColumn(d, a.groups)
      <4>1. c.groups # <<>>
        BY NoTable
      <4> QED BY <4>1 DEF GoodConfig
    <3>3. i \in DOMAIN a.groups
      BY <3>2 DEF ColumnConfigs
    <3>4. r.source = s.name /\ r.target = t.name
      BY <3>2 DEF ColumnConfigs, Reference
    <3>5. Has(d.source, a.groups[i]) /\ Has(d.target, a.groups[i])
      BY <3>2, <3>3 DEF MissingColumn
    <3>6. GroupExpr(S, e, s.name, r.cast)
            = Cast(e[s.name], IF r.cast = "none" /\ s.type \in Temporal THEN "date" ELSE r.cast)
      BY <3>5, NeutralGroup, SidesAre
    <3>8. GroupExpr(T, f, t.name, r.cast)
            = Cast(f[t.name], IF r.cast = "none" /\ t.type \in Temporal THEN "date" ELSE r.cast)
      BY <3>5, NeutralGroup, SidesAre
    <3>7. s.type \in Temporal <=> t.type \in Temporal
      BY <3>3 DEF Alike
    <3> HIDE DEF S, T, r, s, t
    <3> QED BY <3>1, <3>4, <3>6, <3>7, <3>8 DEF r
  <2> HIDE DEF S, T
  <2> QED BY <2>1
<1>13. A(e, "source") = A(f, "target")
  <2>1. ASSUME NEW i \in DOMAIN c.aggregates
        PROVE  AggregateExpr(e, c.aggregates[i], c.aggregates[i].ref.source)
                 = AggregateExpr(f, c.aggregates[i], c.aggregates[i].ref.target)
    <3> DEFINE g == c.aggregates[i]
    <3>1. g \in GoodAggregates(d)
      BY <1>7
    <3>2. CASE g.ref.source = <<>> /\ g.ref.target = <<>>
      BY <3>2 DEF AggregateExpr
    <3>3. CASE g.ref \in GoodRefs(d)
      <4>1. g.ref.source # <<>> /\ g.ref.target # <<>>
        BY <3>3 DEF GoodRefs
      <4>2. e[g.ref.source] = f[g.ref.target]
        BY <1>3, <1>4, <1>6, <3>3, <4>1
      <4> QED BY <4>1, <4>2 DEF AggregateExpr
    <3> QED BY <3>1, <3>2, <3>3 DEF GoodAggregates
  <2> QED BY <2>1
<1> HIDE DEF C, P, G, A, S, T
<1>14. Query(S, "source", c) = Query(T, "target", c)
  BY <1>8, <1>9, <1>10, <1>11, <1>12, <1>13
<1> QED BY <1>14 DEF S, T

-----------------------------------------------------------------------------
(* What the code puts into a configuration.                                *)

\* The keys of a table.
KeysOf(side) == ToSet(Keys(side.columns))

\* They are those it has.
LEMMA KeysAre ==
  ASSUME NEW d \in Databases, NEW s \in Sides
  PROVE  /\ Keys(d[s].columns) \in Seq(ColumnName)
         /\ Len(Keys(d[s].columns)) = Len(d[s].columns)
         /\ IsInjective(Keys(d[s].columns))
         /\ \A key : key \in KeysOf(d[s]) <=> Has(d[s], key)
         /\ KeysOf(d[s]) \subseteq ColumnName
<1> DEFINE side == d[s]
<1>1. side.columns \in Seq(TableColumn) /\ DOMAIN side.columns = 1..Len(side.columns)
  BY TableOf
<1>2. \A i \in DOMAIN side.columns : side.columns[i].key \in ColumnName
  BY TableOf
<1>3. IsInjective(Keys(side.columns))
  BY TableOf DEF IsInjective, Keys
<1> HIDE DEF side
<1>4. Keys(side.columns) \in Seq(ColumnName)
  BY <1>1, <1>2 DEF Keys
<1>5. \A key : key \in KeysOf(side) <=> Has(side, key)
  BY DEF KeysOf, ToSet, Keys, Has
<1>6. KeysOf(side) \subseteq ColumnName
  BY <1>2 DEF KeysOf, ToSet, Keys
<1>7. Len(Keys(side.columns)) = Len(side.columns)
  BY <1>1 DEF Keys
<1> QED BY <1>3, <1>4, <1>5, <1>6, <1>7 DEF side

\* The names of the two columns with one key mean the same.
LEMMA KeyPair ==
  ASSUME NEW d \in Databases, NEW key, Has(d.source, key), Has(d.target, key)
  PROVE  Pair(d, ColumnOf(d.source, key).name, ColumnOf(d.target, key).name)
<1>1. PICK i \in DOMAIN d.source.columns :
        ColumnOf(d.source, key) = d.source.columns[i] /\ d.source.columns[i].key = key
  BY ColumnOfKey, SidesAre
<1>2. PICK j \in DOMAIN d.target.columns :
        ColumnOf(d.target, key) = d.target.columns[j] /\ d.target.columns[j].key = key
  BY ColumnOfKey, SidesAre
<1> QED BY <1>1, <1>2 DEF Pair

\* Names of columns are names.
LEMMA ColumnNames ==
  ColumnName \subseteq Seq(Parts) \ {<<>>} /\ Derived \subseteq Seq(Parts) \ {<<>>}
<1>1. \A n \in Seq(STRING) : n \in Seq(Parts)
  BY DEF Parts
<1> QED BY <1>1 DEF ColumnName, Derived

\* Primary keys and grouped columns (build_column_configs).
LEMMA GoodColumns ==
  ASSUME NEW d \in Databases, NEW keys \in Seq(Seq(STRING)), ~MissingColumn(d, keys)
  PROVE  ColumnConfigs(d, keys) \in Seq(GoodRefs(d))
<1>1. ASSUME NEW i \in DOMAIN keys PROVE ColumnConfigs(d, keys)[i] \in GoodRefs(d)
  <2> DEFINE s == ColumnOf(d.source, keys[i])
             t == ColumnOf(d.target, keys[i])
  <2>1. Has(d.source, keys[i]) /\ Has(d.target, keys[i])
    BY DEF MissingColumn
  <2>2. s \in TableColumn /\ t \in TableColumn
    BY <2>1, ColumnOfKey, SidesAre
  <2>3. Pair(d, s.name, t.name)
    BY <2>1, KeyPair
  <2>4. ColumnConfigs(d, keys)[i] = Reference(s.name, t.name, keys[i], KeyCast(s.type, t.type))
    BY DEF ColumnConfigs
  <2> HIDE DEF s, t
  <2>5. s.name \in Seq(Parts) \ {<<>>} /\ t.name \in Seq(Parts) \ {<<>>}
    BY <2>2, ColumnNames DEF TableColumn
  <2>6. keys[i] \in Seq(Parts)
    BY DEF Parts
  <2>7. KeyCast(s.type, t.type) \in Words
    <3>1. KeyCast(s.type, t.type) \in {"uuid_string", "string", "none"}
      BY Zenon DEF KeyCast
    <3> QED BY <3>1 DEF Words
  <2> QED BY <2>3, <2>4, <2>5, <2>6, <2>7 DEF GoodRefs, Refs, Reference
<1>2. DOMAIN ColumnConfigs(d, keys) = 1..Len(keys) /\ Len(keys) \in Nat
  BY DEF ColumnConfigs
<1>3. ColumnConfigs(d, keys) = [i \in 1..Len(keys) |-> ColumnConfigs(d, keys)[i]]
  BY DEF ColumnConfigs
<1>4. \A i \in 1..Len(keys) : ColumnConfigs(d, keys)[i] \in GoodRefs(d)
  BY <1>1
<1> QED BY <1>2, <1>3, <1>4

\* What is compared: columns of the source, and calculated fields.
LEMMA GoodComparison ==
  ASSUME NEW d \in Databases, NEW names \in Seq(KeysOf(d.source) \cup Derived)
  PROVE  ComparisonConfigs(d, names) \in Seq(GoodRefs(d))
<1>1. ASSUME NEW i \in DOMAIN names PROVE ComparisonConfigs(d, names)[i] \in GoodRefs(d)
  <2> DEFINE n == names[i]
             a == NameIn(d.source, n)
             b == NameIn(d.target, n)
  <2>1. n \in KeysOf(d.source) \/ n \in Derived
    OBVIOUS
  <2>2. n \in Seq(Parts) \ {<<>>}
    BY <2>1, KeysAre, ColumnNames, SidesAre
  <2>3. ComparisonConfigs(d, names)[i] = Reference(a, b, n, CompFieldCast(d, n))
    BY DEF ComparisonConfigs
  <2>4. CompFieldCast(d, n) \in Words
    <3>1. CompFieldCast(d, n) \in {"bool", "uuid_string", "none"}
      BY Zenon DEF CompFieldCast
    <3> QED BY <3>1 DEF Words
  <2> HIDE DEF n
  <2>5. a \in Seq(Parts) \ {<<>>} /\ b \in Seq(Parts) \ {<<>>}
    <3>1. ASSUME NEW s \in Sides, Has(d[s], n) PROVE ColumnOf(d[s], n).name \in ColumnName
      BY <3>1, ColumnOfKey DEF TableColumn
    <3>2. \A s \in Sides : NameIn(d[s], n) \in Seq(Parts) \ {<<>>}
      BY <2>2, <3>1, ColumnNames DEF NameIn
    <3> QED BY <3>2, SidesAre
  <2>6. Pair(d, a, b)
    <3>1. CASE n \in Derived
      <4>1. ~Has(d.source, n) /\ ~Has(d.target, n)
        BY <3>1, KeysAre, NamesAreNotDerived, SidesAre
      <4> QED BY <3>1, <4>1 DEF NameIn, Pair
    <3>2. CASE n \in KeysOf(d.source) /\ Has(d.target, n)
      <4>1. Has(d.source, n)
        BY <3>2, KeysAre, SidesAre
      <4> QED BY <3>2, <4>1, KeyPair DEF NameIn
    <3>3. CASE n \in KeysOf(d.source) /\ ~Has(d.target, n)
      <4>1. Has(d.source, n) /\ n \in ColumnName
        BY <3>3, KeysAre, SidesAre
      <4>2. PICK k \in DOMAIN d.source.columns : d.source.columns[k].key = n
        BY <4>1 DEF Has
      <4>3. ASSUME NEW j \in DOMAIN d.target.columns, d.target.columns[j].name = n PROVE FALSE
        <5>1. /\ d.source.columns[k] \in ColumnsOf(d) /\ d.target.columns[j] \in ColumnsOf(d)
          BY SidesAre DEF ColumnsOf, ToSet
        <5>2. d.target.columns[j].key = n
          BY <4>2, <4>3, <5>1, TablesAssumption DEF Databases
        <5> QED BY <3>3, <5>2 DEF Has
      <4>4. b = n
        BY <3>3 DEF NameIn
      <4> QED BY <4>1, <4>3, <4>4 DEF Pair, NamesOf
    <3> QED BY <2>1, <3>1, <3>2, <3>3
  <2> QED BY <2>2, <2>3, <2>4, <2>5, <2>6 DEF GoodRefs, Refs, Reference
<1>2. DOMAIN ComparisonConfigs(d, names) = 1..Len(names) /\ Len(names) \in Nat
  BY DEF ComparisonConfigs
<1>3. ComparisonConfigs(d, names) = [i \in 1..Len(names) |-> ComparisonConfigs(d, names)[i]]
  BY DEF ComparisonConfigs
<1>4. \A i \in 1..Len(names) : ComparisonConfigs(d, names)[i] \in GoodRefs(d)
  BY <1>1
<1> QED BY <1>2, <1>3, <1>4

\* A derived column has a name of calculated fields.
LEMMA PrefixIsDerived ==
  ASSUME NEW d, NEW p \in Reserved, NEW name \in Seq(Parts), NEW n \in Nat
  PROVE  Prefix(d, p, name, n) \in Derived
<1>1. p \in Parts /\ "dvt_calc_col" \in Parts /\ Numeral[n] \in Parts
  BY DEF Parts, Words, Reserved
<1>2. <<p, "dvt_calc_col", Numeral[n]>> \in Derived
  <2> DEFINE q == Numeral[n]
             w == "dvt_calc_col"
  <2> HIDE DEF q, w
  <2>1. <<p, w, q>> \in Seq(Parts) /\ <<p, w, q>> # <<>> /\ <<p, w, q>>[1] = p
    BY <1>1 DEF q, w
  <2> QED BY <2>1 DEF Derived, q, w
<1>3. <<p>> \o name \in Derived
  <2>1. <<p>> \o name \in Seq(Parts) /\ (<<p>> \o name)[1] = p /\ <<p>> \o name # <<>>
    BY <1>1
  <2> QED BY <2>1 DEF Derived
<1> QED BY <1>2, <1>3 DEF Prefix

\* A name of a calculated field means the same on both sides.
LEMMA DerivedPair ==
  ASSUME NEW d, NEW name \in Derived
  PROVE  Pair(d, name, name)
BY DEF Pair

\* The columns that are left of a table, after the user's list and the types the code knows.
LEMMA SupportedKeys ==
  ASSUME NEW d \in Databases, NEW s \in Sides, NEW r, NEW x, NEW S, NEW T
  PROVE  LET keys == Keys(OfSupportedType(d, Listed(d[s].columns, r, x), S, T))
         IN  keys \in Seq(ColumnName) /\ ToSet(keys) \subseteq KeysOf(d[s])
<1> DEFINE columns == d[s].columns
           listed == Listed(columns, r, x)
           kept == OfSupportedType(d, listed, S, T)
<1>1. columns \in Seq(TableColumn)
  BY TableOf
<1>2. listed \in Seq(TableColumn) /\ ToSet(listed) \subseteq ToSet(columns)
  <2> DEFINE L == {c \in ToSet(columns) : r.all \/ (Contains(r.list, c.key) # x)}
  <2>1. listed = Keep(columns, L)
    BY DEF Listed
  <2> HIDE DEF L, listed, columns
  <2> QED BY <1>1, <2>1, KeepIs
<1>3. kept \in Seq(TableColumn) /\ ToSet(kept) \subseteq ToSet(listed)
  <2> HIDE DEF listed
  <2> DEFINE L == {listed[i] : i \in DOMAIN listed \ LeftOut(d, S, T)}
  <2>1. kept = Keep(listed, L)
    BY DEF OfSupportedType, Without
  <2> HIDE DEF L, kept
  <2> QED BY <1>2, <2>1, KeepIs
<1> HIDE DEF kept, listed
<1>4. Len(kept) \in Nat /\ DOMAIN kept = 1..Len(kept) /\ \A i \in DOMAIN kept : kept[i] \in TableColumn
  BY <1>3
<1>5. Keys(kept) \in Seq(ColumnName)
  BY <1>4 DEF Keys, TableColumn
<1>6. ASSUME NEW i \in DOMAIN kept PROVE kept[i].key \in KeysOf(d[s])
  <2>1. PICK j \in DOMAIN columns : kept[i] = columns[j]
    BY <1>2, <1>3 DEF ToSet
  <2> QED BY <2>1 DEF KeysOf, ToSet, Keys
<1>7. ToSet(Keys(kept)) \subseteq KeysOf(d[s])
  BY <1>6 DEF ToSet, Keys
<1> QED BY <1>5, <1>7 DEF kept, listed

\* What makes a calculated field one.
LEMMA FieldIsGood ==
  ASSUME NEW d \in Databases, NEW a \in Seq(Seq(Parts)), NEW b \in Seq(Seq(Parts)),
         DOMAIN a = DOMAIN b, \A i \in DOMAIN a : Pair(d, a[i], b[i]),
         NEW op \in Words, NEW param \in Words, NEW alias \in Derived, NEW depth \in Depths
  PROVE  Field(a, b, op, param, alias, depth) \in FieldSet(d)
<1>1. alias \in Seq(Parts) /\ depth \in Nat
  BY DEF Derived, Depths
<1> QED BY <1>1 DEF Field, FieldSet, GoodField

\* The same of one with one argument.
LEMMA UnaryIsGood ==
  ASSUME NEW d \in Databases, NEW a \in Seq(Parts), NEW b \in Seq(Parts), Pair(d, a, b),
         NEW op \in Words, NEW param \in Words, NEW alias \in Derived, NEW depth \in Depths
  PROVE  Field(<<a>>, <<b>>, op, param, alias, depth) \in FieldSet(d)
<1>1. <<a>> \in Seq(Seq(Parts)) /\ <<b>> \in Seq(Seq(Parts)) /\ DOMAIN <<a>> = DOMAIN <<b>>
  OBVIOUS
<1>2. \A i \in DOMAIN <<a>> : Pair(d, <<a>>[i], <<b>>[i])
  OBVIOUS
<1> QED BY <1>1, <1>2, FieldIsGood

\* The names of two columns with the same key.
LEMMA KeyNames ==
  ASSUME NEW d \in Databases, NEW s \in Sides, NEW key, Has(d[s], key)
  PROVE  ColumnOf(d[s], key).name \in Seq(Parts) /\ key \in Seq(Parts)
<1>1. ColumnOf(d[s], key).name \in ColumnName /\ key \in ColumnName
  BY ColumnOfKey DEF TableColumn
<1> QED BY <1>1, ColumnNames

\* The columns to compare in a row validation (build_comp_fields).
LEMMA CompFieldKeys ==
  ASSUME NEW d \in Databases, NEW r, NEW x, NEW primary
  PROVE  /\ CompFields(d, r, x, primary) \in Seq(ColumnName)
         /\ ToSet(CompFields(d, r, x, primary)) \subseteq KeysOf(d.source) \ ToSet(primary)
<1> DEFINE listed == Listed(d.source.columns, r, x)
           keys == Keys(OfSupportedType(d, listed, listed, listed))
<1>1. keys \in Seq(ColumnName) /\ ToSet(keys) \subseteq KeysOf(d.source)
  BY SupportedKeys, SidesAre
<1>2. CompFields(d, r, x, primary) = Keep(keys, ToSet(keys) \ ToSet(primary))
  BY DEF CompFields
<1> HIDE DEF keys
<1> QED BY <1>1, <1>2, KeepIs

\* Strings without their padding (Teradata).
LEMMA RstripIsGood ==
  ASSUME NEW d \in Databases, NEW keys \in Seq(ColumnName), ~MissingColumn(d, keys)
  PROVE  /\ RstripFields(d, keys) \subseteq FieldSet(d)
         /\ WithRstrip(d, keys) \in Seq(KeysOf(d.source) \cup Derived)
<1>1. ASSUME NEW k \in ToSet(keys) PROVE Has(d.source, k) /\ Has(d.target, k)
  BY DEF ToSet, MissingColumn
<1>2. ASSUME NEW k \in ToSet(keys) PROVE <<"rstrip">> \o k \in Derived
  <2>1. k \in Seq(Parts)
    BY <1>1, KeyNames, SidesAre
  <2>2. "rstrip" \in Parts /\ "rstrip" \in Reserved
    BY DEF Parts, Words, Reserved
  <2>3. <<"rstrip">> \o k \in Seq(Parts) /\ (<<"rstrip">> \o k)[1] = "rstrip"
        /\ <<"rstrip">> \o k # <<>>
    BY <2>1, <2>2
  <2> QED BY <2>2, <2>3 DEF Derived
<1>3. ASSUME NEW k \in ToSet(keys)
      PROVE  Field(<<ColumnOf(d.source, k).name>>, <<ColumnOf(d.target, k).name>>,
                   "rstrip", "none", <<"rstrip">> \o k, 0) \in FieldSet(d)
  <2> DEFINE a == ColumnOf(d.source, k).name
             b == ColumnOf(d.target, k).name
  <2>1. a \in Seq(Parts) /\ b \in Seq(Parts) /\ Pair(d, a, b)
    BY <1>1, KeyPair, KeyNames, SidesAre
  <2>2. "rstrip" \in Words /\ "none" \in Words /\ 0 \in Depths
    BY DEF Words, Reserved, Depths
  <2> HIDE DEF a, b
  <2>3. Field(<<a>>, <<b>>, "rstrip", "none", <<"rstrip">> \o k, 0) \in FieldSet(d)
    BY <1>2, <2>1, <2>2, UnaryIsGood
  <2> QED BY <2>3 DEF a, b
<1>4. RstripFields(d, keys) \subseteq FieldSet(d)
  BY <1>3 DEF RstripFields
<1>5. ASSUME NEW i \in DOMAIN keys
      PROVE  (IF Padded(d, keys[i]) THEN <<"rstrip">> \o keys[i] ELSE keys[i])
               \in KeysOf(d.source) \cup Derived
  <2>1. keys[i] \in ToSet(keys)
    BY DEF ToSet
  <2>2. keys[i] \in KeysOf(d.source)
    BY <1>1, <2>1, KeysAre, SidesAre
  <2> QED BY <1>2, <2>1, <2>2
<1> DEFINE K == KeysOf(d.source) \cup Derived
           W(i) == IF Padded(d, keys[i]) THEN <<"rstrip">> \o keys[i] ELSE keys[i]
<1>6. WithRstrip(d, keys) = [i \in 1..Len(keys) |-> W(i)] /\ Len(keys) \in Nat
  BY DEF WithRstrip
<1>7. \A i \in 1..Len(keys) : W(i) \in K
  BY <1>5
<1> HIDE DEF K, W
<1>8. WithRstrip(d, keys) \in Seq(K)
  BY <1>6, <1>7
<1> QED BY <1>4, <1>8 DEF K

\* v has the names met up to each place of the list s, each once.
DistinctSteps(v, K, s) ==
  /\ v \in [0..Len(s) -> Seq(K)]
  /\ v[0] = <<>>
  /\ \A i \in 1..Len(s) :
       v[i] = IF Contains(v[i - 1], s[i]) THEN v[i - 1] ELSE Append(v[i - 1], s[i])
  /\ Distinct(s) = v[Len(s)]

\* Distinct goes through the list.
LEMMA DistinctOf ==
  ASSUME NEW K, NEW s \in Seq(K)
  PROVE  \E v : DistinctSteps(v, K, s)
<1> DEFINE n == Len(s)
           T == Seq(K)
           base == <<>>
           B(x, i) == IF Contains(x, s[i]) THEN x ELSE Append(x, s[i])
           step == [p \in T \X (1..n) |-> B(p[1], p[2])]
           Goes(f) == f = [u \in SUBSET (1..n) |->
                            IF u = {} THEN base ELSE B(f[u \ {Max(u)}], Max(u))]
           f == CHOOSE f : Goes(f)
<1>1. n \in Nat /\ DOMAIN s = 1..n /\ \A i \in 1..n : s[i] \in K
  OBVIOUS
<1>2. base \in T
  OBVIOUS
<1>3. \A x \in T, i \in 1..n : B(x, i) \in T
  BY <1>1
<1>4. Distinct(s) = f[1..n]
  <2>1. Distinct(s) =
          (CHOOSE h : h = [u \in SUBSET (DOMAIN s) |->
             IF u = {} THEN base ELSE B(h[u \ {Max(u)}], Max(u))])[DOMAIN s]
    BY DEF Distinct, FoldLeft, MapThenFoldSet, B, base
  <2> QED BY <1>1, <2>1
<1> HIDE DEF n, T, base, B
<1>5. step \in [T \X (1..n) -> T] /\ \A x \in T, i \in 1..n : step[<<x, i>>] = B(x, i)
  BY <1>3
<1> HIDE DEF step
<1>6. \A u \in SUBSET (1..n) : u # {} => u \ {Max(u)} \in SUBSET (1..n) /\ Max(u) \in 1..n
  BY <1>1, LastNumber
<1>7. \E h : Goes(h)
  <2>1. PICK h \in [SUBSET (1..n) -> T] : FoldOf(h, n, base, step)
    BY <1>1, <1>2, <1>5, FoldExists
  <2>2. ASSUME NEW u \in SUBSET (1..n)
        PROVE  h[u] = IF u = {} THEN base ELSE B(h[u \ {Max(u)}], Max(u))
    <3>1. h[u] = IF u = {} THEN base ELSE step[<<h[u \ {Max(u)}], Max(u)>>]
      BY <2>1 DEF FoldOf
    <3>2. u # {} => h[u \ {Max(u)}] \in T /\ Max(u) \in 1..n
      BY <2>1, <1>6
    <3> QED BY <1>5, <3>1, <3>2
  <2>3. h = [u \in SUBSET (1..n) |-> h[u]]
    BY <2>1
  <2> QED BY <2>2, <2>3
<1>8. Goes(f)
  BY <1>7
<1> HIDE DEF f
<1>9. f[{}] = base
  BY <1>8
<1>10. \A u \in SUBSET (1..n) :
         u # {} /\ f[u \ {Max(u)}] \in T => f[u] = step[<<f[u \ {Max(u)}], Max(u)>>]
  BY <1>5, <1>6, <1>8
<1> HIDE DEF Goes
<1>11. GoesBy(f, T, n, base, step)
  BY <1>9, <1>10 DEF GoesBy
<1>12. PICK v : StepsTo(v, f[1..n], T, n, base, step)
  BY <1>1, <1>2, <1>5, <1>11, FoldThrough
<1>13. ASSUME NEW i \in 1..n PROVE v[i] = B(v[i - 1], i)
  <2>1. v[i - 1] \in T
    BY <1>1, <1>12 DEF StepsTo
  <2> QED BY <1>5, <1>12, <2>1 DEF StepsTo
<1>14. DistinctSteps(v, K, s)
  BY <1>1, <1>4, <1>12, <1>13 DEF n, T, base, B, StepsTo, DistinctSteps
<1> QED BY <1>14

\* It keeps every element and none twice.
LEMMA DistinctIs ==
  ASSUME NEW K, NEW s \in Seq(K)
  PROVE  /\ Distinct(s) \in Seq(K) /\ ToSet(Distinct(s)) = ToSet(s)
         /\ IsInjective(Distinct(s))
<1> DEFINE n == Len(s)
           Before(i) == {s[j] : j \in 1..i}
<1>1. n \in Nat /\ DOMAIN s = 1..n /\ \A i \in 1..n : s[i] \in K
  OBVIOUS
<1>8. PICK v : DistinctSteps(v, K, s)
  BY DistinctOf
<1>2. /\ v \in [0..n -> Seq(K)] /\ v[0] = <<>>
      /\ \A i \in 1..n :
           v[i] = IF Contains(v[i - 1], s[i]) THEN v[i - 1] ELSE Append(v[i - 1], s[i])
      /\ Distinct(s) = v[n]
  BY <1>8 DEF DistinctSteps
<1> DEFINE Good == {i \in 0..n : ToSet(v[i]) = Before(i) /\ IsInjective(v[i])}
<1>3. 0 \in Good
  <2>1. v[0] = <<>> /\ DOMAIN <<>> = {} /\ 1..0 = {}
    BY <1>2
  <2> QED BY <1>1, <2>1 DEF ToSet, IsInjective
<1> HIDE DEF n
<1>4. ASSUME NEW i \in 1..n, i - 1 \in Good PROVE i \in Good
  <2> DEFINE w == v[i - 1]
             x == s[i]
  <2>1. i \in 0..n /\ w \in Seq(K) /\ x \in K
    BY <1>1, <1>2, SMTT(30)
  <2>2. ToSet(w) = Before(i - 1) /\ IsInjective(w)
    BY <1>4
  <2>3. v[i] = IF x \in ToSet(w) THEN w ELSE Append(w, x)
    <3>1. v[i] = IF Contains(w, x) THEN w ELSE Append(w, x)
      BY <1>2
    <3>2. Contains(w, x) <=> x \in ToSet(w)
      BY <2>1 DEF Contains, ToSet
    <3> QED BY <3>1, <3>2
  <2>4. Before(i) = Before(i - 1) \cup {x}
    <3>1. 1..i = 1..(i - 1) \cup {i}
      BY <1>1
    <3> QED BY <3>1
  <2> HIDE DEF w, x, Before
  <2>6. CASE x \notin ToSet(w)
    <3>1. ToSet(Append(w, x)) = ToSet(w) \cup {x}
      BY <2>1, AppendElements
    <3>2. IsInjective(Append(w, x))
      BY <2>1, <2>2, <2>6, AppendElements
    <3>3. v[i] = Append(w, x)
      BY <2>3, <2>6
    <3> QED BY <2>1, <2>2, <2>4, <3>1, <3>2, <3>3
  <2>7. CASE x \in ToSet(w)
    <3>1. v[i] = w /\ ToSet(w) = Before(i)
      BY <2>2, <2>3, <2>4, <2>7
    <3> QED BY <2>1, <2>2, <3>1
  <2> QED BY <2>6, <2>7
<1>5. n \in Good
  <2> HIDE DEF Good
  <2>1. n \in Nat /\ n \in 0..n
    BY <1>1
  <2>2. \A i \in 1..n : i - 1 \in Good => i \in Good
    BY <1>4
  <2>3. \A i \in 0..n : i \in Good
    BY <1>3, <2>1, <2>2, UpTo
  <2> QED BY <2>1, <2>3
<1>6. Before(n) = ToSet(s)
  BY <1>1 DEF ToSet
<1> HIDE DEF Before
<1>7. v[n] \in Seq(K)
  BY <1>1, <1>2
<1> QED BY <1>2, <1>5, <1>6, <1>7

-----------------------------------------------------------------------------
(* The levels of calculated fields of a row.                               *)

\* The operations on each column, then one on all of them, then the hash if it is asked for.
LEMMA OperationsAre ==
  ASSUME NEW method, NEW upper
  PROVE  LET ops == OrderOfOperations(method, upper)
             n == IF method = "hash" THEN Len(ops) - 1 ELSE Len(ops)
         IN  /\ ops \in Seq(Reserved) /\ Len(ops) \in 4..6 /\ n \in {4, 5}
             /\ ops[1] = "cast" /\ ops[n] = "concat"
             /\ \A i \in 1..(n - 1) : ops[i] \notin {"concat", "hash"}
             /\ method = "hash" => ops[n + 1] = "hash" /\ Len(ops) = n + 1
<1> DEFINE a == <<"cast", "ifnull", "rstrip", "upper", "concat">>
           b == <<"cast", "ifnull", "rstrip", "concat">>
           text == IF upper THEN a ELSE b
           n == Len(text)
           ops == IF method = "hash" THEN Append(text, "hash") ELSE text
<1>1. "hash" \in Reserved
      /\ \A op \in {"cast", "ifnull", "rstrip", "upper", "concat"} : op \in Reserved
  BY DEF Reserved
<1>2. /\ a \in Seq(Reserved) /\ Len(a) = 5 /\ a[1] = "cast" /\ a[2] = "ifnull"
      /\ a[3] = "rstrip" /\ a[4] = "upper" /\ a[5] = "concat"
  BY <1>1
<1>3. /\ b \in Seq(Reserved) /\ Len(b) = 4 /\ b[1] = "cast" /\ b[2] = "ifnull"
      /\ b[3] = "rstrip" /\ b[4] = "concat"
  BY <1>1
<1>4. (\A i \in 1..4 : i \in {1, 2, 3, 4}) /\ \A i \in 1..3 : i \in {1, 2, 3}
  OBVIOUS
<1>5. ops = OrderOfOperations(method, upper)
  BY DEF OrderOfOperations
<1> HIDE DEF a, b
<1>6. /\ text \in Seq(Reserved) /\ n \in {4, 5} /\ text[1] = "cast" /\ text[n] = "concat"
      /\ \A i \in 1..(n - 1) : text[i] \notin {"concat", "hash"}
  <2>1. CASE upper
    <3>1. text = a /\ n = 5 /\ n - 1 = 4
      BY <1>2, <2>1
    <3>2. \A i \in 1..4 : a[i] \notin {"concat", "hash"}
      BY <1>2, <1>4
    <3> HIDE DEF text, n
    <3> QED BY <1>2, <3>1, <3>2
  <2>2. CASE ~upper
    <3>1. text = b /\ n = 4 /\ n - 1 = 3
      BY <1>3, <2>2
    <3>2. \A i \in 1..3 : b[i] \notin {"concat", "hash"}
      BY <1>3, <1>4
    <3> HIDE DEF text, n
    <3> QED BY <1>3, <3>1, <3>2
  <2> QED BY <2>1, <2>2
<1> HIDE DEF text
<1>7. CASE method = "hash"
  <2>1. Append(text, "hash") \in Seq(Reserved) /\ Len(Append(text, "hash")) = n + 1
        /\ Append(text, "hash")[n + 1] = "hash"
        /\ \A i \in 1..n : Append(text, "hash")[i] = text[i]
    BY <1>1, <1>6
  <2>2. ops = Append(text, "hash")
    BY <1>7
  <2> DEFINE o == OrderOfOperations(method, upper)
  <2>3. o = Append(text, "hash")
    BY <1>5, <2>2
  <2> HIDE DEF n, ops, o
  <2>4. n \in 1..n /\ 1 \in 1..n /\ \A i \in 1..(n - 1) : i \in 1..n
    BY <1>6
  <2>5. o \in Seq(Reserved) /\ Len(o) = n + 1 /\ n \in {4, 5} /\ Len(o) - 1 = n
    BY <1>6, <2>1, <2>3
  <2>6. o[1] = "cast" /\ o[n] = "concat" /\ o[n + 1] = "hash"
    BY <1>6, <2>1, <2>3, <2>4
  <2>7. \A i \in 1..(n - 1) : o[i] \notin {"concat", "hash"}
    BY <1>6, <2>1, <2>3, <2>4
  <2>8. (IF method = "hash" THEN Len(o) - 1 ELSE Len(o)) = n
    BY <1>7, <2>5
  <2> QED BY <2>5, <2>6, <2>7, <2>8 DEF o
<1>8. CASE method # "hash"
  BY <1>5, <1>6, <1>8
<1> QED BY <1>7, <1>8

\* l has the fields of each level.
LevelSteps(l, d, keys, ops) ==
  /\ l[1] = [j \in DOMAIN keys |-> BaseField(d, keys, j)]
  /\ \A i \in 2..Len(ops) : l[i] = LevelOf(d, ops[i], Aliases(l[i - 1]), i - 1)

\* The recursion over the operations has a value at each of them.
LEMMA LevelsOf ==
  ASSUME NEW d, NEW method, NEW request, NEW upper
  PROVE  LET keys == Keys(RowColumns(d, request).source)
             ops == OrderOfOperations(method, upper)
         IN  \E l : /\ LevelSteps(l, d, keys, ops)
                    /\ DependentAliases(d, method, request, upper)
                         = UNION {ToSet(l[i]) : i \in 1..Len(ops)}
<1> DEFINE keys == Keys(RowColumns(d, request).source)
           ops == OrderOfOperations(method, upper)
           N == Len(ops)
           base == [j \in DOMAIN keys |-> BaseField(d, keys, j)]
           B(x, i) == LevelOf(d, ops[i], Aliases(x), i - 1)
           Goes(g, m) == g = [i \in 1..m |-> IF i = 1 THEN base ELSE B(g[i - 1], i)]
           P(m) == \E g : Goes(g, m)
           l == CHOOSE g : Goes(g, N)
<1>1. N \in 4..6 /\ DOMAIN ops = 1..N
  BY OperationsAre
<1>2. DependentAliases(d, method, request, upper) = UNION {ToSet(l[i]) : i \in DOMAIN ops}
  <2>1. l = CHOOSE g : g = [i \in DOMAIN ops |-> IF i = 1 THEN base ELSE B(g[i - 1], i)]
    BY <1>1
  <2> QED BY <2>1 DEF DependentAliases
<1> HIDE DEF N, B, base
<1>3. P(0)
  <2> DEFINE g == [n \in 1..0 |-> base]
  <2>1. \A n : n \notin 1..0
    OBVIOUS
  <2>2. g = [i \in 1..0 |-> IF i = 1 THEN base ELSE B(g[i - 1], i)]
    BY <2>1
  <2> QED BY <2>2
<1>4. ASSUME NEW m \in Nat, P(m) PROVE P(m + 1)
  <2>1. PICK g : Goes(g, m)
    BY <1>4
  <2> DEFINE h == [n \in 1..(m + 1) |-> IF n = m + 1
                                          THEN (IF n = 1 THEN base ELSE B(g[m], n)) ELSE g[n]]
  <2>2. ASSUME NEW n \in 1..(m + 1)
        PROVE  h[n] = IF n = 1 THEN base ELSE B(h[n - 1], n)
    <3>1. CASE n = m + 1
      <4>1. n # 1 => m \in 1..(m + 1) /\ m # m + 1 /\ n - 1 = m
        BY <3>1
      <4> QED BY <3>1, <4>1
    <3>2. CASE n # m + 1
      <4>1. n \in 1..m /\ h[n] = g[n]
        BY <3>2
      <4>2. g[n] = IF n = 1 THEN base ELSE B(g[n - 1], n)
        BY <2>1, <4>1
      <4>3. n # 1 => n - 1 \in 1..(m + 1) /\ n - 1 # m + 1
        BY <4>1
      <4>4. n # 1 => h[n - 1] = g[n - 1]
        BY <4>3
      <4> HIDE DEF h
      <4> QED BY <4>1, <4>2, <4>4
    <3> QED BY <3>1, <3>2
  <2>3. h = [n \in 1..(m + 1) |-> h[n]]
    OBVIOUS
  <2> HIDE DEF h
  <2>4. Goes(h, m + 1)
    BY <2>2, <2>3
  <2> QED BY <2>4
<1> HIDE DEF P
<1>5. P(N)
  <2> DEFINE Good == {m \in 0..N : P(m)}
  <2>1. 0 \in Good
    BY <1>1, <1>3
  <2>2. \A m \in 1..N : m - 1 \in Good => m \in Good
    <3>1. ASSUME NEW m \in 1..N, P(m - 1) PROVE P(m)
      <4>1. m - 1 \in Nat /\ (m - 1) + 1 = m
        BY <1>1
      <4>2. P((m - 1) + 1)
        BY <1>4, <3>1, <4>1
      <4> QED BY <4>1, <4>2
    <3> QED BY <3>1
  <2> HIDE DEF Good
  <2>3. N \in Good
    BY <1>1, <2>1, <2>2, UpTo
  <2> QED BY <2>3 DEF Good
<1>6. Goes(l, N)
  BY <1>5 DEF P
<1> HIDE DEF l
<1>7. l[1] = base
  BY <1>1, <1>6
<1>8. ASSUME NEW i \in 2..N PROVE l[i] = B(l[i - 1], i)
  <2>1. i \in 1..N /\ i # 1
    BY <1>1
  <2> QED BY <1>6, <2>1
<1>9. LevelSteps(l, d, keys, ops)
  BY <1>7, <1>8 DEF LevelSteps, N, B, base
<1>10. DependentAliases(d, method, request, upper) = UNION {ToSet(l[i]) : i \in 1..Len(ops)}
  BY <1>1, <1>2 DEF N
<1> HIDE DEF keys, ops
<1>11. \E g : /\ LevelSteps(g, d, keys, ops)
              /\ DependentAliases(d, method, request, upper) = UNION {ToSet(g[i]) : i \in 1..Len(ops)}
  BY <1>9, <1>10
<1> QED BY <1>11 DEF keys, ops

\* The names of the fields of a level are names of calculated fields, and each is one of them.
LEMMA AliasesAre ==
  ASSUME NEW d, NEW fields \in Seq(FieldSet(d))
  PROVE  /\ Aliases(fields) \in Seq(Derived) /\ IsInjective(Aliases(fields))
         /\ ToSet(Aliases(fields)) = {fields[j].alias : j \in DOMAIN fields}
<1> DEFINE s == [j \in DOMAIN fields |-> fields[j].alias]
<1>1. \A f \in FieldSet(d) : f.alias \in Derived
  BY DEF FieldSet, GoodField
<1>2. DOMAIN fields = 1..Len(fields) /\ Len(fields) \in Nat
  OBVIOUS
<1>3. s \in Seq(Derived)
  BY <1>1, <1>2
<1>4. ToSet(s) = {fields[j].alias : j \in DOMAIN fields}
  BY DEF ToSet
<1> HIDE DEF s
<1>5. Aliases(fields) = Distinct(s)
  BY DEF Aliases, s
<1> QED BY <1>3, <1>4, <1>5, DistinctIs

\* Every column of the first level is cast, or formatted, on both sides in the same way.
LEMMA BaseFieldIsGood ==
  ASSUME NEW d \in Databases, NEW keys, NEW j \in DOMAIN keys, j \in Nat \ {0},
         Has(d.source, keys[j]), Has(d.target, keys[j])
  PROVE  BaseField(d, keys, j) \in FieldSet(d)
<1> DEFINE s == ColumnOf(d.source, keys[j])
           t == ColumnOf(d.target, keys[j])
           c == BaseCast(d, s, t)
           n == Prefix(d, "cast", keys[j], j - 1)
<1>1. s.name \in Seq(Parts) /\ t.name \in Seq(Parts) /\ Pair(d, s.name, t.name)
      /\ keys[j] \in Seq(Parts)
  BY KeyPair, KeyNames, SidesAre
<1>2. BaseField(d, keys, j) = Field(<<s.name>>, <<t.name>>, c.op, c.param, n, 0)
  BY DEF BaseField
<1>3. "cast" \in Reserved /\ 0 \in Depths /\ j - 1 \in Nat
  BY DEF Reserved, Depths
<1>4. n \in Derived
  BY <1>1, <1>3, PrefixIsDerived
<1>5. c.op \in Words /\ c.param \in Words
  <2>1. TemporalFormat(d, s) \in {"days", "seconds"}
    BY Zenon DEF TemporalFormat
  <2> DEFINE p == IF IsBool(s.type, t.type) THEN "bool_string"
                  ELSE IF IsUuid(s.type, t.type) THEN "uuid_string" ELSE "string"
  <2>2. p \in {"bool_string", "uuid_string", "string"}
    BY Zenon
  <2>3. c = [op |-> "strftime", param |-> TemporalFormat(d, s)] \/ c = [op |-> "cast", param |-> p]
    BY Zenon DEF BaseCast
  <2> HIDE DEF c, p
  <2> QED BY <2>1, <2>2, <2>3 DEF Words, Reserved
<1> HIDE DEF s, t, c, n
<1> QED BY <1>1, <1>2, <1>3, <1>4, <1>5, UnaryIsGood

\* Every other level is made of the names of the one below.
LEMMA LevelIsGood ==
  ASSUME NEW d \in Databases, NEW op \in Reserved, NEW previous \in Seq(Derived),
         NEW depth \in Depths
  PROVE  LevelOf(d, op, previous, depth) \in Seq(FieldSet(d))
<1>1. previous \in Seq(Seq(Parts)) /\ \A j \in DOMAIN previous : previous[j] \in Derived
  BY ColumnNames
<1>2. op \in Words /\ "none" \in Words
  BY DEF Words
<1>3. CASE op \in {"concat", "hash"}
  <2> DEFINE x == <<op, "all">>
  <2>1. x \in Derived
    <3>1. op \in Parts /\ "all" \in Parts
      BY DEF Parts, Words
    <3>2. x \in Seq(Parts) /\ x[1] = op /\ x # <<>>
      BY <3>1
    <3> QED BY <3>2 DEF Derived
  <2> HIDE DEF x
  <2>2. Field(previous, previous, op, "none", x, depth) \in FieldSet(d)
    BY <1>1, <1>2, <2>1, FieldIsGood, DerivedPair
  <2>3. LevelOf(d, op, previous, depth) = << Field(previous, previous, op, "none", x, depth) >>
    BY <1>3 DEF LevelOf, x
  <2> QED BY <2>2, <2>3
<1>4. CASE op \notin {"concat", "hash"}
  <2> DEFINE F(j) == Field(<<previous[j]>>, <<previous[j]>>, op, "none",
                           Prefix(d, op, previous[j], j - 1), depth)
  <2>1. LevelOf(d, op, previous, depth) = [j \in DOMAIN previous |-> F(j)]
    BY <1>4 DEF LevelOf
  <2>2. Len(previous) \in Nat /\ DOMAIN previous = 1..Len(previous)
    OBVIOUS
  <2>3. ASSUME NEW j \in 1..Len(previous) PROVE F(j) \in FieldSet(d)
    <3>1. previous[j] \in Derived /\ previous[j] \in Seq(Parts) /\ j - 1 \in Nat
      BY <1>1, <2>2
    <3>2. Prefix(d, op, previous[j], j - 1) \in Derived
      BY <3>1, PrefixIsDerived
    <3> QED BY <1>2, <3>1, <3>2, UnaryIsGood, DerivedPair
  <2> HIDE DEF F
  <2> QED BY <2>1, <2>2, <2>3
<1> QED BY <1>3, <1>4

\* All levels are calculated fields.
LEMMA LevelsAreGood ==
  ASSUME NEW d \in Databases, NEW keys \in Seq(ColumnName),
         ToSet(keys) \subseteq KeysOf(d.source), ToSet(keys) \subseteq KeysOf(d.target),
         NEW ops \in Seq(Reserved), Len(ops) \in 4..6, NEW l, LevelSteps(l, d, keys, ops)
  PROVE  \A i \in 1..Len(ops) : l[i] \in Seq(FieldSet(d))
<1> DEFINE N == Len(ops)
           Good == {i \in 0..N : i # 0 => l[i] \in Seq(FieldSet(d))}
<1>1. N \in Nat /\ DOMAIN ops = 1..N
  OBVIOUS
<1>2. l[1] \in Seq(FieldSet(d))
  <2>1. l[1] = [j \in DOMAIN keys |-> BaseField(d, keys, j)]
    BY DEF LevelSteps
  <2>2. Len(keys) \in Nat /\ DOMAIN keys = 1..Len(keys)
    OBVIOUS
  <2>3. ASSUME NEW j \in 1..Len(keys) PROVE BaseField(d, keys, j) \in FieldSet(d)
    <3>1. keys[j] \in ToSet(keys)
      BY <2>2 DEF ToSet
    <3>2. Has(d.source, keys[j]) /\ Has(d.target, keys[j])
      BY <3>1, KeysAre, SidesAre
    <3> QED BY <2>2, <3>2, BaseFieldIsGood
  <2> QED BY <2>1, <2>2, <2>3
<1>3. ASSUME NEW i \in 1..N, i - 1 \in Good PROVE i \in Good
  <2>1. CASE i = 1
    BY <1>1, <1>2, <2>1
  <2>2. CASE i # 1
    <3>1. i \in 2..N /\ i - 1 # 0 /\ i \in 0..N
      BY <1>1, <2>2
    <3>2. l[i - 1] \in Seq(FieldSet(d))
      BY <1>3, <3>1
    <3>3. l[i] = LevelOf(d, ops[i], Aliases(l[i - 1]), i - 1)
      BY <3>1 DEF LevelSteps
    <3>4. ops[i] \in Reserved /\ i - 1 \in Depths
      BY <1>1, <3>1 DEF Depths
    <3>5. Aliases(l[i - 1]) \in Seq(Derived)
      BY <3>2, AliasesAre
    <3>6. l[i] \in Seq(FieldSet(d))
      BY <3>3, <3>4, <3>5, LevelIsGood
    <3> QED BY <3>1, <3>6
  <2> QED BY <2>1, <2>2
<1>4. \A i \in 0..N : i \in Good
  <2>1. 0 \in Good
    BY <1>1
  <2>2. \A i \in 1..N : i - 1 \in Good => i \in Good
    BY <1>3
  <2> HIDE DEF N, Good
  <2> QED BY <1>1, <2>1, <2>2, UpTo
<1> QED BY <1>1, <1>4

\* The keys of the columns that are hashed or concatenated.
LEMMA RowKeys ==
  ASSUME NEW d \in Databases, NEW request, ~DependentAliasesRaise(d, request)
  PROVE  LET keys == Keys(RowColumns(d, request).source)
         IN  /\ keys \in Seq(ColumnName)
             /\ ToSet(keys) \subseteq KeysOf(d.source) /\ ToSet(keys) \subseteq KeysOf(d.target)
<1> DEFINE left == RowColumns(d, request)
           S == Listed(d.source.columns, request, FALSE)
           T == Listed(d.target.columns, request, FALSE)
<1>1. /\ left.source = OfSupportedType(d, S, S, T)
      /\ left.target = OfSupportedType(d, T, S, T)
  BY SidesAre DEF RowColumns
<1>2. ToSet(Keys(left.source)) \subseteq ToSet(Keys(left.target))
  BY DEF DependentAliasesRaise
<1>3. Keys(left.source) \in Seq(ColumnName) /\ ToSet(Keys(left.source)) \subseteq KeysOf(d.source)
  BY <1>1, SupportedKeys, SidesAre
<1>4. ToSet(Keys(left.target)) \subseteq KeysOf(d.target)
  BY <1>1, SupportedKeys, SidesAre
<1> HIDE DEF left
<1>5. ToSet(Keys(left.source)) \subseteq KeysOf(d.target)
  BY <1>2, <1>4
<1> QED BY <1>3, <1>5 DEF left

\* What is hashed or concatenated is made of calculated fields.
LEMMA DependentAliasesAreGood ==
  ASSUME NEW d \in Databases, NEW method, NEW request, NEW upper,
         ~DependentAliasesRaise(d, request)
  PROVE  DependentAliases(d, method, request, upper) \subseteq FieldSet(d)
<1> DEFINE keys == Keys(RowColumns(d, request).source)
           ops == OrderOfOperations(method, upper)
<1>1. PICK l : /\ LevelSteps(l, d, keys, ops)
               /\ DependentAliases(d, method, request, upper)
                    = UNION {ToSet(l[i]) : i \in 1..Len(ops)}
  BY LevelsOf
<1>2. keys \in Seq(ColumnName) /\ ToSet(keys) \subseteq KeysOf(d.source)
      /\ ToSet(keys) \subseteq KeysOf(d.target)
  BY RowKeys
<1>3. ops \in Seq(Reserved) /\ Len(ops) \in 4..6
  BY OperationsAre
<1> HIDE DEF keys, ops
<1>4. \A i \in 1..Len(ops) : l[i] \in Seq(FieldSet(d))
  BY <1>1, <1>2, <1>3, LevelsAreGood
<1>5. \A i \in 1..Len(ops) : ToSet(l[i]) \subseteq FieldSet(d)
  BY <1>4 DEF ToSet
<1> QED BY <1>1, <1>5

-----------------------------------------------------------------------------
(* Aggregates and the calculated fields they need.                         *)

\* What is computed of a column before it is aggregated.
LEMMA CalcIs ==
  ASSUME NEW d, NEW key, NEW s, NEW t
  PROVE  LET calc == PreAggCalc(d, key, s, t)
         IN  calc \in [op : {"length", "byte_length", "epoch_seconds"}, param : {"none"}]
                        \cup [op : {"cast"}, param : {"uuid_string", "int64"}]
<1> DEFINE calc == PreAggCalc(d, key, s, t)
           json == "json" \in {s, t}
           text == s = "string"
           lob == IsSqlServerText(d, key, key)
           uuid == IsUuid(s, t)
           moment == s \in {"timestamp", "date"}
           C(op, param) == [op |-> op, param |-> param]
<1>1. calc \in {C("length", "none"), C("byte_length", "none"), C("epoch_seconds", "none"),
                C("cast", "uuid_string"), C("cast", "int64")}
  <2>1. CASE json
    BY <2>1 DEF PreAggCalc
  <2>2. CASE ~json /\ text /\ lob
    BY <2>2 DEF PreAggCalc
  <2>3. CASE ~json /\ text /\ ~lob
    BY <2>3 DEF PreAggCalc
  <2>4. CASE ~json /\ ~text /\ uuid
    BY <2>4 DEF PreAggCalc
  <2>5. CASE ~json /\ ~uuid /\ s = "binary"
    BY <2>5 DEF PreAggCalc
  <2>6. CASE ~json /\ ~uuid /\ moment
    BY <2>6 DEF PreAggCalc
  <2>7. CASE ~json /\ ~text /\ ~uuid /\ s # "binary" /\ ~moment
    BY <2>7 DEF PreAggCalc
  <2> QED BY <2>1, <2>2, <2>3, <2>4, <2>5, <2>6, <2>7
<1> QED BY <1>1

\* The cast of a column that a calculation needs first, numbered n.
OwnCast(d, key, n) ==
  LET s == ColumnOf(d.source, key)
      t == ColumnOf(d.target, key)
  IN  PreAggField(d, s.name, t.name, [op |-> "cast", param |-> FirstCast(d, s.type, t.type)], n, 0)

NeedsCast(d, key) ==
  FirstCast(d, ColumnOf(d.source, key).type, ColumnOf(d.target, key).type) # "none"

\* The calculation of a column, on the column or on its cast.
OwnCalc(d, key, n) ==
  LET s == ColumnOf(d.source, key)
      t == ColumnOf(d.target, key)
      calc == PreAggCalc(d, key, s.type, t.type)
      name == OwnCast(d, key, n).alias
  IN  IF NeedsCast(d, key) THEN PreAggField(d, name, name, calc, n, 1)
                           ELSE PreAggField(d, s.name, t.name, calc, n, 0)

Own(d, key, n) ==
  IF NeedsCast(d, key) THEN <<OwnCast(d, key, n), OwnCalc(d, key, n)>> ELSE <<OwnCalc(d, key, n)>>

\* The fields of an aggregated column are its own, whatever the aggregation.
LEMMA PreAggIs ==
  ASSUME NEW d, NEW key, NEW agg, NEW a, NEW n
  PROVE  /\ PreAggFields(d, key, agg, a, n) \in {<<>>, Own(d, key, n)}
         /\ (PreAggFields(d, key, agg, a, n) = <<>>) <=> ~RequiresPreAgg(d, key, agg, a.bigint)
         /\ Last(Own(d, key, n)) = OwnCalc(d, key, n)
         /\ Own(d, key, n) # <<>>
<1> DEFINE s == ColumnOf(d.source, key)
           t == ColumnOf(d.target, key)
           first == FirstCast(d, s.type, t.type)
           calc == PreAggCalc(d, key, s.type, t.type)
           cast == PreAggField(d, s.name, t.name, [op |-> "cast", param |-> first], n, 0)
           need == RequiresPreAgg(d, key, agg, a.bigint)
           pre == PreAggFields(d, key, agg, a, n)
<1>1. Last(Own(d, key, n)) = OwnCalc(d, key, n) /\ Own(d, key, n) # <<>>
  <2>1. CASE NeedsCast(d, key)
    BY <2>1 DEF Own, Last
  <2>2. CASE ~NeedsCast(d, key)
    BY <2>2 DEF Own, Last
  <2> QED BY <2>1, <2>2
<1>2. ~need => pre = <<>>
  BY DEF PreAggFields
<1>3. need => pre = Own(d, key, n)
  <2>1. CASE need /\ first = "none"
    <3>1. pre = << PreAggField(d, s.name, t.name, calc, n, 0) >>
      BY <2>1 DEF PreAggFields
    <3>2. ~NeedsCast(d, key)
      BY <2>1 DEF NeedsCast
    <3>3. OwnCalc(d, key, n) = PreAggField(d, s.name, t.name, calc, n, 0)
      BY <3>2 DEF OwnCalc
    <3> HIDE DEF pre
    <3> QED BY <3>1, <3>2, <3>3 DEF Own
  <2>2. CASE need /\ first # "none"
    <3>1. pre = << cast, PreAggField(d, cast.alias, cast.alias, calc, n, 1) >>
      BY <2>2 DEF PreAggFields
    <3>2. NeedsCast(d, key)
      BY <2>2 DEF NeedsCast
    <3>3. cast = OwnCast(d, key, n)
      BY DEF OwnCast
    <3>4. OwnCalc(d, key, n) = PreAggField(d, cast.alias, cast.alias, calc, n, 1)
      BY <3>2, <3>3 DEF OwnCalc
    <3> HIDE DEF pre, cast
    <3> QED BY <3>1, <3>2, <3>3, <3>4 DEF Own
  <2> QED BY <2>1, <2>2
<1> HIDE DEF need, pre
<1>4. pre \in {<<>>, Own(d, key, n)} /\ (pre = <<>> <=> ~need)
  BY <1>1, <1>2, <1>3
<1> QED BY <1>1, <1>4 DEF pre, need

\* A field that is computed of what means the same on both sides.
LEMMA PreAggFieldIsGood ==
  ASSUME NEW d \in Databases, NEW a \in Seq(Parts), NEW b \in Seq(Parts), Pair(d, a, b),
         NEW n \in Nat, NEW depth \in {0, 1},
         NEW calc \in [op : {"length", "byte_length", "epoch_seconds"}, param : {"none"}]
                        \cup [op : {"cast"}, param : DOMAIN CastPrefix]
  PROVE  /\ PreAggField(d, a, b, calc, n, depth) \in FieldSet(d)
         /\ PreAggField(d, a, b, calc, n, depth).alias \in Derived
<1> DEFINE prefix == IF calc.op = "cast" THEN CastPrefix[calc.param] ELSE calc.op
           alias == Prefix(d, prefix, a, n)
<1>1. prefix \in Reserved
  BY DEF Reserved
<1>2. alias \in Derived
  BY <1>1, PrefixIsDerived
<1>3. calc.op \in Words /\ calc.param \in Words /\ depth \in Depths
  <2>1. DOMAIN CastPrefix = {"string", "timestamp", "uuid_string", "int64"}
    BY DEF CastPrefix
  <2>2. calc.op \in {"length", "byte_length", "epoch_seconds", "cast"}
        /\ calc.param \in {"none"} \cup DOMAIN CastPrefix
    OBVIOUS
  <2> QED BY <2>1, <2>2 DEF Words, Reserved, Depths
<1>4. PreAggField(d, a, b, calc, n, depth) = Field(<<a>>, <<b>>, calc.op, calc.param, alias, depth)
  BY DEF PreAggField
<1> HIDE DEF alias
<1>5. Field(<<a>>, <<b>>, calc.op, calc.param, alias, depth).alias = alias
  BY DEF Field
<1> QED BY <1>2, <1>3, <1>4, <1>5, UnaryIsGood

\* What a calculation may need first.
LEMMA FirstIs ==
  ASSUME NEW d, NEW s, NEW t
  PROVE  FirstCast(d, s, t) \in {"string", "timestamp", "none"}
<1>1. CASE "json" \in {s, t}
  BY <1>1 DEF FirstCast
<1>2. CASE "json" \notin {s, t} /\ s \in {"timestamp", "date"} /\ ~IsUuid(s, t) /\ OnBigquery(d)
  BY <1>2 DEF FirstCast
<1>3. CASE ~ ("json" \in {s, t} \/ (s \in {"timestamp", "date"} /\ ~IsUuid(s, t) /\ OnBigquery(d)))
  BY <1>3 DEF FirstCast
<1> QED BY <1>1, <1>2, <1>3

\* A column's own fields are calculated fields.
LEMMA OwnIsGood ==
  ASSUME NEW d \in Databases, NEW key, Has(d.source, key), Has(d.target, key), NEW n \in Nat
  PROVE  /\ NeedsCast(d, key) => OwnCast(d, key, n) \in FieldSet(d)
                              /\ OwnCast(d, key, n).alias \in Derived
         /\ OwnCalc(d, key, n) \in FieldSet(d) /\ OwnCalc(d, key, n).alias \in Derived
         /\ ToSet(Own(d, key, n)) \subseteq FieldSet(d)
<1> DEFINE s == ColumnOf(d.source, key)
           t == ColumnOf(d.target, key)
           calc == PreAggCalc(d, key, s.type, t.type)
           first == FirstCast(d, s.type, t.type)
           cast == OwnCast(d, key, n)
           CalcSet == [op : {"length", "byte_length", "epoch_seconds"}, param : {"none"}]
                        \cup [op : {"cast"}, param : DOMAIN CastPrefix]
<1>1. s.name \in Seq(Parts) /\ t.name \in Seq(Parts) /\ Pair(d, s.name, t.name)
  BY KeyPair, KeyNames, SidesAre
<1>2. DOMAIN CastPrefix = {"string", "timestamp", "uuid_string", "int64"}
  BY DEF CastPrefix
<1>3. calc \in CalcSet
  <2>1. calc \in [op : {"length", "byte_length", "epoch_seconds"}, param : {"none"}]
                   \cup [op : {"cast"}, param : {"uuid_string", "int64"}]
    BY CalcIs
  <2> HIDE DEF calc
  <2> QED BY <1>2, <2>1
<1>4. NeedsCast(d, key) <=> first # "none"
  BY DEF NeedsCast
<1>5. ASSUME NeedsCast(d, key) PROVE cast \in FieldSet(d) /\ cast.alias \in Derived
  <2> DEFINE c == [op |-> "cast", param |-> first]
  <2>1. first \in {"string", "timestamp"}
    BY <1>4, <1>5, FirstIs
  <2>2. cast = PreAggField(d, s.name, t.name, c, n, 0)
    BY DEF OwnCast
  <2> HIDE DEF first
  <2>3. c \in CalcSet
    BY <1>2, <2>1
  <2> HIDE DEF c, s, t, cast
  <2> QED BY <1>1, <2>2, <2>3, PreAggFieldIsGood
<1> HIDE DEF calc, cast
<1>6. OwnCalc(d, key, n) \in FieldSet(d) /\ OwnCalc(d, key, n).alias \in Derived
  <2>1. CASE NeedsCast(d, key)
    <3>1. OwnCalc(d, key, n) = PreAggField(d, cast.alias, cast.alias, calc, n, 1)
      BY <2>1 DEF OwnCalc, cast, calc
    <3>2. cast.alias \in Derived /\ cast.alias \in Seq(Parts)
      BY <1>5, <2>1, ColumnNames
    <3> QED BY <1>3, <3>1, <3>2, DerivedPair, PreAggFieldIsGood
  <2>2. CASE ~NeedsCast(d, key)
    <3>1. OwnCalc(d, key, n) = PreAggField(d, s.name, t.name, calc, n, 0)
      BY <2>2 DEF OwnCalc, calc
    <3> HIDE DEF s, t
    <3> QED BY <1>1, <1>3, <3>1, PreAggFieldIsGood
  <2> QED BY <2>1, <2>2
<1>7. ToSet(Own(d, key, n)) \subseteq FieldSet(d)
  BY <1>5, <1>6 DEF Own, ToSet, cast
<1> QED BY <1>5, <1>6, <1>7 DEF cast

\* The number of a column in the names made for it.
Place(d, key) == (CHOOSE i \in DOMAIN d.source.columns : d.source.columns[i].key = key) - 1

\* The fields an aggregation of a column needs, and the aggregate.
PreOf(d, agg, a, key) == PreAggFields(d, key, agg, a, Place(d, key))
AggOf(d, agg, a, key) == AggregateOf(d, key, agg, PreOf(d, agg, a, key), Place(d, key))

\* Different columns have different numbers, all of them with digits.
LEMMA PlaceIs ==
  ASSUME NEW d \in Databases, NEW key, Has(d.source, key)
  PROVE  /\ Place(d, key) \in Nat /\ Place(d, key) \in DOMAIN Numeral
         /\ Place(d, key) + 1 \in DOMAIN d.source.columns
         /\ d.source.columns[Place(d, key) + 1].key = key
<1> DEFINE i == CHOOSE i \in DOMAIN d.source.columns : d.source.columns[i].key = key
<1>1. i \in DOMAIN d.source.columns /\ d.source.columns[i].key = key
  BY DEF Has
<1>2. Place(d, key) = i - 1
  BY DEF Place
<1> HIDE DEF i
<1>3. DOMAIN d.source.columns = 1..Len(d.source.columns) /\ Len(d.source.columns) \in Nat
      /\ i - 1 \in DOMAIN Numeral
  BY <1>1, TableOf, SidesAre
<1> QED BY <1>1, <1>2, <1>3

\* The aggregated columns: those wanted that both tables have and the code does not skip.
LEMMA AggregatedAre ==
  ASSUME NEW d \in Databases, NEW agg, NEW a
  PROVE  LET keys == AggregatedKeys(d, agg, a)
         IN  /\ keys \in Seq(ColumnName) /\ IsInjective(keys)
             /\ \A key : key \in ToSet(keys) <=>
                  /\ Has(d.source, key) /\ Has(d.target, key)
                  /\ key \in Wanted(d, agg, a) /\ ~Skipped(d, key, agg, a)
<1> DEFINE K == {k \in Wanted(d, agg, a) : Has(d.target, k) /\ ~Skipped(d, k, agg, a)}
           keys == Keys(d.source.columns)
<1>1. keys \in Seq(ColumnName) /\ IsInjective(keys)
      /\ \A key : key \in ToSet(keys) <=> Has(d.source, key)
  BY KeysAre, SidesAre DEF KeysOf
<1>2. AggregatedKeys(d, agg, a) = Keep(keys, K)
  BY DEF AggregatedKeys
<1> HIDE DEF keys, K
<1>3. Keep(keys, K) \in Seq(ColumnName) /\ IsInjective(Keep(keys, K))
      /\ ToSet(Keep(keys, K)) = ToSet(keys) \cap K
  BY <1>1, KeepIs
<1> QED BY <1>1, <1>2, <1>3 DEF K

\* An aggregate is one of what means the same on both sides.
LEMMA AggOfIsGood ==
  ASSUME NEW d \in Databases, NEW agg, agg.type \in AggregateTypes, NEW a,
         NEW key, Has(d.source, key), Has(d.target, key)
  PROVE  AggOf(d, agg, a, key) \in GoodAggregates(d)
<1> DEFINE s == ColumnOf(d.source, key)
           t == ColumnOf(d.target, key)
           n == Place(d, key)
           pre == PreOf(d, agg, a, key)
           calc == OwnCalc(d, key, n)
           cast == AggregateCast(d, key, agg, pre)
           Agg(x, y, z) == [type |-> agg.type,
                            ref |-> Reference(x, y, Prefix(d, agg.type, z, n), cast)]
<1>1. s.name \in ColumnName /\ t.name \in ColumnName /\ Pair(d, s.name, t.name)
      /\ key \in Seq(Parts)
  BY ColumnOfKey, KeyPair, KeyNames, SidesAre DEF TableColumn
<1>2. n \in Nat
  BY PlaceIs
<1>3. calc.alias \in Derived
  BY <1>2, OwnIsGood
<1>4. pre # <<>> => Last(pre) = calc
  BY PreAggIs DEF PreOf
<1>5. AggOf(d, agg, a, key) = IF pre = <<>> THEN Agg(s.name, t.name, key)
                              ELSE Agg(Last(pre).alias, Last(pre).alias, Last(pre).alias)
  BY DEF AggOf, AggregateOf
<1>6. cast \in Words
  <2> DEFINE float == agg.type \in {"std", "avg"}
             big == DecimalTooBig(d.source, t.type, 0)
  <2>1. CASE pre # <<>>
    <3>1. cast = IF Last(pre).op = "epoch_seconds" /\ agg.type = "sum" THEN "string" ELSE "none"
      BY <2>1 DEF AggregateCast
    <3> QED BY <3>1 DEF Words
  <2>2. CASE pre = <<>>
    <3> DEFINE b == DecimalTooBig(s.type, t.type, IF agg.type = "sum" THEN 2 ELSE 0)
    <3>1. CASE b
      <4>1. cast = IF agg.type \in {"std", "avg"} THEN "float64" ELSE "string"
        BY <2>2, <3>1 DEF AggregateCast
      <4> QED BY <4>1 DEF Words
    <3>2. CASE ~b
      <4>1. cast = "none"
        BY <2>2, <3>2 DEF AggregateCast
      <4> QED BY <4>1 DEF Words
    <3> QED BY <3>1, <3>2
  <2> QED BY <2>1, <2>2
<1> HIDE DEF s, t, n, pre, calc, cast
<1>7. agg.type \in Reserved
  BY DEF Reserved
<1>8. ASSUME NEW x \in Seq(Parts) \ {<<>>}, NEW y \in Seq(Parts) \ {<<>>}, Pair(d, x, y),
             NEW z \in Seq(Parts)
      PROVE  Agg(x, y, z) \in GoodAggregates(d)
  <2>1. Prefix(d, agg.type, z, n) \in Seq(Parts)
    BY <1>2, <1>7, <1>8, PrefixIsDerived, ColumnNames
  <2>2. Reference(x, y, Prefix(d, agg.type, z, n), cast) \in GoodRefs(d)
    BY <1>6, <1>8, <2>1 DEF Reference, GoodRefs, Refs
  <2>3. Agg(x, y, z).ref \in GoodRefs(d) /\ Agg(x, y, z) \in [type : AggregateTypes, ref : Refs]
    BY <2>2 DEF GoodRefs
  <2> HIDE DEF Agg
  <2> QED BY <2>3 DEF GoodAggregates
<1> HIDE DEF Agg
<1>9. CASE pre = <<>>
  BY <1>1, <1>5, <1>8, <1>9, ColumnNames
<1>10. CASE pre # <<>>
  <2>1. Last(pre).alias \in Seq(Parts) \ {<<>>} /\ Pair(d, Last(pre).alias, Last(pre).alias)
    BY <1>3, <1>4, <1>10, DerivedPair, ColumnNames
  <2> QED BY <1>5, <1>8, <1>10, <2>1
<1> QED BY <1>9, <1>10

\* v has the calculated fields after those of each column of the list.
CalculatedSteps(v, d, agg, a, keys, fields) ==
  /\ v \in [0..Len(keys) -> SUBSET FieldSet(d)]
  /\ v[0] = fields
  /\ \A i \in 1..Len(keys) : v[i] = AppendNew(v[i - 1], PreOf(d, agg, a, keys[i]))

\* One aggregation after another column by column.
LEMMA AggregatesOf ==
  ASSUME NEW d \in Databases, NEW agg, NEW a, NEW c,
         c \in ConfigSet(d)
  PROVE  LET keys == AggregatedKeys(d, agg, a)
             w == WithAggregates(d, c, agg, a)
         IN  /\ \E v : CalculatedSteps(v, d, agg, a, keys, c.calculated)
                       /\ w.calculated = v[Len(keys)]
             /\ w.aggregates = c.aggregates \o [i \in DOMAIN keys |-> AggOf(d, agg, a, keys[i])]
<1> DEFINE s == AggregatedKeys(d, agg, a)
           n == Len(s)
           T == SUBSET FieldSet(d)
           base == c.calculated
           w == WithAggregates(d, c, agg, a)
           B(x, i) == AppendNew(x, PreAggFields(d, s[i], agg, a, PositionOf(d, agg, a, s[i])))
           step == [p \in T \X (1..n) |-> B(p[1], p[2])]
           Goes(f) == f = [u \in SUBSET (1..n) |->
                            IF u = {} THEN base ELSE B(f[u \ {Max(u)}], Max(u))]
           f == CHOOSE f : Goes(f)
           new == [i \in DOMAIN s |-> AggregateOf(d, s[i], agg,
                     PreAggFields(d, s[i], agg, a, PositionOf(d, agg, a, s[i])),
                     PositionOf(d, agg, a, s[i]))]
<1>9. s \in Seq(ColumnName) /\ \A key \in ToSet(s) : Has(d.source, key) /\ Has(d.target, key)
  BY AggregatedAre
<1> HIDE DEF s
<1>1. s \in Seq(ColumnName) /\ \A i \in DOMAIN s : Has(d.source, s[i]) /\ Has(d.target, s[i])
  BY <1>9 DEF ToSet
<1>2. n \in Nat /\ DOMAIN s = 1..n
  BY <1>1
<1>3. base \in T
  BY DEF ConfigSet
<1>4. \A i \in 1..n : PreAggFields(d, s[i], agg, a, PositionOf(d, agg, a, s[i])) = PreOf(d, agg, a, s[i])
  BY DEF PreOf, PositionOf, Place
<1>5. \A x \in T, i \in 1..n : B(x, i) \in T
  <2>1. ASSUME NEW i \in 1..n PROVE ToSet(PreOf(d, agg, a, s[i])) \subseteq FieldSet(d)
    <3>1. Place(d, s[i]) \in Nat /\ Has(d.source, s[i]) /\ Has(d.target, s[i])
      BY <1>1, <1>2, PlaceIs
    <3>2. PreOf(d, agg, a, s[i]) \in {<<>>, Own(d, s[i], Place(d, s[i]))}
      BY PreAggIs DEF PreOf
    <3>3. ToSet(Own(d, s[i], Place(d, s[i]))) \subseteq FieldSet(d)
      BY <3>1, OwnIsGood
    <3> QED BY <3>2, <3>3, EmptyList
  <2> QED BY <1>4, <2>1 DEF AppendNew
<1>6. w = [c EXCEPT !.calculated = f[1..n], !.aggregates = c.aggregates \o new]
  <2>1. f[1..n] =
          (CHOOSE h : h = [u \in SUBSET (DOMAIN s) |->
             IF u = {} THEN base ELSE B(h[u \ {Max(u)}], Max(u))])[DOMAIN s]
    BY <1>2
  <2> HIDE DEF n
  <2>2. w = [c EXCEPT !.calculated =
               (CHOOSE h : h = [u \in SUBSET (DOMAIN s) |->
                  IF u = {} THEN base ELSE B(h[u \ {Max(u)}], Max(u))])[DOMAIN s],
                      !.aggregates = c.aggregates \o new]
    BY DEF WithAggregates, FoldLeft, MapThenFoldSet, s
  <2> QED BY <2>1, <2>2
<1> HIDE DEF n, T, base, B
<1>10. step \in [T \X (1..n) -> T] /\ \A x \in T, i \in 1..n : step[<<x, i>>] = B(x, i)
  BY <1>5
<1> HIDE DEF step
<1>11. \A u \in SUBSET (1..n) : u # {} => u \ {Max(u)} \in SUBSET (1..n) /\ Max(u) \in 1..n
  BY <1>2, LastNumber
<1>12. \E h : Goes(h)
  <2>1. PICK h \in [SUBSET (1..n) -> T] : FoldOf(h, n, base, step)
    BY <1>2, <1>3, <1>10, FoldExists
  <2>2. ASSUME NEW u \in SUBSET (1..n)
        PROVE  h[u] = IF u = {} THEN base ELSE B(h[u \ {Max(u)}], Max(u))
    <3>1. h[u] = IF u = {} THEN base ELSE step[<<h[u \ {Max(u)}], Max(u)>>]
      BY <2>1 DEF FoldOf
    <3>2. u # {} => h[u \ {Max(u)}] \in T /\ Max(u) \in 1..n
      BY <2>1, <1>11
    <3> QED BY <1>10, <3>1, <3>2
  <2>3. h = [u \in SUBSET (1..n) |-> h[u]]
    BY <2>1
  <2> QED BY <2>2, <2>3
<1>13. Goes(f)
  BY <1>12
<1> HIDE DEF f
<1>14. f[{}] = base
  BY <1>13
<1>15. \A u \in SUBSET (1..n) :
         u # {} /\ f[u \ {Max(u)}] \in T => f[u] = step[<<f[u \ {Max(u)}], Max(u)>>]
  BY <1>10, <1>11, <1>13
<1> HIDE DEF Goes
<1>16. GoesBy(f, T, n, base, step)
  BY <1>14, <1>15 DEF GoesBy
<1>17. PICK v : StepsTo(v, f[1..n], T, n, base, step)
  BY <1>2, <1>3, <1>10, <1>16, FoldThrough
<1>18. ASSUME NEW i \in 1..n PROVE v[i] = B(v[i - 1], i)
  <2>1. v[i - 1] \in T
    BY <1>2, <1>17 DEF StepsTo
  <2> QED BY <1>10, <1>17, <2>1 DEF StepsTo
<1>19. \A i \in 1..n : v[i] = AppendNew(v[i - 1], PreOf(d, agg, a, s[i]))
  BY <1>4, <1>18 DEF B
<1>20. CalculatedSteps(v, d, agg, a, s, c.calculated) /\ f[1..n] = v[n]
  BY <1>2, <1>17, <1>19 DEF n, T, base, StepsTo, CalculatedSteps
<1>21. new = [i \in DOMAIN s |-> AggOf(d, agg, a, s[i])]
  BY DEF AggOf, PreOf, PositionOf, Place
<1> HIDE DEF new, w
<1>22. w.calculated = v[Len(s)] /\ w.aggregates = c.aggregates \o new
  BY <1>6, <1>20 DEF n, ConfigSet
<1> QED BY <1>20, <1>21, <1>22 DEF w, s

\* A configuration with other calculated fields and aggregates.
Changed(c, x, y) == [c EXCEPT !.calculated = x, !.aggregates = y]

\* An aggregation changes nothing else.
LEMMA AggregatesChange ==
  ASSUME NEW d, NEW agg, NEW a, NEW c \in ConfigSet(d)
  PROVE  \E x, y : WithAggregates(d, c, agg, a) = Changed(c, x, y)
<1> DEFINE s == AggregatedKeys(d, agg, a)
           Pre(key) == PreAggFields(d, key, agg, a, PositionOf(d, agg, a, key))
           x == FoldLeft(LAMBDA fields, key : AppendNew(fields, Pre(key)), c.calculated, s)
           y == c.aggregates \o [i \in DOMAIN s |->
                  AggregateOf(d, s[i], agg, Pre(s[i]), PositionOf(d, agg, a, s[i]))]
<1>1. WithAggregates(d, c, agg, a) = Changed(c, x, y)
  BY DEF WithAggregates, Changed
<1> HIDE DEF x, y
<1> QED BY <1>1

\* An aggregation adds aggregates and the fields they need.
LEMMA WithAggregatesIsGood ==
  ASSUME NEW d \in Databases, NEW agg, agg.type \in AggregateTypes, NEW a, NEW c, GoodConfig(d, a, c)
  PROVE  GoodConfig(d, a, WithAggregates(d, c, agg, a))
<1> DEFINE keys == AggregatedKeys(d, agg, a)
           w == WithAggregates(d, c, agg, a)
           new == [i \in DOMAIN keys |-> AggOf(d, agg, a, keys[i])]
<1>1. c \in ConfigSet(d)
  BY DEF GoodConfig
<1>2. PICK v : CalculatedSteps(v, d, agg, a, keys, c.calculated) /\ w.calculated = v[Len(keys)]
  BY <1>1, AggregatesOf
<1>3. w.aggregates = c.aggregates \o new
  BY <1>1, AggregatesOf
<1>9. PICK x, y : w = Changed(c, x, y)
  BY <1>1, AggregatesChange
<1>4. keys \in Seq(ColumnName) /\ \A key \in ToSet(keys) : Has(d.source, key) /\ Has(d.target, key)
  BY AggregatedAre
<1> HIDE DEF keys, w
<1>5. w.calculated \in SUBSET FieldSet(d)
  <2>1. Len(keys) \in 0..Len(keys)
    BY <1>4
  <2> QED BY <1>2, <2>1 DEF CalculatedSteps
<1>6. new \in Seq(GoodAggregates(d))
  <2>1. DOMAIN keys = 1..Len(keys) /\ Len(keys) \in Nat
    BY <1>4
  <2>2. ASSUME NEW i \in 1..Len(keys) PROVE AggOf(d, agg, a, keys[i]) \in GoodAggregates(d)
    <3>1. Has(d.source, keys[i]) /\ Has(d.target, keys[i])
      BY <1>4, <2>1 DEF ToSet
    <3> QED BY <3>1, AggOfIsGood
  <2> QED BY <2>1, <2>2
<1>7. w.aggregates \in Seq(GoodAggregates(d))
  <2>1. c.aggregates \in Seq(GoodAggregates(d))
    BY <1>1 DEF ConfigSet
  <2> HIDE DEF new
  <2> QED BY <1>3, <1>6, <2>1
<1>8. w \in ConfigSet(d) /\ w.groups = c.groups
  <2>1. w.calculated = x /\ w.aggregates = y
    BY <1>1, <1>9 DEF ConfigSet, Changed
  <2>2. x \in SUBSET FieldSet(d) /\ y \in Seq(GoodAggregates(d))
    BY <1>5, <1>7, <2>1
  <2> QED BY <1>1, <1>9, <2>2 DEF ConfigSet, Changed
<1> QED BY <1>8 DEF GoodConfig, w

-----------------------------------------------------------------------------
(* The command: every configuration is made of what means the same on both *)
(* sides, and the queries are those of the configurations.                 *)

Arguments == {input.args : input \in Inputs}

Aggregation == [type : AggregateTypes, columns : ColumnLists]

\* What the assumption says of the arguments.
LEMMA ArgumentsAre ==
  ASSUME NEW a \in Arguments
  PROVE  /\ a.kind \in {"row", "column"}
         /\ a.method \in {"hash", "concat", "comparison", "none"}
         /\ a.exclude \in BOOLEAN /\ a.upper \in BOOLEAN /\ a.custom \in BOOLEAN
         /\ a.maxConcat \in Nat /\ a.columns \in ColumnLists
         /\ a.columns.list \in Seq(Seq(STRING)) /\ IsInjective(a.columns.list)
         /\ a.primary \in Seq(Seq(STRING)) /\ IsInjective(a.primary)
         /\ a.groups \in Seq(Seq(STRING)) /\ IsInjective(a.groups)
         /\ a.aggregates \in Seq(Aggregation)
         /\ \A i, j \in DOMAIN a.aggregates :
              a.aggregates[i].type = a.aggregates[j].type => i = j
         /\ \A i \in DOMAIN a.aggregates : a.aggregates[i].columns # List(<<>>)
<1>1. /\ a.kind \in {"row", "column"}
      /\ a.method \in {"hash", "concat", "comparison", "none"}
      /\ {a.exclude, a.upper, a.custom} \subseteq BOOLEAN
      /\ a.maxConcat \in Nat
      /\ a.columns \in ColumnLists
      /\ \A list \in {a.columns.list, a.primary, a.groups} :
           list \in Seq(Seq(STRING)) /\ IsInjective(list)
      /\ a.aggregates \in Seq(Aggregation)
      /\ IsInjective([i \in DOMAIN a.aggregates |-> a.aggregates[i].type])
      /\ List(<<>>) \notin {a.aggregates[i].columns : i \in DOMAIN a.aggregates}
  BY ArgumentsAssumption DEF Arguments, Aggregation
<1>2. \A i, j \in DOMAIN a.aggregates : a.aggregates[i].type = a.aggregates[j].type => i = j
  BY <1>1 DEF IsInjective
<1> QED BY <1>1, <1>2

\* The pair of queries of a configuration.
QueriesOf(d, c) == [s \in Sides |-> Query(d[s], s, c)]

Compiled(d, c) == \A s \in Sides : Compiles(d[s], s, c)

Stages ==
  {"start", "begin", "aggregates", "calculated fields", "primary keys", "comparison fields",
   "built", "validate", "raised"}

\* The invariant: what the command is given, what it has still to do, and what it has built.
Given == db \in Databases /\ args \in Arguments

Waiting ==
  /\ stage \in Stages
  /\ pending \in Seq(ColumnLists)
  /\ unaggregated \in Seq(Aggregation)

Built ==
  /\ GoodConfig(db, args, config)
  /\ stage = "aggregates" => config.groups = <<>>
  /\ managers \in Seq(ConfigSet(db))
  /\ \A n \in DOMAIN managers : GoodConfig(db, args, managers[n])

Asked ==
  /\ Len(queries) \in 0..Len(managers) /\ DOMAIN queries = 1..Len(queries)
  /\ queries = [n \in 1..Len(queries) |-> QueriesOf(db, managers[n])]
  /\ \A n \in 1..Len(queries) : Compiled(db, managers[n])

QInv == Given /\ Waiting /\ Built /\ Asked

\* The invariant implies that the queries agree.
LEMMA QInvAgrees == QInv => QueriesAgree
<1> SUFFICES ASSUME QInv, NEW n \in DOMAIN queries, GroupsAreAlike
             PROVE  Query(Neutral(db.source), "source", managers[n])
                      = Query(Neutral(db.target), "target", managers[n])
  BY SidesAre DEF QueriesAgree
<1>1. db \in Databases /\ Alike(db, args.groups)
  BY DEF QInv, Given, GroupsAreAlike, Alike
<1>2. n \in DOMAIN managers
  <2>1. n \in 1..Len(queries) /\ Len(queries) \in 0..Len(managers)
    BY DEF QInv, Asked
  <2>2. DOMAIN managers = 1..Len(managers) /\ Len(managers) \in Nat
    BY DEF QInv, Built
  <2> QED BY <2>1, <2>2
<1>3. GoodConfig(db, args, managers[n])
  BY <1>2 DEF QInv, Built
<1>4. \A s \in Sides : Compiles(db[s], s, managers[n])
  BY DEF QInv, Asked, Compiled
<1> QED BY <1>1, <1>3, <1>4, QueriesOfAgree

\* The empty configuration is one.
LEMMA EmptyIsGood ==
  ASSUME NEW d
  PROVE  EmptyConfig \in ConfigSet(d) /\ EmptyConfig.groups = <<>>
<1>1. \A S : {} \in SUBSET S /\ <<>> \in Seq(S)
  OBVIOUS
<1>2. List(<<>>) \in ColumnLists
  BY <1>1 DEF List, ColumnLists
<1>3. EmptyConfig.groups = <<>>
  BY DEF EmptyConfig
<1> HIDE DEF List
<1>4. EmptyConfig \in ConfigSet(d)
  BY <1>1, <1>2 DEF EmptyConfig, ConfigSet
<1> QED BY <1>3, <1>4

\* It is one with the columns asked for, and with some aggregates, too.
LEMMA BegunIsGood ==
  ASSUME NEW d, NEW a, NEW e \in ConfigSet(d), e.groups = <<>>, NEW x \in ColumnLists,
         NEW y \in Seq(GoodAggregates(d))
  PROVE  GoodConfig(d, a, [e EXCEPT !.columns = x, !.aggregates = y])
<1> DEFINE c == [e EXCEPT !.columns = x, !.aggregates = y]
<1>1. c \in ConfigSet(d) /\ c.groups = <<>>
  BY DEF ConfigSet
<1> HIDE DEF c
<1>2. GoodConfig(d, a, c)
  BY <1>1 DEF GoodConfig
<1> QED BY <1>2 DEF c

\* One more at the end of a list.
LEMMA OneMore ==
  ASSUME NEW n \in Nat, NEW s, s = [i \in 1..n |-> s[i]], NEW x
  PROVE  Append(s, x) = [i \in 1..(n + 1) |-> IF i = n + 1 THEN x ELSE s[i]]
<1> DEFINE S == {s[i] : i \in 1..n} \cup {x}
           t == [i \in 1..n |-> s[i]]
<1>1. t \in Seq(S) /\ x \in S /\ Len(t) = n
  OBVIOUS
<1> HIDE DEF S, t
<1>2. s = t
  BY DEF t
<1> DEFINE u == Append(t, x)
<1>4. u \in Seq(S) /\ Len(u) = n + 1 /\ u[n + 1] = x /\ \A i \in 1..n : u[i] = t[i]
  BY <1>1
<1> HIDE DEF u
<1>5. u = [i \in 1..(n + 1) |-> u[i]]
  BY <1>4
<1>6. \A i \in 1..(n + 1) : i = n + 1 \/ i \in 1..n
  OBVIOUS
<1>7. \A i \in 1..(n + 1) : u[i] = IF i = n + 1 THEN x ELSE t[i]
  BY <1>4, <1>6
<1>3. Append(t, x) = [i \in 1..(n + 1) |-> IF i = n + 1 THEN x ELSE t[i]]
  BY <1>5, <1>7 DEF u
<1> QED BY <1>2, <1>3

\* The smaller one of a set of at most two numbers.
LEMMA MinIs ==
  ASSUME NEW x \in Nat, NEW y \in Nat, NEW S, S \subseteq {x, y}, S # {}
  PROVE  Min(S) \in S
<1>1. \E z \in S : \A w \in S : z <= w
  <2>1. CASE x \in S /\ x <= y
    BY <2>1
  <2>2. CASE y \in S /\ y <= x
    BY <2>2
  <2>3. CASE x \in S /\ y \notin S
    BY <2>3
  <2>4. CASE y \in S /\ x \notin S
    BY <2>4
  <2>5. x \in S \/ y \in S
    OBVIOUS
  <2>6. x <= y \/ y <= x
    OBVIOUS
  <2> QED BY <2>1, <2>2, <2>3, <2>4, <2>5, <2>6
<1> QED BY <1>1 DEF Min

\* How many columns can be concatenated; no limit is 0.
LEMMA LimitIs == Given => MaxConcatColumns \in Nat
<1> SUFFICES ASSUME Given PROVE MaxConcatColumns \in Nat
  OBVIOUS
<1> DEFINE x == MaxConcatDefault[db["source"].client]
           y == MaxConcatDefault[db["target"].client]
           limits == {MaxConcatDefault[db[s].client] : s \in Sides} \ {0}
<1>1. x \in Nat /\ y \in Nat
  BY TablesAssumption, SidesAre DEF Given, Databases
<1>2. limits \subseteq {x, y}
  BY SidesAre
<1>3. args.maxConcat \in Nat
  BY ArgumentsAre DEF Given
<1>4. MaxConcatColumns = IF args.maxConcat # 0 THEN args.maxConcat
                         ELSE IF limits = {} THEN 0 ELSE Min(limits)
  BY DEF MaxConcatColumns
<1> HIDE DEF x, y, limits
<1>5. limits # {} => Min(limits) \in Nat
  BY <1>1, <1>2, MinIs
<1> QED BY <1>3, <1>4, <1>5

\* The pieces of a list are lists.
LEMMA PiecesAreLists ==
  ASSUME NEW K, NEW r \in Seq(K), NEW m \in Nat \ {0}
  PROVE  Sublists(r, m) \in Seq(Seq(K))
<1> DEFINE k == (Len(r) + m - 1) \div m
           Piece(n) == SubSeq(r, (n - 1) * m + 1, Min({n * m, Len(r)}))
<1>1. k \in Nat
  BY NumberOfSublists
<1>2. Sublists(r, m) = [n \in 1..k |-> Piece(n)]
  BY DEF Sublists
<1>3. ASSUME NEW n \in 1..k PROVE Piece(n) \in Seq(K)
  <2> DEFINE x == n * m
             last == Min({x, Len(r)})
             first == (n - 1) * m + 1
  <2>1. x \in Nat /\ Len(r) \in Nat /\ first \in Nat /\ first >= 1
    <3>1. n - 1 \in Nat /\ n \in Nat /\ m \in Nat
      BY <1>1
    <3>2. (n - 1) * m \in Nat /\ n * m \in Nat
      BY <3>1
    <3> QED BY <3>2
  <2> HIDE DEF x, first
  <2>2. last \in {x, Len(r)}
    BY <2>1, MinIs
  <2>3. last \in Nat /\ last <= Len(r)
    <3>1. last <= Len(r)
      <4>1. \E z \in {x, Len(r)} : \A w \in {x, Len(r)} : z <= w
        BY <2>1
      <4> QED BY <4>1 DEF Min
    <3> QED BY <2>1, <2>2, <3>1
  <2> HIDE DEF last
  <2>4. SubSeq(r, first, last) \in Seq(K)
    BY <2>1, <2>3
  <2> QED BY <2>4 DEF first, last, x
<1> HIDE DEF k, Piece
<1> QED BY <1>1, <1>2, <1>3

\* The pieces a list of columns is split into are lists of columns.
LEMMA RequestsAreLists == Given => ColumnRequests \in Seq(ColumnLists)
<1> SUFFICES ASSUME Given PROVE ColumnRequests \in Seq(ColumnLists)
  OBVIOUS
<1> DEFINE K == Seq(STRING)
           r == RequestedList
           m == MaxConcatColumns
           chunks == Sublists(r, m)
           one == IF args.exclude THEN List(r) ELSE args.columns
<1>1. args.columns \in ColumnLists /\ args.columns.list \in Seq(K) /\ m \in Nat
  BY ArgumentsAre, LimitIs DEF Given
<1>2. r \in Seq(K)
  <2>1. Keys(db.source.columns) \in Seq(K)
    <3>1. Keys(db.source.columns) \in Seq(ColumnName)
      BY KeysAre, SidesAre DEF Given
    <3> QED BY <3>1 DEF ColumnName
  <2> DEFINE keys == Keys(db.source.columns)
             S == ToSet(keys) \ ToSet(args.columns.list)
  <2>2. CASE args.columns.all
    BY <2>1, <2>2 DEF RequestedList
  <2>3. CASE ~args.columns.all /\ args.exclude
    <3>1. r = Keep(keys, S)
      BY <2>3 DEF RequestedList
    <3> HIDE DEF keys, K, S, r
    <3> QED BY <2>1, <3>1, KeepIs DEF keys
  <2>4. CASE ~args.columns.all /\ ~args.exclude
    BY <1>1, <2>4 DEF RequestedList
  <2> QED BY <2>2, <2>3, <2>4
<1>3. \A list \in Seq(K) : List(list) \in ColumnLists
  BY DEF List, ColumnLists
<1> HIDE DEF K, r, m, one
<1>4. CASE m # 0 /\ Len(r) > m
  <2>1. ColumnRequests = [n \in DOMAIN chunks |-> List(chunks[n])]
    BY <1>4 DEF ColumnRequests, r, m
  <2>2. chunks \in Seq(Seq(K))
    BY <1>1, <1>2, <1>4, PiecesAreLists
  <2> HIDE DEF chunks
  <2>3. DOMAIN chunks = 1..Len(chunks) /\ Len(chunks) \in Nat
        /\ \A n \in DOMAIN chunks : List(chunks[n]) \in ColumnLists
    BY <1>3, <2>2
  <2> QED BY <2>1, <2>3
<1>5. CASE ~ (m # 0 /\ Len(r) > m)
  <2>1. ColumnRequests = <<one>>
    BY <1>5 DEF ColumnRequests, r, m, one
  <2>2. one \in ColumnLists
    BY <1>1, <1>2, <1>3 DEF one
  <2> QED BY <2>1, <2>2
<1> QED BY <1>4, <1>5

\* The step of a configuration that is given its groups.
LEMMA GroupsAreGood ==
  ASSUME NEW d \in Databases, NEW a \in Arguments, NEW c, GoodConfig(d, a, c), c.groups = <<>>,
         ~MissingColumn(d, a.groups)
  PROVE  GoodConfig(d, a, [c EXCEPT !.groups = c.groups \o ColumnConfigs(d, a.groups)])
<1> DEFINE g == ColumnConfigs(d, a.groups)
<1>1. g \in Seq(GoodRefs(d))
  BY GoodColumns, ArgumentsAre
<1>2. c.groups \o g = g
  <2> HIDE DEF g
  <2> QED BY <1>1
<1> HIDE DEF g
<1> DEFINE w == [c EXCEPT !.groups = g]
<1>3. w \in ConfigSet(d) /\ w.groups = g
  BY <1>1 DEF GoodConfig, ConfigSet
<1> HIDE DEF w
<1>4. GoodConfig(d, a, w)
  BY <1>3 DEF GoodConfig, g
<1> QED BY <1>2, <1>4 DEF w, g

\* What leaves the arguments, the configurations built and the queries alone.
Aside == UNCHANGED <<db, args, managers, queries>>

\* A step that leaves these alone has the rest of the invariant to keep.
LEMMA AsideIsGood ==
  ASSUME QInv, Aside, Waiting', GoodConfig(db, args, config'),
         stage' = "aggregates" => config'.groups = <<>>
  PROVE  QInv'
<1>1. Given' /\ Asked'
  BY DEF QInv, Given, Asked, Aside
<1>2. Built'
  BY DEF QInv, Built, Aside
<1> QED BY <1>1, <1>2 DEF QInv

\* The invariant holds at the start.
LEMMA QInvInit == Init => QInv
<1> SUFFICES ASSUME Init PROVE QInv
  OBVIOUS
<1>1. Given
  BY DEF Init, Given, Databases, Arguments
<1>2. Waiting
  BY DEF Init, Waiting, Stages
<1>3. Built
  <2>1. GoodConfig(db, args, EmptyConfig)
    BY EmptyIsGood DEF GoodConfig
  <2>2. managers \in Seq(ConfigSet(db)) /\ DOMAIN managers = {}
    BY DEF Init
  <2>3. config = EmptyConfig /\ stage = "start"
    BY DEF Init
  <2> QED BY <2>1, <2>2, <2>3 DEF Built
<1>4. Asked
  <2>1. queries = <<>> /\ managers = <<>>
    BY DEF Init
  <2>2. Len(queries) = 0 /\ Len(managers) = 0 /\ DOMAIN queries = {} /\ 1..Len(queries) = {}
    BY <2>1
  <2>3. queries = [n \in 1..Len(queries) |-> QueriesOf(db, managers[n])]
    BY <2>1, <2>2
  <2> QED BY <2>2, <2>3 DEF Asked
<1> QED BY <1>1, <1>2, <1>3, <1>4 DEF QInv

\* An exception leaves everything as it is.
LEMMA QInvRaise == QInv /\ Raise => QInv'
<1> SUFFICES ASSUME QInv, Raise PROVE QInv'
  OBVIOUS
<1>1. Waiting' /\ Aside /\ stage' # "aggregates" /\ config' = config
  BY DEF QInv, Waiting, Raise, Aside, Stages
<1>2. GoodConfig(db, args, config)
  BY DEF QInv, Built
<1> QED BY <1>1, <1>2, AsideIsGood

\* The split into lists of columns (get_pre_build_configs).
LEMMA QInvPreBuild == QInv /\ PreBuild => QInv'
<1> SUFFICES ASSUME QInv, PreBuild PROVE QInv'
  OBVIOUS
<1>1. CASE Raise
  BY <1>1, QInvRaise
<1>2. CASE ~Raise
  <2>1. /\ pending' = ColumnRequests \/ pending' = <<args.columns>>
        /\ stage' = "begin" /\ UNCHANGED <<db, args, config, unaggregated, managers, queries>>
    BY <1>2 DEF PreBuild
  <2>2. ColumnRequests \in Seq(ColumnLists) /\ <<args.columns>> \in Seq(ColumnLists)
    <3>1. args.columns \in ColumnLists
      BY ArgumentsAre DEF QInv, Given
    <3> QED BY <3>1, RequestsAreLists DEF QInv
  <2>3. Waiting'
    BY <2>1, <2>2 DEF QInv, Waiting, Stages
  <2>4. GoodConfig(db, args, config') /\ Aside
    BY <2>1 DEF QInv, Built, Aside
  <2> QED BY <2>1, <2>3, <2>4, AsideIsGood
<1> QED BY <1>1, <1>2

\* The count of rows is an aggregate of rows.
LEMMA CountIsGood ==
  ASSUME NEW d
  PROVE  <<CountOfRows>> \in Seq(GoodAggregates(d)) /\ <<>> \in Seq(GoodAggregates(d))
<1>1. "count" \in AggregateTypes /\ "count" \in Parts /\ "none" \in Words
  BY DEF AggregateTypes, Parts, Words, Reserved
<1>2. <<>> \in Seq(Parts) /\ <<"count">> \in Seq(Parts)
  BY <1>1
<1>3. Reference(<<>>, <<>>, <<"count">>, "none") \in Refs
  BY <1>1, <1>2 DEF Reference, Refs
<1>4. CountOfRows \in GoodAggregates(d)
  <2> DEFINE r == Reference(<<>>, <<>>, <<"count">>, "none")
  <2>1. r.source = <<>> /\ r.target = <<>>
    BY DEF Reference
  <2> HIDE DEF r
  <2> QED BY <1>1, <1>3, <2>1 DEF CountOfRows, GoodAggregates, r
<1> QED BY <1>4

\* A new ConfigManager refers to nothing but the count of rows.
LEMMA QInvNewConfigManager == QInv /\ NewConfigManager => QInv'
<1> SUFFICES ASSUME QInv, NewConfigManager PROVE QInv'
  OBVIOUS
<1> DEFINE y == IF Row THEN <<>> ELSE <<CountOfRows>>
<1>1. Head(pending) \in ColumnLists /\ Tail(pending) \in Seq(ColumnLists)
  <2>1. pending \in Seq(ColumnLists) /\ pending # <<>>
    BY DEF QInv, Waiting, NewConfigManager
  <2> QED BY <2>1
<1>2. y \in Seq(GoodAggregates(db))
  BY CountIsGood
<1>3. config' = [EmptyConfig EXCEPT !.columns = Head(pending), !.aggregates = y]
  BY DEF NewConfigManager
<1> HIDE DEF y
<1>4. GoodConfig(db, args, config')
  BY <1>1, <1>2, <1>3, EmptyIsGood, BegunIsGood
<1>5. config'.groups = <<>>
  <2> DEFINE e == EmptyConfig
  <2>1. e \in ConfigSet(db) /\ e.groups = <<>>
    BY EmptyIsGood
  <2>2. config' = [e EXCEPT !.columns = Head(pending), !.aggregates = y]
    BY <1>3
  <2> HIDE DEF e
  <2> QED BY <2>1, <2>2 DEF ConfigSet
<1>6. Waiting'
  <2>1. args.aggregates \in Seq(Aggregation) /\ <<>> \in Seq(Aggregation)
    BY ArgumentsAre DEF QInv, Given
  <2>2. unaggregated' \in Seq(Aggregation)
    BY <2>1 DEF NewConfigManager
  <2>3. stage' \in Stages /\ pending' = Tail(pending)
    BY DEF NewConfigManager, Stages
  <2> QED BY <1>1, <2>2, <2>3 DEF Waiting
<1>7. Aside
  BY DEF NewConfigManager, Aside
<1> QED BY <1>4, <1>5, <1>6, <1>7, AsideIsGood

\* The aggregates of one type refer to columns of both tables or to their fields.
LEMMA QInvAppendAggregates == QInv /\ AppendAggregates => QInv'
<1> SUFFICES ASSUME QInv, AppendAggregates PROVE QInv'
  OBVIOUS
<1>1. CASE Raise
  BY <1>1, QInvRaise
<1>2. CASE ~Raise
  <2> DEFINE agg == Head(unaggregated)
  <2>1. /\ config' = WithAggregates(db, config, agg, args)
        /\ unaggregated' = Tail(unaggregated)
        /\ UNCHANGED <<db, args, stage, pending, managers, queries>>
        /\ stage = "aggregates"
    BY <1>2 DEF AppendAggregates
  <2>2. agg \in Aggregation /\ Tail(unaggregated) \in Seq(Aggregation)
    BY DEF QInv, Waiting, AppendAggregates
  <2>3. GoodConfig(db, args, config) /\ config.groups = <<>> /\ db \in Databases
    BY <2>1 DEF QInv, Built, Given
  <2> HIDE DEF agg
  <2>4. agg.type \in AggregateTypes
    BY <2>2 DEF Aggregation
  <2>5. GoodConfig(db, args, config')
    BY <2>1, <2>3, <2>4, WithAggregatesIsGood
  <2>6. config'.groups = <<>>
    <3>1. config \in ConfigSet(db)
      BY <2>3 DEF GoodConfig
    <3>2. PICK x, y : config' = Changed(config, x, y)
      BY <2>1, <3>1, AggregatesChange
    <3> QED BY <2>3, <3>1, <3>2 DEF Changed, ConfigSet
  <2>7. Waiting' /\ Aside
    BY <2>1, <2>2 DEF QInv, Waiting, Aside
  <2> QED BY <2>5, <2>6, <2>7, AsideIsGood
<1> QED BY <1>1, <1>2

\* The grouped columns are of both tables, or the command ends.
LEMMA QInvAppendQueryGroups == QInv /\ AppendQueryGroups => QInv'
<1> SUFFICES ASSUME QInv, AppendQueryGroups PROVE QInv'
  OBVIOUS
<1>1. CASE MissingColumn(db, args.groups)
  BY <1>1, QInvRaise DEF AppendQueryGroups
<1>2. CASE ~MissingColumn(db, args.groups)
  <2> DEFINE more == ColumnConfigs(db, args.groups)
  <2>1. /\ config' = [config EXCEPT !.groups = config.groups \o more]
        /\ stage' = "built" /\ stage = "aggregates"
        /\ UNCHANGED <<db, args, pending, unaggregated, managers, queries>>
    BY <1>2 DEF AppendQueryGroups, Extend
  <2>2. GoodConfig(db, args, config) /\ config.groups = <<>> /\ db \in Databases /\ args \in Arguments
    BY <2>1 DEF QInv, Built, Given
  <2>3. GoodConfig(db, args, config')
    BY <1>2, <2>1, <2>2, GroupsAreGood
  <2>4. Waiting' /\ Aside
    BY <2>1 DEF QInv, Waiting, Aside, Stages
  <2> QED BY <2>1, <2>3, <2>4, AsideIsGood
<1> QED BY <1>1, <1>2

\* A configuration whose calculated fields and compared columns change.
LEMMA ComparedIsGood ==
  ASSUME NEW d, NEW a, NEW c, GoodConfig(d, a, c),
         NEW x \in SUBSET FieldSet(d), NEW y \in Seq(GoodRefs(d))
  PROVE  GoodConfig(d, a, [c EXCEPT !.calculated = x, !.comparison = y])
<1> DEFINE w == [c EXCEPT !.calculated = x, !.comparison = y]
<1>1. w \in ConfigSet(d) /\ w.groups = c.groups
  BY DEF GoodConfig, ConfigSet
<1> HIDE DEF w
<1>2. GoodConfig(d, a, w)
  BY <1>1 DEF GoodConfig
<1> QED BY <1>2 DEF w

\* One whose key columns change.
LEMMA KeyedIsGood ==
  ASSUME NEW d, NEW a, NEW c, GoodConfig(d, a, c), NEW z \in Seq(GoodRefs(d))
  PROVE  GoodConfig(d, a, [c EXCEPT !.primary = z])
<1> DEFINE w == [c EXCEPT !.primary = z]
<1>1. w \in ConfigSet(d) /\ w.groups = c.groups
  BY DEF GoodConfig, ConfigSet
<1> HIDE DEF w
<1>2. GoodConfig(d, a, w)
  BY <1>1 DEF GoodConfig
<1> QED BY <1>2 DEF w

\* Its parts.
LEMMA PartsOf ==
  ASSUME NEW d, NEW a, NEW c, GoodConfig(d, a, c)
  PROVE  /\ c.calculated \in SUBSET FieldSet(d) /\ c.comparison \in Seq(GoodRefs(d))
         /\ c.primary \in Seq(GoodRefs(d)) /\ c \in ConfigSet(d)
         /\ [c EXCEPT !.comparison = c.comparison \o <<>>] = c
<1>1. /\ c.calculated \in SUBSET FieldSet(d) /\ c.comparison \in Seq(GoodRefs(d))
      /\ c.primary \in Seq(GoodRefs(d)) /\ c \in ConfigSet(d)
  BY DEF GoodConfig, ConfigSet
<1>2. \A S : \A s \in Seq(S) : s \o <<>> = s
  OBVIOUS
<1>3. c.comparison \o <<>> = c.comparison
  BY <1>1, <1>2
<1>4. [c EXCEPT !.comparison = c.comparison] = c
  BY <1>1 DEF ConfigSet
<1> QED BY <1>1, <1>3, <1>4

\* The comparison of the one calculated field of a hash or a concatenation.
LEMMA AllIsCompared ==
  ASSUME NEW d \in Databases, NEW m \in {"hash", "concat"}
  PROVE  << <<m, "all">> >> \in Seq(KeysOf(d.source) \cup Derived)
<1>1. m \in Reserved /\ m \in Parts /\ "all" \in Parts
  BY DEF Reserved, Parts, Words
<1>2. <<m, "all">> \in Derived
  BY <1>1 DEF Derived
<1> QED BY <1>2

\* A hash or a concatenation refers to its own last level.
LEMMA QInvAppendCalculatedFields == QInv /\ AppendCalculatedFields => QInv'
<1> SUFFICES ASSUME QInv, AppendCalculatedFields PROVE QInv'
  OBVIOUS
<1>1. GoodConfig(db, args, config) /\ db \in Databases /\ args \in Arguments
  BY DEF QInv, Built, Given
<1>2. ASSUME stage' = "primary keys", UNCHANGED <<db, args, pending, unaggregated, managers, queries>>,
             GoodConfig(db, args, config')
      PROVE  QInv'
  <2>1. Waiting' /\ Aside
    BY <1>2 DEF QInv, Waiting, Aside, Stages
  <2> QED BY <1>2, <2>1, AsideIsGood
<1>3. CASE ~Hashed \/ Nothing
  <2>1. config' = [config EXCEPT !.comparison = config.comparison \o <<>>]
    BY <1>3 DEF AppendCalculatedFields, Extend
  <2>2. [config EXCEPT !.comparison = config.comparison \o <<>>] = config
    BY <1>1, PartsOf
  <2>3. config' = config
    BY <2>1, <2>2
  <2> QED BY <1>1, <1>2, <1>3, <2>3 DEF AppendCalculatedFields, Extend
<1>4. CASE ~(~Hashed \/ Nothing) /\ DependentAliasesRaise(db, config.columns)
  BY <1>4, QInvRaise DEF AppendCalculatedFields
<1>5. CASE ~(~Hashed \/ Nothing) /\ ~DependentAliasesRaise(db, config.columns)
  <2> DEFINE x == DependentAliases(db, args.method, config.columns, args.upper)
             y == ComparisonConfigs(db, << <<args.method, "all">> >>)
  <2>1. /\ config' = [config EXCEPT !.calculated = x, !.comparison = y]
        /\ stage' = "primary keys"
        /\ UNCHANGED <<db, args, pending, unaggregated, managers, queries>>
    BY <1>5 DEF AppendCalculatedFields
  <2>2. x \in SUBSET FieldSet(db)
    BY <1>1, <1>5, DependentAliasesAreGood
  <2>3. args.method \in {"hash", "concat"}
    BY <1>5 DEF Hashed
  <2>4. y \in Seq(GoodRefs(db))
    BY <1>1, <2>3, AllIsCompared, GoodComparison
  <2> HIDE DEF x, y
  <2>5. GoodConfig(db, args, [config EXCEPT !.calculated = x, !.comparison = y])
    BY <1>1, <2>2, <2>4, ComparedIsGood
  <2>6. GoodConfig(db, args, config')
    BY <2>1, <2>5
  <2> QED BY <1>2, <2>1, <2>6
<1> QED BY <1>3, <1>4, <1>5

\* The primary keys are columns of both tables, or the command ends.
LEMMA QInvAppendPrimaryKeys == QInv /\ AppendPrimaryKeys => QInv'
<1> SUFFICES ASSUME QInv, AppendPrimaryKeys PROVE QInv'
  OBVIOUS
<1>1. GoodConfig(db, args, config) /\ db \in Databases /\ args \in Arguments
  BY DEF QInv, Built, Given
<1>2. CASE PrimaryKeys = <<>> \/ MissingColumn(db, PrimaryKeys)
  BY <1>2, QInvRaise DEF AppendPrimaryKeys
<1>3. CASE ~(PrimaryKeys = <<>> \/ MissingColumn(db, PrimaryKeys))
  <2> DEFINE z == config.primary \o ColumnConfigs(db, PrimaryKeys)
  <2>1. /\ config' = [config EXCEPT !.primary = z]
        /\ stage' = "comparison fields"
        /\ UNCHANGED <<db, args, pending, unaggregated, managers, queries>>
    BY <1>3 DEF AppendPrimaryKeys, Extend
  <2>2. PrimaryKeys \in Seq(Seq(STRING))
    <3>1. args.primary \in Seq(Seq(STRING))
      BY <1>1, ArgumentsAre
    <3>2. db.source.primary \in Seq(Seq(STRING)) /\ db.target.primary \in Seq(Seq(STRING))
      BY <1>1, TableOf, SidesAre
    <3> QED BY <3>1, <3>2 DEF PrimaryKeys
  <2>3. ColumnConfigs(db, PrimaryKeys) \in Seq(GoodRefs(db))
    BY <1>1, <1>3, <2>2, GoodColumns
  <2>4. config.primary \in Seq(GoodRefs(db)) /\ config.comparison \in Seq(GoodRefs(db))
        /\ config.calculated \in SUBSET FieldSet(db)
    BY <1>1, PartsOf
  <2>5. z \in Seq(GoodRefs(db))
    BY <2>3, <2>4
  <2> HIDE DEF z
  <2>6. GoodConfig(db, args, [config EXCEPT !.primary = z])
    BY <1>1, <2>5, KeyedIsGood
  <2>7. GoodConfig(db, args, config')
    BY <2>1, <2>6
  <2>8. Waiting' /\ Aside
    BY <2>1 DEF QInv, Waiting, Aside, Stages
  <2> QED BY <2>1, <2>7, <2>8, AsideIsGood
<1> QED BY <1>2, <1>3

\* Compared fields are columns of both tables, or trimmed ones.
LEMMA QInvAppendComparisonFields == QInv /\ AppendComparisonFields => QInv'
<1> SUFFICES ASSUME QInv, AppendComparisonFields PROVE QInv'
  OBVIOUS
<1>1. GoodConfig(db, args, config) /\ db \in Databases /\ args \in Arguments
  BY DEF QInv, Built, Given
<1> DEFINE names == CompFields(db, args.columns, args.exclude, PrimaryKeys)
           padded == OnTeradata(db)
           x == config.calculated \cup (IF padded THEN RstripFields(db, names) ELSE {})
           more == ComparisonConfigs(db, IF padded THEN WithRstrip(db, names) ELSE names)
           y == config.comparison \o more
           new == [config EXCEPT !.calculated = x, !.comparison = y]
           raises == ~Hashed /\ \/ CompFieldsRaise(db, args.columns, args.exclude)
                                \/ OnTeradata(db) /\ MissingColumn(db, names)
<1>2. CASE Raise
  BY <1>2, QInvRaise
<1>3. CASE ~Raise
  <2>1. /\ ~raises
        /\ config' = IF Hashed THEN config ELSE new
        /\ stage' = "built"
        /\ UNCHANGED <<db, args, pending, unaggregated, managers, queries>>
    BY <1>3 DEF AppendComparisonFields
  <2>2. names \in Seq(ColumnName) /\ ToSet(names) \subseteq KeysOf(db.source)
    BY <1>1, CompFieldKeys
  <2>3. config.primary \in Seq(GoodRefs(db)) /\ config.comparison \in Seq(GoodRefs(db))
        /\ config.calculated \in SUBSET FieldSet(db)
    BY <1>1, PartsOf
  <2>4. ASSUME ~Hashed PROVE x \in SUBSET FieldSet(db) /\ more \in Seq(GoodRefs(db))
    <3>1. CASE padded
      <4>1. ~MissingColumn(db, names)
        BY <2>1, <2>4, <3>1
      <4> HIDE DEF names
      <4>2. RstripFields(db, names) \subseteq FieldSet(db)
            /\ WithRstrip(db, names) \in Seq(KeysOf(db.source) \cup Derived)
        BY <1>1, <2>2, <4>1, RstripIsGood
      <4>3. ComparisonConfigs(db, WithRstrip(db, names)) \in Seq(GoodRefs(db))
        BY <1>1, <4>2, GoodComparison
      <4> QED BY <2>3, <3>1, <4>2, <4>3
    <3>2. CASE ~padded
      <4> HIDE DEF names
      <4>1. Len(names) \in Nat /\ DOMAIN names = 1..Len(names) /\ names = [i \in 1..Len(names) |-> names[i]]
            /\ \A i \in 1..Len(names) : names[i] \in KeysOf(db.source) \cup Derived
        BY <2>2 DEF ToSet
      <4>2. names \in Seq(KeysOf(db.source) \cup Derived)
        BY <4>1
      <4>3. ComparisonConfigs(db, names) \in Seq(GoodRefs(db))
        BY <1>1, <4>2, GoodComparison
      <4> QED BY <2>3, <3>2, <4>3
    <3> QED BY <3>1, <3>2
  <2> HIDE DEF names, x, more
  <2>5. GoodConfig(db, args, config')
    <3>1. CASE Hashed
      BY <1>1, <2>1, <3>1
    <3>2. CASE ~Hashed
      <4>1. y \in Seq(GoodRefs(db))
        BY <2>3, <2>4, <3>2
      <4> HIDE DEF y
      <4>2. GoodConfig(db, args, [config EXCEPT !.calculated = x, !.comparison = y])
        BY <1>1, <2>4, <3>2, <4>1, ComparedIsGood
      <4>3. config' = [config EXCEPT !.calculated = x, !.comparison = y]
        BY <2>1, <3>2
      <4> QED BY <4>2, <4>3
    <3> QED BY <3>1, <3>2
  <2>6. Waiting' /\ Aside
    BY <2>1 DEF QInv, Waiting, Aside, Stages
  <2> QED BY <2>1, <2>5, <2>6, AsideIsGood
<1> QED BY <1>2, <1>3

\* The configuration that is kept is as good as it was under construction.
LEMMA QInvKeepConfigManager == QInv /\ KeepConfigManager => QInv'
<1> SUFFICES ASSUME QInv, KeepConfigManager PROVE QInv'
  OBVIOUS
<1>1. /\ managers' = Append(managers, config)
      /\ stage' \in {"validate", "begin"}
      /\ UNCHANGED <<db, args, pending, config, unaggregated, queries>>
  BY DEF KeepConfigManager
<1>2. Given' /\ Waiting'
  BY <1>1 DEF QInv, Given, Waiting, Stages
<1>3. /\ GoodConfig(db, args, config) /\ managers \in Seq(ConfigSet(db))
      /\ \A n \in DOMAIN managers : GoodConfig(db, args, managers[n])
  BY DEF QInv, Built
<1>4. config \in ConfigSet(db)
  BY <1>3 DEF GoodConfig
<1>5. /\ managers' \in Seq(ConfigSet(db)) /\ Len(managers') = Len(managers) + 1
      /\ DOMAIN managers' = 1..(Len(managers) + 1) /\ Len(managers) \in Nat
      /\ DOMAIN managers = 1..Len(managers)
      /\ managers'[Len(managers) + 1] = config
      /\ \A n \in 1..Len(managers) : managers'[n] = managers[n]
  BY <1>1, <1>3, <1>4
<1>6. \A n \in DOMAIN managers' : GoodConfig(db, args, managers'[n])
  BY <1>3, <1>5
<1>7. Built'
  BY <1>1, <1>3, <1>5, <1>6 DEF Built
<1>8. Asked'
  <2>1. /\ Len(queries) \in 0..Len(managers) /\ DOMAIN queries = 1..Len(queries)
        /\ queries = [n \in 1..Len(queries) |-> QueriesOf(db, managers[n])]
        /\ \A n \in 1..Len(queries) : Compiled(db, managers[n])
    BY DEF QInv, Asked
  <2>2. \A n \in 1..Len(queries) : n \in 1..Len(managers) /\ managers'[n] = managers[n]
    BY <1>5, <2>1
  <2>3. queries = [n \in 1..Len(queries) |-> QueriesOf(db, managers'[n])]
    BY <2>1, <2>2
  <2>4. \A n \in 1..Len(queries) : Compiled(db, managers'[n])
    BY <2>1, <2>2
  <2>5. Len(queries) \in 0..Len(managers')
    BY <1>5, <2>1
  <2> QED BY <1>1, <2>1, <2>3, <2>4, <2>5 DEF Asked
<1> QED BY <1>2, <1>7, <1>8 DEF QInv

\* Queries are added for the next configuration, and only if both sides compile.
LEMMA QInvCompile == QInv /\ Compile => QInv'
<1> SUFFICES ASSUME QInv, Compile PROVE QInv'
  OBVIOUS
<1> DEFINE n == Len(queries)
           next == managers[n + 1]
<1>1. CASE Raise
  BY <1>1, QInvRaise
<1>2. CASE ~Raise
  <2>1. /\ \A s \in Sides : Compiles(db[s], s, next)
        /\ queries' = Append(queries, QueriesOf(db, next))
        /\ UNCHANGED <<db, args, stage, pending, config, unaggregated, managers>>
        /\ n < Len(managers)
    BY <1>2 DEF Compile, QueriesOf
  <2>2. Given' /\ Waiting' /\ Built'
    BY <2>1 DEF QInv, Given, Waiting, Built
  <2>3. /\ n \in 0..Len(managers) /\ DOMAIN queries = 1..n
        /\ queries = [i \in 1..n |-> QueriesOf(db, managers[i])]
        /\ \A i \in 1..n : Compiled(db, managers[i])
    BY DEF QInv, Asked
  <2>4. n \in Nat /\ Len(managers) \in Nat
    <3>1. managers \in Seq(ConfigSet(db))
      BY DEF QInv, Built
    <3> QED BY <2>3, <3>1
  <2> HIDE DEF n
  <2>5. queries = [i \in 1..n |-> queries[i]]
    BY <2>3
  <2>6. queries' = [i \in 1..(n + 1) |-> IF i = n + 1 THEN QueriesOf(db, next) ELSE queries[i]]
    BY <2>1, <2>4, <2>5, OneMore
  <2>7. \A i \in 1..(n + 1) : i = n + 1 \/ i \in 1..n
    BY <2>4
  <2>8. queries' = [i \in 1..(n + 1) |-> QueriesOf(db, managers[i])]
    <3>1. \A i \in 1..n : queries[i] = QueriesOf(db, managers[i])
      BY <2>3
    <3> QED BY <2>6, <2>7, <3>1
  <2>9. \A i \in 1..(n + 1) : Compiled(db, managers[i])
    BY <2>1, <2>3, <2>7 DEF Compiled
  <2>10. Len(queries') = n + 1 /\ DOMAIN queries' = 1..(n + 1) /\ n + 1 \in 0..Len(managers)
    BY <2>1, <2>4, <2>6
  <2>11. Asked'
    BY <2>1, <2>8, <2>9, <2>10 DEF Asked
  <2> QED BY <2>2, <2>11 DEF QInv
<1> QED BY <1>1, <1>2

\* Every step of the command keeps the invariant.
LEMMA QInvInductive == QInv /\ [Next]_vars => QInv'
<1> SUFFICES ASSUME QInv, [Next]_vars PROVE QInv'
  OBVIOUS
<1>1. CASE UNCHANGED vars
  BY <1>1 DEF vars, QInv, Given, Waiting, Built, Asked
<1>2. CASE Done
  BY <1>2 DEF Done, vars, QInv, Given, Waiting, Built, Asked
<1> QED BY <1>1, <1>2, QInvPreBuild, QInvNewConfigManager, QInvAppendAggregates,
           QInvAppendQueryGroups, QInvAppendCalculatedFields, QInvAppendPrimaryKeys,
           QInvAppendComparisonFields, QInvKeepConfigManager, QInvCompile DEF Next

(* The two queries of every configuration have the same columns, and       *)
(* compute each in the same way from the columns of the same keys, for     *)
(* any tables and arguments: what get_row_hash_config, the aggregations    *)
(* and the builder make of one side means the same on the other            *)
(* (config_manager.py 1444-1547, validation_builder.py 210-458).           *)
THEOREM Agreement == Spec => []QueriesAgree
<1>1. Spec => []QInv
  BY QInvInit, QInvInductive, PTL DEF Spec
<1> QED BY <1>1, QInvAgrees, PTL

-----------------------------------------------------------------------------
(* No query has two columns of one name.                                   *)

\* The names of references, of aggregates, and of all columns of a query.
RefNames(refs) == [i \in DOMAIN refs |-> refs[i].alias]
AggNames(aggs) == [i \in DOMAIN aggs |-> aggs[i].ref.alias]
NamesIn(c) ==
  RefNames(c.comparison) \o RefNames(c.primary) \o RefNames(c.groups) \o AggNames(c.aggregates)

Images(F, s) == [i \in DOMAIN s |-> F[s[i]]]

\* What is done to the elements of two lists is done to those of the lists joined.
LEMMA JoinedImages ==
  ASSUME NEW S, NEW s \in Seq(S), NEW t \in Seq(S), NEW F
  PROVE  Images(F, s \o t) = Images(F, s) \o Images(F, t)
<1> DEFINE u == s \o t
           m == Len(s)
           n == Len(t)
           a == [i \in DOMAIN s |-> F[s[i]]]
           b == [i \in DOMAIN t |-> F[t[i]]]
           A == {F[s[i]] : i \in 1..m} \cup {F[t[i]] : i \in 1..n}
<1>1. /\ DOMAIN s = 1..m /\ DOMAIN t = 1..n /\ m \in Nat /\ n \in Nat
  OBVIOUS
<1>2. /\ DOMAIN u = 1..(m + n)
      /\ \A i \in 1..(m + n) : u[i] = IF i <= m THEN s[i] ELSE t[i - m]
  BY <1>1
<1>3. a \in Seq(A) /\ b \in Seq(A) /\ Len(a) = m /\ Len(b) = n
  BY <1>1
<1>4. /\ \A i \in 1..m : a[i] = F[s[i]]
      /\ \A i \in 1..n : b[i] = F[t[i]]
  BY <1>1
<1> HIDE DEF a, b, u, m, n, A
<1>5. /\ DOMAIN (a \o b) = 1..(m + n)
      /\ \A i \in 1..(m + n) : (a \o b)[i] = IF i <= m THEN a[i] ELSE b[i - m]
      /\ a \o b = [i \in 1..(m + n) |-> (a \o b)[i]]
  <2>1. a \o b \in Seq(A) /\ Len(a \o b) = m + n
    BY <1>3
  <2> DEFINE v == a \o b
  <2>4. v \in Seq(A) /\ Len(v) = m + n
    BY <2>1
  <2> HIDE DEF v
  <2>5. DOMAIN v = 1..(m + n) /\ v = [i \in 1..(m + n) |-> v[i]]
    BY <2>4
  <2>2. DOMAIN (a \o b) = 1..(m + n) /\ a \o b = [i \in 1..(m + n) |-> (a \o b)[i]]
    BY <2>5 DEF v
  <2>3. \A i \in 1..(m + n) : (a \o b)[i] = IF i <= m THEN a[i] ELSE b[i - m]
    BY <1>3
  <2> QED BY <2>2, <2>3
<1>6. ASSUME NEW i \in 1..(m + n) PROVE F[u[i]] = (a \o b)[i]
  <2>1. CASE i <= m
    BY <1>1, <1>2, <1>4, <1>5, <2>1
  <2>2. CASE ~(i <= m)
    <3>1. i - m \in 1..n
      BY <1>1, <2>2
    <3>2. (a \o b)[i] = b[i - m]
      BY <1>5, <2>2
    <3>3. u[i] = t[i - m]
      BY <1>2, <2>2
    <3>4. b[i - m] = F[t[i - m]]
      BY <1>4, <3>1
    <3> QED BY <3>2, <3>3, <3>4
  <2> QED BY <2>1, <2>2
<1>7. [i \in DOMAIN u |-> F[u[i]]] = a \o b
  BY <1>2, <1>5, <1>6
<1> QED BY <1>7 DEF a, b, u, Images

\* The names of two lists of references, or columns of a query, joined.
LEMMA JoinedNames ==
  ASSUME NEW S, NEW s \in Seq(S), NEW T, NEW t \in Seq(T)
  PROVE  RefNames(s \o t) = RefNames(s) \o RefNames(t)
<1> DEFINE U == S \cup T
           F == [r \in U |-> r.alias]
<1>1. s \in Seq(U) /\ t \in Seq(U) /\ s \o t \in Seq(U)
  OBVIOUS
<1>2. \A q \in Seq(U) : RefNames(q) = Images(F, q)
  BY DEF RefNames, Images
<1> HIDE DEF U, F
<1>3. Images(F, s \o t) = Images(F, s) \o Images(F, t)
  BY <1>1, JoinedImages
<1> QED BY <1>1, <1>2, <1>3

\* The references of aggregates.
AggRefs(aggs) == [i \in DOMAIN aggs |-> aggs[i].ref]

\* They are joined as the aggregates are.
LEMMA JoinedRefs ==
  ASSUME NEW S, NEW s \in Seq(S), NEW t \in Seq(S)
  PROVE  AggRefs(s \o t) = AggRefs(s) \o AggRefs(t)
<1> DEFINE F == [g \in S |-> g.ref]
<1>1. s \o t \in Seq(S)
  OBVIOUS
<1>2. \A q \in Seq(S) : AggRefs(q) = Images(F, q)
  BY DEF AggRefs, Images
<1> HIDE DEF F
<1>3. Images(F, s \o t) = Images(F, s) \o Images(F, t)
  BY JoinedImages
<1> QED BY <1>1, <1>2, <1>3

\* The names of a query are those of its configuration, whatever its side.
LEMMA QueryNames ==
  ASSUME NEW d, NEW c \in ConfigSet(d), NEW side, NEW s
  PROVE  RefNames(Query(side, s, c)) = NamesIn(c)
<1> DEFINE env == CalculatedEnv(side, s, c.calculated)
           C == [i \in DOMAIN c.comparison |->
                  Output(c.comparison[i].alias, Cast(env[c.comparison[i][s]], c.comparison[i].cast))]
           P == [i \in DOMAIN c.primary |->
                  Output(c.primary[i].alias, KeyExpr(side, env, c.primary[i][s], c.primary[i].cast))]
           G == [i \in DOMAIN c.groups |->
                  Output(c.groups[i].alias, GroupExpr(side, env, c.groups[i][s], c.groups[i].cast))]
           A == [i \in DOMAIN c.aggregates |->
                  Output(c.aggregates[i].ref.alias,
                         AggregateExpr(env, c.aggregates[i], c.aggregates[i].ref[s]))]
           O == {C[i] : i \in DOMAIN C} \cup {P[i] : i \in DOMAIN P}
                  \cup {G[i] : i \in DOMAIN G} \cup {A[i] : i \in DOMAIN A}
<1>1. Query(side, s, c) = ((C \o P) \o G) \o A
  BY DEF Query
<1>2. /\ DOMAIN c.comparison = 1..Len(c.comparison) /\ Len(c.comparison) \in Nat
      /\ DOMAIN c.primary = 1..Len(c.primary) /\ Len(c.primary) \in Nat
      /\ DOMAIN c.groups = 1..Len(c.groups) /\ Len(c.groups) \in Nat
      /\ DOMAIN c.aggregates = 1..Len(c.aggregates) /\ Len(c.aggregates) \in Nat
  BY DEF ConfigSet
<1>3. RefNames(C) = RefNames(c.comparison) /\ RefNames(P) = RefNames(c.primary) /\ RefNames(G) = RefNames(c.groups)
      /\ RefNames(A) = AggNames(c.aggregates)
  BY DEF RefNames, AggNames, Output
<1>4. C \in Seq(O) /\ P \in Seq(O) /\ G \in Seq(O) /\ A \in Seq(O)
  <2>1. C \in Seq(O)
    BY <1>2
  <2>2. P \in Seq(O)
    BY <1>2
  <2>3. G \in Seq(O)
    BY <1>2
  <2>4. A \in Seq(O)
    BY <1>2
  <2> QED BY <2>1, <2>2, <2>3, <2>4
<1> HIDE DEF C, P, G, A, O
<1>5. C \o P \in Seq(O) /\ (C \o P) \o G \in Seq(O)
  BY <1>4
<1>6. RefNames(C \o P) = RefNames(C) \o RefNames(P)
  BY <1>4, JoinedNames
<1>7. RefNames((C \o P) \o G) = RefNames(C \o P) \o RefNames(G)
  BY <1>4, <1>5, JoinedNames
<1>8. RefNames(((C \o P) \o G) \o A) = RefNames((C \o P) \o G) \o RefNames(A)
  BY <1>4, <1>5, JoinedNames
<1>9. RefNames(((C \o P) \o G) \o A) = NamesIn(c)
  BY <1>3, <1>6, <1>7, <1>8 DEF NamesIn
<1> QED BY <1>1, <1>9

\* Two lists without repetition that have no element in common have none when joined.
LEMMA JoinedInjective ==
  ASSUME NEW S, NEW s \in Seq(S), NEW t \in Seq(S), IsInjective(s), IsInjective(t),
         ToSet(s) \cap ToSet(t) = {}
  PROVE  s \o t \in Seq(S) /\ IsInjective(s \o t) /\ ToSet(s \o t) = ToSet(s) \cup ToSet(t)
<1> DEFINE u == s \o t
           m == Len(s)
           n == Len(t)
<1>1. DOMAIN s = 1..m /\ DOMAIN t = 1..n /\ m \in Nat /\ n \in Nat
  OBVIOUS
<1>2. /\ DOMAIN u = 1..(m + n)
      /\ \A i \in 1..(m + n) : u[i] = IF i <= m THEN s[i] ELSE t[i - m]
  BY <1>1
<1>3. \A i \in 1..m, j \in 1..n : s[i] # t[j]
  BY <1>1 DEF ToSet
<1>4. /\ \A i, j \in 1..m : s[i] = s[j] => i = j
      /\ \A i, j \in 1..n : t[i] = t[j] => i = j
  BY <1>1 DEF IsInjective
<1> HIDE DEF u, m, n
<1>5. ASSUME NEW i \in 1..(m + n), NEW j \in 1..(m + n), u[i] = u[j] PROVE i = j
  <2>1. /\ i <= m => i \in 1..m /\ u[i] = s[i]
        /\ ~(i <= m) => i - m \in 1..n /\ u[i] = t[i - m]
        /\ j <= m => j \in 1..m /\ u[j] = s[j]
        /\ ~(j <= m) => j - m \in 1..n /\ u[j] = t[j - m]
    BY <1>1, <1>2
  <2>2. CASE i <= m /\ j <= m
    BY <1>4, <1>5, <2>1, <2>2
  <2>3. CASE i <= m /\ ~(j <= m)
    BY <1>3, <1>5, <2>1, <2>3
  <2>4. CASE ~(i <= m) /\ j <= m
    BY <1>3, <1>5, <2>1, <2>4
  <2>5. CASE ~(i <= m) /\ ~(j <= m)
    <3>1. i - m = j - m
      BY <1>4, <1>5, <2>1, <2>5
    <3> QED BY <1>1, <3>1
  <2> QED BY <2>2, <2>3, <2>4, <2>5
<1>6. IsInjective(u)
  BY <1>2, <1>5 DEF IsInjective
<1> QED BY <1>6, ConcatElements DEF u

\* A name tells its prefix, and its number or the name it is derived from.
LEMMA PrefixOnce ==
  ASSUME NEW d, NEW p \in Parts, NEW q \in Parts,
         NEW a \in Seq(Parts) \ {<<>>}, NEW b \in Seq(Parts) \ {<<>>},
         a[1] # "dvt_calc_col", b[1] # "dvt_calc_col",
         NEW n \in DOMAIN Numeral, NEW m \in DOMAIN Numeral,
         n \in Nat, m \in Nat,
         Prefix(d, p, a, n) = Prefix(d, q, b, m)
  PROVE  p = q /\ (n = m \/ a = b)
<1> DEFINE w == "dvt_calc_col"
           x == Numeral[n]
           y == Numeral[m]
<1>1. w \in Parts /\ x \in Parts /\ y \in Parts
  BY DEF Parts, Words, Reserved
<1>2. x = y => n = m
  BY NumeralAssumption DEF IsInjective
<1>3. Prefix(d, p, a, n) \in {<<p, w, x>>, <<p>> \o a}
      /\ Prefix(d, q, b, m) \in {<<q, w, y>>, <<q>> \o b}
  BY DEF Prefix
<1> HIDE DEF w, x, y
<1>4. ASSUME NEW r \in Parts, NEW c \in Seq(Parts) \ {<<>>}
      PROVE  /\ (<<r>> \o c)[1] = r /\ (<<r>> \o c)[2] = c[1] /\ Tail(<<r>> \o c) = c
             /\ \A z : <<r, w, z>>[1] = r /\ <<r, w, z>>[2] = w /\ <<r, w, z>>[3] = z
  <2>1. Tail(<<r>> \o c) = c
    BY SMT
  <2>2. (<<r>> \o c)[1] = r /\ (<<r>> \o c)[2] = c[1]
    OBVIOUS
  <2> QED BY <2>1, <2>2
<1>5. CASE Prefix(d, p, a, n) = <<p, w, x>> /\ Prefix(d, q, b, m) = <<q, w, y>>
  <2>1. <<p, w, x>> = <<q, w, y>>
    BY <1>5
  <2>2. p = q /\ x = y
    BY <2>1
  <2> QED BY <1>2, <2>2
<1>6. CASE Prefix(d, p, a, n) = <<p>> \o a /\ Prefix(d, q, b, m) = <<q>> \o b
  <2>1. <<p>> \o a = <<q>> \o b
    BY <1>6
  <2>2. (<<p>> \o a)[1] = (<<q>> \o b)[1] /\ Tail(<<p>> \o a) = Tail(<<q>> \o b)
    BY <2>1
  <2>3. (<<p>> \o a)[1] = p /\ Tail(<<p>> \o a) = a
    BY <1>4
  <2>4. (<<q>> \o b)[1] = q /\ Tail(<<q>> \o b) = b
    BY <1>4
  <2>5. p = q /\ a = b
    BY <2>2, <2>3, <2>4
  <2> QED BY <2>5
<1>7. CASE Prefix(d, p, a, n) = <<p, w, x>> /\ Prefix(d, q, b, m) = <<q>> \o b
  <2>1. <<p, w, x>>[2] = (<<q>> \o b)[2]
    BY <1>7
  <2> QED BY <1>4, <2>1 DEF w
<1>8. CASE Prefix(d, p, a, n) = <<p>> \o a /\ Prefix(d, q, b, m) = <<q, w, y>>
  <2>1. <<q, w, y>>[2] = (<<p>> \o a)[2]
    BY <1>8
  <2> QED BY <1>4, <2>1 DEF w
<1> QED BY <1>3, <1>5, <1>6, <1>7, <1>8

\* It begins with its prefix and has a part more.
LEMMA PrefixBegins ==
  ASSUME NEW d, NEW p \in Parts, NEW a \in Seq(Parts) \ {<<>>}, NEW n \in Nat
  PROVE  Prefix(d, p, a, n) \in Seq(Parts) /\ Prefix(d, p, a, n)[1] = p /\ Len(Prefix(d, p, a, n)) >= 2
<1> DEFINE w == "dvt_calc_col"
           x == Numeral[n]
<1>1. w \in Parts /\ x \in Parts
  BY DEF Parts, Words, Reserved
<1>2. Prefix(d, p, a, n) \in {<<p, w, x>>, <<p>> \o a}
  BY DEF Prefix
<1> HIDE DEF w, x
<1>3. <<p, w, x>> \in Seq(Parts) /\ <<p, w, x>>[1] = p /\ Len(<<p, w, x>>) >= 2
  BY <1>1
<1>4. <<p>> \o a \in Seq(Parts) /\ (<<p>> \o a)[1] = p /\ Len(<<p>> \o a) >= 2
  OBVIOUS
<1> QED BY <1>2, <1>3, <1>4

\* The prefixes of the names of a column's own fields.
FirstCasts == {"cast_string", "cast_timestamp"}
Calcs == {"length", "byte_length", "epoch_seconds", "cast_uuid_string", "cast_int64"}

\* Where a column's fields take their names from.
CastName(d, key) == OwnCast(d, key, Place(d, key)).alias
CalcName(d, key) == OwnCalc(d, key, Place(d, key)).alias
NameOf(d, key) == ColumnOf(d.source, key).name
CalcBase(d, key) == IF NeedsCast(d, key) THEN CastName(d, key) ELSE NameOf(d, key)

\* The names of the fields of a column are made of its name, one upon the other.
LEMMA OwnNames ==
  ASSUME NEW d, NEW key
  PROVE  /\ NeedsCast(d, key) =>
              \E p \in FirstCasts : CastName(d, key) = Prefix(d, p, NameOf(d, key), Place(d, key))
         /\ \E q \in Calcs : CalcName(d, key) = Prefix(d, q, CalcBase(d, key), Place(d, key))
<1> DEFINE s == ColumnOf(d.source, key)
           t == ColumnOf(d.target, key)
           n == Place(d, key)
           first == FirstCast(d, s.type, t.type)
           calc == PreAggCalc(d, key, s.type, t.type)
           W(c) == IF c.op = "cast" THEN CastPrefix[c.param] ELSE c.op
           C(op, param) == [op |-> op, param |-> param]
<1>1. \A a, b, c, depth : PreAggField(d, a, b, c, n, depth).alias = Prefix(d, W(c), a, n)
  BY DEF PreAggField, Field
<1>2. NeedsCast(d, key) => W(C("cast", first)) \in FirstCasts
  <2>1. first \in {"string", "timestamp", "none"}
    BY FirstIs
  <2>2. NeedsCast(d, key) => first # "none"
    BY DEF NeedsCast
  <2> HIDE DEF first
  <2> QED BY <2>1, <2>2 DEF CastPrefix, FirstCasts
<1>3. W(calc) \in Calcs
  <2>1. calc \in [op : {"length", "byte_length", "epoch_seconds"}, param : {"none"}]
                   \cup [op : {"cast"}, param : {"uuid_string", "int64"}]
    BY CalcIs
  <2> HIDE DEF calc
  <2>2. CASE calc \in [op : {"length", "byte_length", "epoch_seconds"}, param : {"none"}]
    BY <2>2 DEF Calcs
  <2>3. CASE calc \in [op : {"cast"}, param : {"uuid_string", "int64"}]
    BY <2>3 DEF Calcs, CastPrefix
  <2> QED BY <2>1, <2>2, <2>3
<1>4. CastName(d, key) = Prefix(d, W(C("cast", first)), s.name, n)
  <2>1. CastName(d, key) = PreAggField(d, s.name, t.name, C("cast", first), n, 0).alias
    BY DEF CastName, OwnCast
  <2> HIDE DEF W, C, s, t, n, first
  <2> QED BY <1>1, <2>1
<1>5. CalcName(d, key) = Prefix(d, W(calc), CalcBase(d, key), n)
  <2>1. CASE NeedsCast(d, key)
    <3>1. CalcName(d, key) = PreAggField(d, CastName(d, key), CastName(d, key), calc, n, 1).alias
      BY <2>1 DEF CalcName, CastName, OwnCalc
    <3> HIDE DEF W, calc, n
    <3> QED BY <1>1, <2>1, <3>1 DEF CalcBase
  <2>2. CASE ~NeedsCast(d, key)
    <3>1. CalcName(d, key) = PreAggField(d, s.name, t.name, calc, n, 0).alias
      BY <2>2 DEF CalcName, OwnCalc
    <3>2. CalcBase(d, key) = s.name
      BY <2>2 DEF CalcBase, NameOf
    <3> HIDE DEF W, calc, s, t, n
    <3> QED BY <1>1, <3>1, <3>2
  <2> QED BY <2>1, <2>2
<1> HIDE DEF W, C, calc, first
<1> QED BY <1>2, <1>3, <1>4, <1>5 DEF NameOf

\* The name of a column and those of its fields are names that do not look like numbered ones.
LEMMA NamesBegin ==
  ASSUME NEW d \in Databases, NEW key, Has(d.source, key)
  PROVE  /\ NameOf(d, key) \in Seq(Parts) \ {<<>>} /\ NameOf(d, key)[1] \notin Reserved
         /\ key \in Seq(Parts) \ {<<>>} /\ key[1] \notin Reserved
         /\ NeedsCast(d, key) => CastName(d, key) \in Seq(Parts) \ {<<>>}
                                 /\ CastName(d, key)[1] \in FirstCasts
         /\ CalcName(d, key) \in Seq(Parts) \ {<<>>} /\ CalcName(d, key)[1] \in Calcs
         /\ CalcBase(d, key) \in Seq(Parts) \ {<<>>} /\ CalcBase(d, key)[1] # "dvt_calc_col"
<1>1. NameOf(d, key) \in ColumnName /\ key \in ColumnName
  <2>1. ColumnOf(d.source, key) \in TableColumn /\ ColumnOf(d.source, key).key = key
    BY ColumnOfKey, SidesAre
  <2> QED BY <2>1 DEF TableColumn, NameOf
<1>2. Place(d, key) \in Nat
  BY PlaceIs
<1>3. \A n \in ColumnName : n \in Seq(Parts) \ {<<>>} /\ n[1] \notin Reserved
  BY ColumnNames DEF ColumnName
<1>4. "dvt_calc_col" \in Reserved /\ "dvt_calc_col" \notin FirstCasts /\ "dvt_calc_col" \notin Calcs
      /\ FirstCasts \subseteq Parts /\ Calcs \subseteq Parts
  <2>1. FirstCasts \cup Calcs \subseteq Reserved
    BY DEF FirstCasts, Calcs, Reserved, CastPrefix
  <2>2. "dvt_calc_col" \in Reserved /\ Reserved \subseteq Parts
    BY DEF Reserved, Parts, Words
  <2> QED BY <2>1, <2>2 DEF FirstCasts, Calcs
<1>5. \A p \in Parts, x \in Seq(Parts) \ {<<>>} :
        LET y == Prefix(d, p, x, Place(d, key)) IN y \in Seq(Parts) \ {<<>>} /\ y[1] = p
  <2>1. ASSUME NEW p \in Parts, NEW x \in Seq(Parts) \ {<<>>}
        PROVE  LET y == Prefix(d, p, x, Place(d, key)) IN y \in Seq(Parts) \ {<<>>} /\ y[1] = p
    <3> DEFINE y == Prefix(d, p, x, Place(d, key))
    <3>1. y \in Seq(Parts) /\ y[1] = p /\ Len(y) >= 2
      BY <1>2, PrefixBegins
    <3> HIDE DEF y
    <3>2. y # <<>>
      BY <3>1
    <3> QED BY <3>1, <3>2 DEF y
  <2> QED BY <2>1
<1>6. NeedsCast(d, key) => CastName(d, key) \in Seq(Parts) \ {<<>>}
                           /\ CastName(d, key)[1] \in FirstCasts
  BY <1>1, <1>3, <1>4, <1>5, OwnNames
<1>7. CalcBase(d, key) \in Seq(Parts) \ {<<>>} /\ CalcBase(d, key)[1] # "dvt_calc_col"
  BY <1>1, <1>3, <1>4, <1>6 DEF CalcBase
<1>8. CalcName(d, key) \in Seq(Parts) \ {<<>>} /\ CalcName(d, key)[1] \in Calcs
  BY <1>4, <1>5, <1>7, OwnNames
<1> QED BY <1>1, <1>3, <1>6, <1>7, <1>8

\* Two columns with one number are one; so are two with one name.
LEMMA OneColumn ==
  ASSUME NEW d \in Databases, NEW k, Has(d.source, k), NEW l, Has(d.source, l),
         Place(d, k) = Place(d, l) \/ NameOf(d, k) = NameOf(d, l)
  PROVE  k = l
<1>1. CASE Place(d, k) = Place(d, l)
  BY <1>1, PlaceIs
<1>2. CASE NameOf(d, k) = NameOf(d, l)
  <2>1. PICK i \in DOMAIN d.source.columns :
          NameOf(d, k) = d.source.columns[i].name /\ d.source.columns[i].key = k
    BY ColumnOfKey, SidesAre DEF NameOf
  <2>2. PICK j \in DOMAIN d.source.columns :
          NameOf(d, l) = d.source.columns[j].name /\ d.source.columns[j].key = l
    BY ColumnOfKey, SidesAre DEF NameOf
  <2>3. \A x, y \in DOMAIN d.source.columns :
          d.source.columns[x].name = d.source.columns[y].name => x = y
    BY TableOf, SidesAre
  <2>4. i = j
    BY <1>2, <2>1, <2>2, <2>3
  <2> QED BY <2>1, <2>2, <2>4
<1> QED BY <1>1, <1>2

\* A field's name tells its column, and whether it is the first of two.
LEMMA OwnNamesDiffer ==
  ASSUME NEW d \in Databases, NEW k, Has(d.source, k), NEW l, Has(d.source, l)
  PROVE  /\ NeedsCast(d, k) /\ NeedsCast(d, l) /\ CastName(d, k) = CastName(d, l) => k = l
         /\ CalcName(d, k) = CalcName(d, l) => k = l
         /\ NeedsCast(d, k) => CastName(d, k) # CalcName(d, l)
<1>1. /\ Place(d, k) \in DOMAIN Numeral /\ Place(d, k) \in Nat
      /\ Place(d, l) \in DOMAIN Numeral /\ Place(d, l) \in Nat
  BY PlaceIs
<1>2. FirstCasts \subseteq Parts /\ Calcs \subseteq Parts /\ FirstCasts \cap Calcs = {}
      /\ FirstCasts \cup Calcs \subseteq Reserved /\ "dvt_calc_col" \in Reserved
  <2>1. FirstCasts \cup Calcs \subseteq Reserved
    BY DEF FirstCasts, Calcs, Reserved, CastPrefix
  <2>2. Reserved \subseteq Parts /\ "dvt_calc_col" \in Reserved
    BY DEF Reserved, Parts, Words
  <2> QED BY <2>1, <2>2 DEF FirstCasts, Calcs
<1>3. /\ NameOf(d, k) \in Seq(Parts) \ {<<>>} /\ NameOf(d, k)[1] \notin Reserved
      /\ NameOf(d, l) \in Seq(Parts) \ {<<>>} /\ NameOf(d, l)[1] \notin Reserved
  BY NamesBegin
<1>4. ASSUME NeedsCast(d, k), NeedsCast(d, l), CastName(d, k) = CastName(d, l) PROVE k = l
  <2>1. PICK p \in FirstCasts : CastName(d, k) = Prefix(d, p, NameOf(d, k), Place(d, k))
    BY <1>4, OwnNames
  <2>2. PICK q \in FirstCasts : CastName(d, l) = Prefix(d, q, NameOf(d, l), Place(d, l))
    BY <1>4, OwnNames
  <2>3. p \in Parts /\ q \in Parts
        /\ Prefix(d, p, NameOf(d, k), Place(d, k)) = Prefix(d, q, NameOf(d, l), Place(d, l))
    BY <1>2, <1>4, <2>1, <2>2
  <2>4. NameOf(d, k)[1] # "dvt_calc_col" /\ NameOf(d, l)[1] # "dvt_calc_col"
    BY <1>2, <1>3
  <2>5. Place(d, k) = Place(d, l) \/ NameOf(d, k) = NameOf(d, l)
    BY <1>1, <1>3, <2>3, <2>4, PrefixOnce
  <2> QED BY <2>5, OneColumn
<1>5. ASSUME CalcName(d, k) = CalcName(d, l) PROVE k = l
  <2>1. PICK p \in Calcs : CalcName(d, k) = Prefix(d, p, CalcBase(d, k), Place(d, k))
    BY OwnNames
  <2>2. PICK q \in Calcs : CalcName(d, l) = Prefix(d, q, CalcBase(d, l), Place(d, l))
    BY OwnNames
  <2>3. /\ CalcBase(d, k) \in Seq(Parts) \ {<<>>} /\ CalcBase(d, k)[1] # "dvt_calc_col"
        /\ CalcBase(d, l) \in Seq(Parts) \ {<<>>} /\ CalcBase(d, l)[1] # "dvt_calc_col"
    BY NamesBegin
  <2>4. Place(d, k) = Place(d, l) \/ CalcBase(d, k) = CalcBase(d, l)
    <3>1. p \in Parts /\ q \in Parts
          /\ Prefix(d, p, CalcBase(d, k), Place(d, k)) = Prefix(d, q, CalcBase(d, l), Place(d, l))
      BY <1>2, <1>5, <2>1, <2>2
    <3> QED BY <1>1, <2>3, <3>1, PrefixOnce
  <2>5. ASSUME CalcBase(d, k) = CalcBase(d, l) PROVE k = l
    <3>1. CASE NeedsCast(d, k) /\ NeedsCast(d, l)
      BY <1>4, <2>5, <3>1 DEF CalcBase
    <3>2. CASE ~NeedsCast(d, k) /\ ~NeedsCast(d, l)
      BY <2>5, <3>2, OneColumn DEF CalcBase
    <3>3. CASE NeedsCast(d, k) /\ ~NeedsCast(d, l)
      <4>1. CastName(d, k)[1] \in Reserved
        BY <1>2, <3>3, NamesBegin
      <4> QED BY <1>3, <2>5, <3>3, <4>1 DEF CalcBase
    <3>4. CASE ~NeedsCast(d, k) /\ NeedsCast(d, l)
      <4>1. CastName(d, l)[1] \in Reserved
        BY <1>2, <3>4, NamesBegin
      <4> QED BY <1>3, <2>5, <3>4, <4>1 DEF CalcBase
    <3> QED BY <3>1, <3>2, <3>3, <3>4
  <2> QED BY <2>4, <2>5, OneColumn
<1>6. NeedsCast(d, k) => CastName(d, k) # CalcName(d, l)
  <2>1. NeedsCast(d, k) => CastName(d, k)[1] \in FirstCasts
    BY NamesBegin
  <2>2. CalcName(d, l)[1] \in Calcs
    BY NamesBegin
  <2> QED BY <1>2, <2>1, <2>2
<1> QED BY <1>4, <1>5, <1>6

\* What an aggregate is of: a column, or the field computed of it.
AggBase(d, agg, a, key) ==
  IF PreOf(d, agg, a, key) = <<>> THEN key ELSE CalcName(d, key)

\* The name of an aggregate, and what it is made of.
LEMMA AggNameIs ==
  ASSUME NEW d, NEW agg, NEW a, NEW key
  PROVE  /\ AggOf(d, agg, a, key).type = agg.type
         /\ AggOf(d, agg, a, key).ref.alias
              = Prefix(d, agg.type, AggBase(d, agg, a, key), Place(d, key))
<1> DEFINE s == ColumnOf(d.source, key).name
           t == ColumnOf(d.target, key).name
           n == Place(d, key)
           pre == PreOf(d, agg, a, key)
           cast == AggregateCast(d, key, agg, pre)
           Agg(x, y, z) == [type |-> agg.type,
                            ref |-> Reference(x, y, Prefix(d, agg.type, z, n), cast)]
<1>1. pre # <<>> => Last(pre).alias = CalcName(d, key)
  BY PreAggIs DEF PreOf, CalcName
<1>2. AggOf(d, agg, a, key) = IF pre = <<>> THEN Agg(s, t, key)
                              ELSE Agg(Last(pre).alias, Last(pre).alias, Last(pre).alias)
  BY DEF AggOf, AggregateOf
<1>3. \A x, y, z : Agg(x, y, z).type = agg.type /\ Agg(x, y, z).ref.alias = Prefix(d, agg.type, z, n)
  BY DEF Reference
<1> HIDE DEF Agg, s, t, pre, cast
<1>4. CASE pre = <<>>
  BY <1>2, <1>3, <1>4 DEF AggBase, pre
<1>5. CASE pre # <<>>
  BY <1>1, <1>2, <1>3, <1>5 DEF AggBase, pre
<1> QED BY <1>4, <1>5

\* The aggregates of one type are named after their type, those of two columns differently.
LEMMA AggNamesDiffer ==
  ASSUME NEW d \in Databases, NEW agg, agg.type \in AggregateTypes, NEW a
  PROVE  /\ \A k : Has(d.source, k) =>
              LET name == AggOf(d, agg, a, k).ref.alias
              IN  name \in Derived /\ name[1] = agg.type /\ Len(name) >= 2
         /\ \A k, l : Has(d.source, k) /\ Has(d.source, l)
                      /\ AggOf(d, agg, a, k).ref.alias = AggOf(d, agg, a, l).ref.alias => k = l
<1>1. agg.type \in Reserved /\ agg.type \in Parts /\ "dvt_calc_col" \in Reserved
  BY DEF Reserved, Parts, Words
<1>2. Calcs \subseteq Reserved /\ "dvt_calc_col" \notin Calcs
  BY DEF Calcs, Reserved, CastPrefix
<1>3. ASSUME NEW k, Has(d.source, k)
      PROVE  /\ AggBase(d, agg, a, k) \in Seq(Parts) \ {<<>>}
             /\ AggBase(d, agg, a, k)[1] # "dvt_calc_col"
             /\ Place(d, k) \in DOMAIN Numeral /\ Place(d, k) \in Nat
  <2>1. Place(d, k) \in DOMAIN Numeral /\ Place(d, k) \in Nat
    BY <1>3, PlaceIs
  <2>2. /\ k \in Seq(Parts) \ {<<>>} /\ k[1] # "dvt_calc_col"
        /\ CalcName(d, k) \in Seq(Parts) \ {<<>>} /\ CalcName(d, k)[1] # "dvt_calc_col"
    BY <1>1, <1>2, <1>3, NamesBegin
  <2>3. AggBase(d, agg, a, k) \in {k, CalcName(d, k)}
    BY DEF AggBase
  <2> QED BY <2>1, <2>2, <2>3
<1>4. ASSUME NEW k, Has(d.source, k)
      PROVE  LET name == AggOf(d, agg, a, k).ref.alias
             IN  name \in Derived /\ name[1] = agg.type /\ Len(name) >= 2
  <2> DEFINE name == Prefix(d, agg.type, AggBase(d, agg, a, k), Place(d, k))
  <2>1. name \in Derived
    BY <1>1, <1>3, <1>4, PrefixIsDerived
  <2>2. name[1] = agg.type /\ Len(name) >= 2
    BY <1>1, <1>3, <1>4, PrefixBegins
  <2> QED BY <2>1, <2>2, AggNameIs
<1>5. ASSUME NEW k, Has(d.source, k), NEW l, Has(d.source, l),
             AggOf(d, agg, a, k).ref.alias = AggOf(d, agg, a, l).ref.alias
      PROVE  k = l
  <2>1. Prefix(d, agg.type, AggBase(d, agg, a, k), Place(d, k))
          = Prefix(d, agg.type, AggBase(d, agg, a, l), Place(d, l))
    BY <1>5, AggNameIs
  <2>2. Place(d, k) = Place(d, l) \/ AggBase(d, agg, a, k) = AggBase(d, agg, a, l)
    BY <1>1, <1>3, <1>5, <2>1, PrefixOnce
  <2>3. ASSUME AggBase(d, agg, a, k) = AggBase(d, agg, a, l) PROVE k = l
    <3>1. /\ k[1] \notin Reserved /\ l[1] \notin Reserved
          /\ CalcName(d, k)[1] \in Reserved /\ CalcName(d, l)[1] \in Reserved
      BY <1>2, <1>5, NamesBegin
    <3>2. CalcName(d, k) = CalcName(d, l) => k = l
      BY <1>5, OwnNamesDiffer
    <3> QED BY <2>3, <3>1, <3>2 DEF AggBase
  <2> QED BY <1>5, <2>2, <2>3, OneColumn
<1> QED BY <1>4, <1>5

\* The names of lists of references the code makes.
LEMMA NamesAre ==
  ASSUME NEW d, NEW S, NEW keys \in Seq(S)
  PROVE  RefNames(ColumnConfigs(d, keys)) = keys /\ RefNames(ComparisonConfigs(d, keys)) = keys
<1>1. keys = [i \in DOMAIN keys |-> keys[i]]
  OBVIOUS
<1>2. RefNames(ColumnConfigs(d, keys)) = [i \in DOMAIN keys |-> keys[i]]
  BY DEF RefNames, ColumnConfigs, Reference
<1>3. RefNames(ComparisonConfigs(d, keys)) = [i \in DOMAIN keys |-> keys[i]]
  BY DEF RefNames, ComparisonConfigs, Reference
<1> QED BY <1>1, <1>2, <1>3

\* Nothing has no names.
LEMMA NoNames == RefNames(<<>>) = <<>> /\ AggNames(<<>>) = <<>>
<1>1. \A f : DOMAIN f = {} /\ f = [i \in {} |-> f[i]] => f = <<>>
  OBVIOUS
<1>2. DOMAIN <<>> = {}
  OBVIOUS
<1> QED BY <1>1, <1>2 DEF RefNames, AggNames

\* The names of a list are a list.
LEMMA NamesAreLists ==
  ASSUME NEW d, NEW c \in ConfigSet(d)
  PROVE  /\ RefNames(c.comparison) \in Seq(Seq(Parts)) /\ RefNames(c.primary) \in Seq(Seq(Parts))
         /\ RefNames(c.groups) \in Seq(Seq(Parts)) /\ AggNames(c.aggregates) \in Seq(Seq(Parts))
<1>1. /\ c.comparison \in Seq(GoodRefs(d)) /\ c.primary \in Seq(GoodRefs(d))
      /\ c.groups \in Seq(GoodRefs(d)) /\ c.aggregates \in Seq(GoodAggregates(d))
  BY DEF ConfigSet
<1>2. \A r \in GoodRefs(d) : r.alias \in Seq(Parts)
  BY DEF GoodRefs, Refs
<1>3. \A g \in GoodAggregates(d) : g.ref.alias \in Seq(Parts)
  <2>1. \A r \in Refs : r.alias \in Seq(Parts)
    BY DEF Refs
  <2>2. \A g \in GoodAggregates(d) : g.ref \in Refs
    BY DEF GoodAggregates
  <2> QED BY <2>1, <2>2
<1>4. \A s \in Seq(GoodRefs(d)) : RefNames(s) \in Seq(Seq(Parts))
  BY <1>2 DEF RefNames
<1>5. \A s \in Seq(GoodAggregates(d)) : AggNames(s) \in Seq(Seq(Parts))
  BY <1>3 DEF AggNames
<1> QED BY <1>1, <1>4, <1>5

\* The names of a row validation and those of a column validation.
LEMMA NamesOfKinds ==
  ASSUME NEW d, NEW c \in ConfigSet(d)
  PROVE  /\ c.groups = <<>> /\ c.aggregates = <<>> =>
              NamesIn(c) = RefNames(c.comparison) \o RefNames(c.primary)
         /\ c.comparison = <<>> /\ c.primary = <<>> =>
              NamesIn(c) = RefNames(c.groups) \o AggNames(c.aggregates)
<1> DEFINE C == RefNames(c.comparison)
           P == RefNames(c.primary)
           G == RefNames(c.groups)
           A == AggNames(c.aggregates)
           S == Seq(Parts)
<1>1. C \in Seq(S) /\ P \in Seq(S) /\ G \in Seq(S) /\ A \in Seq(S)
  BY NamesAreLists
<1>2. NamesIn(c) = ((C \o P) \o G) \o A
  BY DEF NamesIn
<1>3. /\ c.comparison = <<>> => C = <<>>
      /\ c.primary = <<>> => P = <<>>
      /\ c.groups = <<>> => G = <<>>
      /\ c.aggregates = <<>> => A = <<>>
  BY NoNames
<1> HIDE DEF C, P, G, A, S
<1>4. \A s \in Seq(S) : s \o <<>> = s /\ <<>> \o s = s
  OBVIOUS
<1>5. C \o P \in Seq(S) /\ <<>> \in Seq(S)
  BY <1>1
<1>6. G = <<>> /\ A = <<>> => NamesIn(c) = C \o P
  BY <1>2, <1>4, <1>5
<1>7. C = <<>> /\ P = <<>> => NamesIn(c) = G \o A
  BY <1>1, <1>2, <1>4, <1>5
<1> QED BY <1>3, <1>6, <1>7 DEF C, P, G, A

\* The keys of compared fields differ.
LEMMA SupportedKeysDiffer ==
  ASSUME NEW d \in Databases, NEW s \in Sides, NEW r, NEW x, NEW S, NEW T
  PROVE  IsInjective(Keys(OfSupportedType(d, Listed(d[s].columns, r, x), S, T)))
<1> DEFINE columns == d[s].columns
           L == {c \in ToSet(columns) : r.all \/ (Contains(r.list, c.key) # x)}
           listed == Keep(columns, L)
           M == {listed[i] : i \in DOMAIN listed \ LeftOut(d, S, T)}
           kept == Keep(listed, M)
<1>1. OfSupportedType(d, Listed(columns, r, x), S, T) = kept
  BY DEF OfSupportedType, Listed, Without
<1>2. columns \in Seq(TableColumn)
  BY TableOf
<1>3. \A i, j \in DOMAIN columns : columns[i].key = columns[j].key => i = j
  BY TableOf
<1>4. IsInjective(columns)
  BY <1>3 DEF IsInjective
<1> HIDE DEF columns, L
<1>5. listed \in Seq(TableColumn) /\ IsInjective(listed) /\ ToSet(listed) \subseteq ToSet(columns)
  BY <1>2, <1>4, KeepIs
<1> HIDE DEF listed, M
<1>6. kept \in Seq(TableColumn) /\ IsInjective(kept) /\ ToSet(kept) \subseteq ToSet(columns)
  BY <1>5, KeepIs
<1> HIDE DEF kept
<1>7. ASSUME NEW i \in DOMAIN kept, NEW j \in DOMAIN kept, kept[i].key = kept[j].key PROVE i = j
  <2>1. PICK m \in DOMAIN columns : kept[i] = columns[m]
    BY <1>6 DEF ToSet
  <2>2. PICK n \in DOMAIN columns : kept[j] = columns[n]
    BY <1>6 DEF ToSet
  <2>3. kept[i] = kept[j]
    BY <1>3, <1>7, <2>1, <2>2
  <2> QED BY <1>6, <2>3 DEF IsInjective
<1>8. IsInjective(Keys(kept))
  BY <1>7 DEF IsInjective, Keys
<1> QED BY <1>1, <1>8 DEF columns

\* No column is a compared field twice.
LEMMA CompFieldsDiffer ==
  ASSUME NEW d \in Databases, NEW r, NEW x, NEW primary
  PROVE  IsInjective(CompFields(d, r, x, primary))
<1> DEFINE listed == Listed(d.source.columns, r, x)
           keys == Keys(OfSupportedType(d, listed, listed, listed))
           K == ToSet(keys) \ ToSet(primary)
<1>1. CompFields(d, r, x, primary) = Keep(keys, K)
  BY DEF CompFields
<1>2. keys \in Seq(ColumnName) /\ IsInjective(keys)
  <2>1. \A s \in Sides : \A S, T :
          LET k == Keys(OfSupportedType(d, Listed(d[s].columns, r, x), S, T))
          IN  k \in Seq(ColumnName) /\ IsInjective(k)
    BY SupportedKeys, SupportedKeysDiffer
  <2> QED BY <2>1, SidesAre
<1> HIDE DEF keys, K
<1> QED BY <1>1, <1>2, KeepIs

\* So do the names they are compared under.
LEMMA WithRstripDiffers ==
  ASSUME NEW d, NEW keys \in Seq(ColumnName), IsInjective(keys), NEW primary,
         ToSet(keys) \cap ToSet(primary) = {}, primary \in Seq(ColumnName)
  PROVE  /\ WithRstrip(d, keys) \in Seq(Seq(Parts)) /\ IsInjective(WithRstrip(d, keys))
         /\ ToSet(WithRstrip(d, keys)) \cap ToSet(primary) = {}
<1> DEFINE names == WithRstrip(d, keys)
           R(k) == <<"rstrip">> \o k
<1>1. names = [i \in DOMAIN keys |-> IF Padded(d, keys[i]) THEN R(keys[i]) ELSE keys[i]]
  BY DEF WithRstrip
<1>2. DOMAIN keys = 1..Len(keys) /\ Len(keys) \in Nat
  OBVIOUS
<1>3. "rstrip" \in Reserved /\ "rstrip" \in Parts
  BY DEF Reserved, Parts, Words
<1>4. \A k \in ColumnName : k \in Seq(Parts) /\ k # <<>> /\ k[1] \notin Reserved
  BY ColumnNames DEF ColumnName
<1>5. ASSUME NEW k \in Seq(Parts) PROVE R(k) \in Seq(Parts) /\ R(k)[1] = "rstrip" /\ Tail(R(k)) = k
  <2> DEFINE w == "rstrip"
  <2>1. w \in Parts
    BY <1>3
  <2> HIDE DEF w
  <2>2. <<w>> \o k \in Seq(Parts) /\ (<<w>> \o k)[1] = w
    BY <2>1
  <2>3. Tail(<<w>> \o k) = k
    BY <2>1, SMT
  <2> QED BY <2>2, <2>3 DEF w
<1> HIDE DEF R, names
<1>6. \A i \in DOMAIN keys : keys[i] \in ColumnName
  OBVIOUS
<1>7. \A k \in ColumnName, l \in ColumnName : R(k) # l /\ (R(k) = R(l) => k = l)
  <2>1. ASSUME NEW k \in ColumnName, NEW l \in ColumnName PROVE R(k) # l /\ (R(k) = R(l) => k = l)
    <3>1. R(k)[1] \in Reserved /\ Tail(R(k)) = k /\ Tail(R(l)) = l /\ l[1] \notin Reserved
      BY <1>3, <1>4, <1>5
    <3> QED BY <3>1
  <2> QED BY <2>1
<1>8. names \in Seq(Seq(Parts))
  <2>1. ASSUME NEW i \in DOMAIN keys PROVE names[i] \in Seq(Parts)
    BY <1>1, <1>4, <1>5, <1>6
  <2>2. names = [i \in 1..Len(keys) |-> names[i]]
    BY <1>1, <1>2
  <2> QED BY <1>2, <2>1, <2>2
<1>9. ASSUME NEW i \in DOMAIN keys, NEW j \in DOMAIN keys, names[i] = names[j] PROVE i = j
  <2>1. keys[i] = keys[j]
    BY <1>1, <1>6, <1>7, <1>9
  <2> QED BY <2>1 DEF IsInjective
<1>10. IsInjective(names)
  BY <1>1, <1>9 DEF IsInjective
<1>11. ASSUME NEW i \in DOMAIN keys, NEW j \in DOMAIN primary, names[i] = primary[j] PROVE FALSE
  <2>1. keys[i] # primary[j]
    BY DEF ToSet
  <2>2. primary[j] \in ColumnName
    OBVIOUS
  <2> QED BY <1>1, <1>6, <1>7, <1>11, <2>1, <2>2
<1>12. ToSet(names) \cap ToSet(primary) = {}
  BY <1>1, <1>11 DEF ToSet
<1> QED BY <1>8, <1>10, <1>12 DEF names

\* What an aggregation adds to the names: names of its type, none twice.
LEMMA AggregatesNames ==
  ASSUME NEW d \in Databases, NEW agg, agg.type \in AggregateTypes, NEW a, NEW c,
         c \in ConfigSet(d), WithAggregates(d, c, agg, a) \in ConfigSet(d),
         IsInjective(AggNames(c.aggregates)),
         \A n \in ToSet(AggNames(c.aggregates)) : Len(n) >= 2 => n[1] # agg.type
  PROVE  LET w == WithAggregates(d, c, agg, a)
         IN  /\ IsInjective(AggNames(w.aggregates))
             /\ \A n \in ToSet(AggNames(w.aggregates)) :
                  \/ n \in ToSet(AggNames(c.aggregates))
                  \/ n \in Derived /\ n[1] = agg.type /\ Len(n) >= 2
<1> DEFINE w == WithAggregates(d, c, agg, a)
           keys == AggregatedKeys(d, agg, a)
           new == [i \in DOMAIN keys |-> AggOf(d, agg, a, keys[i])]
           old == c.aggregates
<1>1. w.aggregates = old \o new
  BY AggregatesOf
<1>2. /\ keys \in Seq(ColumnName) /\ IsInjective(keys)
      /\ \A key \in ToSet(keys) : Has(d.source, key) /\ Has(d.target, key)
  BY AggregatedAre
<1> HIDE DEF keys, w
<1>3. DOMAIN keys = 1..Len(keys) /\ Len(keys) \in Nat
      /\ \A i \in DOMAIN keys : Has(d.source, keys[i]) /\ Has(d.target, keys[i])
  BY <1>2 DEF ToSet
<1>4. new \in Seq(GoodAggregates(d)) /\ old \in Seq(GoodAggregates(d))
  <2>1. \A i \in 1..Len(keys) : AggOf(d, agg, a, keys[i]) \in GoodAggregates(d)
    BY <1>3, AggOfIsGood
  <2> QED BY <1>3, <2>1 DEF ConfigSet
<1>5. DOMAIN new = DOMAIN keys /\ \A i \in DOMAIN keys :
        LET name == new[i].ref.alias
        IN  name \in Derived /\ name[1] = agg.type /\ Len(name) >= 2
  <2>1. \A i \in DOMAIN keys : new[i] = AggOf(d, agg, a, keys[i])
    OBVIOUS
  <2> HIDE DEF new
  <2>2. ASSUME NEW i \in DOMAIN keys
        PROVE  LET name == new[i].ref.alias
               IN  name \in Derived /\ name[1] = agg.type /\ Len(name) >= 2
    BY <1>3, <2>1, AggNamesDiffer
  <2> QED BY <2>2 DEF new
<1>6. \A i, j \in DOMAIN keys : new[i].ref.alias = new[j].ref.alias => i = j
  <2>1. \A i \in DOMAIN keys : new[i] = AggOf(d, agg, a, keys[i])
    OBVIOUS
  <2> HIDE DEF new
  <2>2. ASSUME NEW i \in DOMAIN keys, NEW j \in DOMAIN keys, new[i].ref.alias = new[j].ref.alias
        PROVE  i = j
    <3>1. keys[i] = keys[j]
      BY <1>3, <2>1, <2>2, AggNamesDiffer
    <3> QED BY <1>2, <3>1 DEF IsInjective
  <2> QED BY <2>2
<1> HIDE DEF new, old
<1>7. IsInjective(AggNames(new)) /\ AggNames(new) \in Seq(Seq(Parts))
      /\ \A n \in ToSet(AggNames(new)) : n \in Derived /\ n[1] = agg.type /\ Len(n) >= 2
  <2>1. IsInjective(AggNames(new))
    BY <1>5, <1>6 DEF IsInjective, AggNames
  <2>2. \A n \in ToSet(AggNames(new)) : n \in Derived /\ n[1] = agg.type /\ Len(n) >= 2
    BY <1>5 DEF ToSet, AggNames
  <2>3. AggNames(new) \in Seq(Seq(Parts))
    BY <1>3, <1>5, ColumnNames DEF AggNames
  <2> QED BY <2>1, <2>2, <2>3
<1>8. AggNames(old) \in Seq(Seq(Parts))
  BY NamesAreLists DEF old
<1>9. AggNames(old \o new) = AggNames(old) \o AggNames(new)
  <2>1. \A s \in Seq(GoodAggregates(d)) : AggRefs(s) \in Seq(Refs) /\ AggNames(s) = RefNames(AggRefs(s))
    <3>1. \A g \in GoodAggregates(d) : g.ref \in Refs
      BY DEF GoodAggregates
    <3> QED BY <3>1 DEF AggNames, RefNames, AggRefs
  <2>2. AggRefs(old \o new) = AggRefs(old) \o AggRefs(new)
    BY <1>4, JoinedRefs
  <2>3. old \o new \in Seq(GoodAggregates(d))
    BY <1>4
  <2>4. RefNames(AggRefs(old) \o AggRefs(new)) = RefNames(AggRefs(old)) \o RefNames(AggRefs(new))
    BY <1>4, <2>1, JoinedNames
  <2> QED BY <1>4, <2>1, <2>2, <2>3, <2>4
<1>10. ToSet(AggNames(old)) \cap ToSet(AggNames(new)) = {}
  BY <1>7 DEF old
<1>11. IsInjective(AggNames(old) \o AggNames(new))
       /\ ToSet(AggNames(old) \o AggNames(new)) = ToSet(AggNames(old)) \cup ToSet(AggNames(new))
  BY <1>7, <1>8, <1>10, JoinedInjective DEF old
<1>12. /\ IsInjective(AggNames(w.aggregates))
       /\ \A n \in ToSet(AggNames(w.aggregates)) :
            \/ n \in ToSet(AggNames(c.aggregates))
            \/ n \in Derived /\ n[1] = agg.type /\ Len(n) >= 2
  BY <1>1, <1>7, <1>9, <1>11 DEF old
<1> QED BY <1>12 DEF w

\* The names of the aggregates are different; but for the count of rows they are names of types,
\* and not of those that wait.
AggregatesNamed(c, waiting) ==
  LET names == AggNames(c.aggregates)
  IN  /\ IsInjective(names)
      /\ \A n \in ToSet(names) :
           \/ n = <<"count">>
           \/ /\ Len(n) >= 2 /\ n[1] \in Reserved
              /\ \A i \in DOMAIN waiting : n[1] # waiting[i].type

\* What is compared until the keys are known: nothing, or the one field of a hash or
\* a concatenation.
ComparesAll(c) ==
  \/ c.comparison = <<>>
  \/ Hashed /\ c.comparison = ComparisonConfigs(db, << <<args.method, "all">> >>)

\* The invariant of names: those of a configuration under construction, and of those built.
Named ==
  /\ \A i, j \in DOMAIN unaggregated : unaggregated[i].type = unaggregated[j].type => i = j
  /\ stage = "aggregates" =>
       /\ config.comparison = <<>> /\ config.primary = <<>> /\ config.groups = <<>>
       /\ AggregatesNamed(config, unaggregated)
  /\ stage \in {"calculated fields", "primary keys", "comparison fields"} =>
       /\ config.groups = <<>> /\ config.aggregates = <<>> /\ ComparesAll(config)
       /\ stage = "calculated fields" => config.comparison = <<>>
       /\ stage # "comparison fields" => config.primary = <<>>
       /\ stage = "comparison fields" =>
            config.primary = ColumnConfigs(db, PrimaryKeys) /\ ~MissingColumn(db, PrimaryKeys)
  /\ stage = "built" => IsInjective(NamesIn(config))
  /\ \A n \in DOMAIN managers : IsInjective(NamesIn(managers[n]))

NInv == QInv /\ Named

\* The invariant implies that no name is given twice.
LEMMA NInvNames == NInv => NoNameTwice
<1> SUFFICES ASSUME NInv, NEW n \in DOMAIN queries
             PROVE  /\ RefNames(queries[n].source) = RefNames(queries[n].target)
                    /\ IsInjective(RefNames(queries[n].source))
  BY SidesAre DEF NoNameTwice, RefNames
<1>1. n \in DOMAIN managers /\ queries[n] = QueriesOf(db, managers[n])
  <2>1. /\ Len(queries) \in 0..Len(managers) /\ DOMAIN queries = 1..Len(queries)
        /\ queries = [i \in 1..Len(queries) |-> QueriesOf(db, managers[i])]
    BY DEF NInv, QInv, Asked
  <2>2. DOMAIN managers = 1..Len(managers) /\ Len(managers) \in Nat
    BY DEF NInv, QInv, Built
  <2> QED BY <2>1, <2>2
<1>2. managers[n] \in ConfigSet(db)
  BY <1>1 DEF NInv, QInv, Built
<1>3. \A s \in Sides : RefNames(queries[n][s]) = NamesIn(managers[n])
  BY <1>1, <1>2, QueryNames DEF QueriesOf
<1>4. IsInjective(NamesIn(managers[n]))
  BY <1>1 DEF NInv, Named
<1> QED BY <1>3, <1>4, SidesAre

\* The primary keys name a column once.
LEMMA PrimaryKeysDiffer == Given => PrimaryKeys \in Seq(Seq(STRING)) /\ IsInjective(PrimaryKeys)
<1> SUFFICES ASSUME Given PROVE PrimaryKeys \in Seq(Seq(STRING)) /\ IsInjective(PrimaryKeys)
  OBVIOUS
<1>1. args.primary \in Seq(Seq(STRING)) /\ IsInjective(args.primary)
  BY ArgumentsAre DEF Given
<1>2. \A s \in Sides : db[s].primary \in Seq(Seq(STRING)) /\ IsInjective(db[s].primary)
  BY TableOf DEF Given
<1> QED BY <1>1, <1>2, SidesAre DEF PrimaryKeys

\* Those that both tables have are keys of columns.
LEMMA KeysOfBoth ==
  ASSUME NEW d \in Databases, NEW S, NEW keys \in Seq(S), ~MissingColumn(d, keys)
  PROVE  keys \in Seq(ColumnName) /\ ToSet(keys) \subseteq ColumnName
<1>1. \A i \in DOMAIN keys : Has(d.source, keys[i])
  BY DEF MissingColumn
<1>2. \A k : Has(d.source, k) => k \in ColumnName
  BY KeysAre, SidesAre
<1>3. \A i \in DOMAIN keys : keys[i] \in ColumnName
  BY <1>1, <1>2
<1>4. keys = [i \in 1..Len(keys) |-> keys[i]] /\ DOMAIN keys = 1..Len(keys) /\ Len(keys) \in Nat
  OBVIOUS
<1>5. keys \in Seq(ColumnName)
  BY <1>3, <1>4
<1> QED BY <1>3, <1>5 DEF ToSet

\* The names of columns on one side and of calculated fields on the other are different.
LEMMA NamesApart ==
  ASSUME NEW s \in Seq(ColumnName), NEW t, \A n \in ToSet(t) : n[1] \in Reserved
  PROVE  ToSet(s) \cap ToSet(t) = {}
<1>1. \A n \in ToSet(s) : n[1] \notin Reserved
  BY DEF ToSet, ColumnName
<1> QED BY <1>1

\* Nothing is named at first.
LEMMA NamedInit == Init => Named
<1> SUFFICES ASSUME Init PROVE Named
  OBVIOUS
<1>1. unaggregated = <<>> /\ managers = <<>> /\ stage = "start" /\ DOMAIN <<>> = {}
  BY DEF Init
<1> QED BY <1>1 DEF Named

\* Steps before a configuration and after an exception name nothing.
LEMMA NamedOutside ==
  ASSUME Named, UNCHANGED <<unaggregated, managers>>,
         stage' \notin {"aggregates", "calculated fields", "primary keys", "comparison fields", "built"}
  PROVE  Named'
BY DEF Named

\* The first name of a column validation is that of the count of rows.
LEMMA NamedNewConfigManager == NInv /\ NewConfigManager => Named'
<1> SUFFICES ASSUME NInv, NewConfigManager PROVE Named'
  OBVIOUS
<1> DEFINE y == IF Row THEN <<>> ELSE <<CountOfRows>>
           e == EmptyConfig
<1>1. /\ config' = [e EXCEPT !.columns = Head(pending), !.aggregates = y]
      /\ unaggregated' = IF Row THEN <<>> ELSE args.aggregates
      /\ stage' = IF Row THEN "calculated fields" ELSE "aggregates"
      /\ managers' = managers
  BY DEF NewConfigManager
<1>2. e \in ConfigSet(db) /\ e.groups = <<>> /\ e.comparison = <<>> /\ e.primary = <<>>
  BY EmptyIsGood DEF EmptyConfig
<1> HIDE DEF e, y
<1>3. /\ config'.groups = <<>> /\ config'.comparison = <<>> /\ config'.primary = <<>>
      /\ config'.aggregates = y
  BY <1>1, <1>2 DEF ConfigSet
<1>4. \A i, j \in DOMAIN unaggregated' : unaggregated'[i].type = unaggregated'[j].type => i = j
  <2>1. \A i, j \in DOMAIN args.aggregates : args.aggregates[i].type = args.aggregates[j].type => i = j
    BY ArgumentsAre DEF NInv, QInv, Given
  <2>2. DOMAIN <<>> = {}
    OBVIOUS
  <2> QED BY <1>1, <2>1, <2>2
<1>5. \A n \in DOMAIN managers : IsInjective(NamesIn(managers[n]))
  BY DEF NInv, Named
<1>6. CASE Row
  <2>1. stage' = "calculated fields" /\ y = <<>>
    BY <1>1, <1>6 DEF y
  <2> QED BY <1>1, <1>3, <1>4, <1>5, <2>1 DEF Named, ComparesAll
<1>7. CASE ~Row
  <2>1. stage' = "aggregates" /\ y = <<CountOfRows>>
    BY <1>1, <1>7 DEF y
  <2>2. AggNames(<<CountOfRows>>) = << <<"count">> >>
    BY DEF AggNames, CountOfRows, Reference
  <2>3. IsInjective(<< <<"count">> >>) /\ ToSet(<< <<"count">> >>) = {<<"count">>}
    BY DEF IsInjective, ToSet
  <2>4. AggregatesNamed(config', unaggregated')
    BY <1>3, <2>1, <2>2, <2>3 DEF AggregatesNamed
  <2> QED BY <1>1, <1>3, <1>4, <1>5, <2>1, <2>4 DEF Named
<1> QED BY <1>6, <1>7

\* The names of the aggregates of one type are new.
LEMMA NamedAppendAggregates == NInv /\ AppendAggregates => Named'
<1> SUFFICES ASSUME NInv, AppendAggregates PROVE Named'
  OBVIOUS
<1>1. CASE Raise
  BY <1>1, NamedOutside DEF Raise, NInv
<1>2. CASE ~Raise
  <2> DEFINE agg == Head(unaggregated)
             n == Len(unaggregated)
  <2>1. /\ config' = WithAggregates(db, config, agg, args)
        /\ unaggregated' = Tail(unaggregated)
        /\ UNCHANGED <<db, args, stage, pending, managers, queries>>
        /\ stage = "aggregates"
    BY <1>2 DEF AppendAggregates
  <2>2. unaggregated \in Seq(Aggregation) /\ unaggregated # <<>>
    BY DEF NInv, QInv, Waiting, AppendAggregates
  <2>3. /\ agg \in Aggregation /\ agg = unaggregated[1] /\ 1 \in DOMAIN unaggregated
        /\ DOMAIN unaggregated' = 1..(n - 1) /\ DOMAIN unaggregated = 1..n /\ n \in Nat
        /\ \A i \in 1..(n - 1) : unaggregated'[i] = unaggregated[i + 1]
    BY <2>1, <2>2
  <2>4. \A i, j \in 1..n : unaggregated[i].type = unaggregated[j].type => i = j
    BY <2>3 DEF NInv, Named
  <2>5. db \in Databases /\ config \in ConfigSet(db)
    BY DEF NInv, QInv, Given, Built, GoodConfig
  <2>6. config' \in ConfigSet(db)
    BY <1>2, <2>1, QInvAppendAggregates DEF NInv, QInv, Built, GoodConfig
  <2>7. /\ config.comparison = <<>> /\ config.primary = <<>> /\ config.groups = <<>>
        /\ AggregatesNamed(config, unaggregated)
    BY <2>1 DEF NInv, Named
  <2> HIDE DEF agg, n
  <2>8. agg.type \in AggregateTypes
    BY <2>3 DEF Aggregation
  <2>9. /\ IsInjective(AggNames(config.aggregates))
        /\ \A m \in ToSet(AggNames(config.aggregates)) : Len(m) >= 2 => m[1] # agg.type
    <3>1. Len(<<"count">>) = 1
      OBVIOUS
    <3>2. ASSUME NEW m \in ToSet(AggNames(config.aggregates)), Len(m) >= 2 PROVE m[1] # agg.type
      <4>1. m # <<"count">>
        <5>1. Len(m) = 1 => ~(Len(m) >= 2)
          BY Z3
        <5> QED BY <3>1, <3>2, <5>1, Zenon
      <4>2. \A i \in DOMAIN unaggregated : m[1] # unaggregated[i].type
        BY <2>7, <3>2, <4>1 DEF AggregatesNamed
      <4> QED BY <2>3, <4>2
    <3> QED BY <2>7, <3>2 DEF AggregatesNamed
  <2>10. /\ IsInjective(AggNames(config'.aggregates))
         /\ \A m \in ToSet(AggNames(config'.aggregates)) :
              \/ m \in ToSet(AggNames(config.aggregates))
              \/ m \in Derived /\ m[1] = agg.type /\ Len(m) >= 2
    BY <2>1, <2>5, <2>6, <2>8, <2>9, AggregatesNames
  <2>11. \A i \in DOMAIN unaggregated' :
           /\ unaggregated'[i].type # agg.type
           /\ \E j \in DOMAIN unaggregated : unaggregated'[i] = unaggregated[j]
    <3>1. ASSUME NEW i \in 1..(n - 1)
          PROVE  /\ unaggregated'[i].type # agg.type
                 /\ i + 1 \in DOMAIN unaggregated /\ unaggregated'[i] = unaggregated[i + 1]
      <4>1. i + 1 \in 1..n /\ 1 \in 1..n /\ i + 1 # 1
        BY <2>3
      <4> QED BY <2>3, <2>4, <4>1
    <3> QED BY <2>3, <3>1
  <2>12. AggregatesNamed(config', unaggregated')
    <3>1. \A m \in Derived : m[1] \in Reserved
      BY DEF Derived
    <3>2. ASSUME NEW m \in ToSet(AggNames(config'.aggregates))
          PROVE  \/ m = <<"count">>
                 \/ /\ Len(m) >= 2 /\ m[1] \in Reserved
                    /\ \A i \in DOMAIN unaggregated' : m[1] # unaggregated'[i].type
      <4>1. CASE m \in ToSet(AggNames(config.aggregates))
        BY <2>7, <2>11, <4>1 DEF AggregatesNamed
      <4>2. CASE m \in Derived /\ m[1] = agg.type /\ Len(m) >= 2
        BY <2>11, <3>1, <4>2
      <4> QED BY <2>10, <4>1, <4>2
    <3> QED BY <2>10, <3>2 DEF AggregatesNamed
  <2>13. \A i, j \in DOMAIN unaggregated' : unaggregated'[i].type = unaggregated'[j].type => i = j
    <3>1. ASSUME NEW i \in 1..(n - 1), NEW j \in 1..(n - 1),
                 unaggregated'[i].type = unaggregated'[j].type
          PROVE  i = j
      <4>1. i + 1 \in 1..n /\ j + 1 \in 1..n
        BY <2>3
      <4>2. i + 1 = j + 1
        BY <2>3, <2>4, <3>1, <4>1
      <4> QED BY <2>3, <4>2
    <3> QED BY <2>3, <3>1
  <2>14. config'.comparison = <<>> /\ config'.primary = <<>> /\ config'.groups = <<>>
    <3>1. PICK x, y : config' = Changed(config, x, y)
      BY <2>1, <2>5, AggregatesChange
    <3> QED BY <2>5, <2>7, <3>1 DEF Changed, ConfigSet
  <2>15. \A m \in DOMAIN managers : IsInjective(NamesIn(managers[m]))
    BY DEF NInv, Named
  <2> QED BY <2>1, <2>12, <2>13, <2>14, <2>15 DEF Named
<1> QED BY <1>1, <1>2

\* Grouped columns have names that no aggregate has.
LEMMA NamedAppendQueryGroups == NInv /\ AppendQueryGroups => Named'
<1> SUFFICES ASSUME NInv, AppendQueryGroups PROVE Named'
  OBVIOUS
<1>1. CASE MissingColumn(db, args.groups)
  BY <1>1, NamedOutside DEF AppendQueryGroups, Raise, NInv
<1>2. CASE ~MissingColumn(db, args.groups)
  <2> DEFINE more == ColumnConfigs(db, args.groups)
             A == AggNames(config.aggregates)
  <2>1. /\ config' = [config EXCEPT !.groups = config.groups \o more]
        /\ stage' = "built" /\ stage = "aggregates"
        /\ UNCHANGED <<db, args, pending, unaggregated, managers, queries>>
    BY <1>2 DEF AppendQueryGroups, Extend
  <2>2. /\ config.comparison = <<>> /\ config.primary = <<>> /\ config.groups = <<>>
        /\ AggregatesNamed(config, unaggregated)
    BY <2>1 DEF NInv, Named
  <2>3. config \in ConfigSet(db) /\ db \in Databases
    BY DEF NInv, QInv, Built, GoodConfig, Given
  <2>4. args.groups \in Seq(Seq(STRING)) /\ IsInjective(args.groups)
    BY ArgumentsAre DEF NInv, QInv, Given
  <2>5. args.groups \in Seq(ColumnName)
    BY <1>2, <2>3, <2>4, KeysOfBoth
  <2>6. more \in Seq(GoodRefs(db)) /\ RefNames(more) = args.groups
    BY <1>2, <2>3, <2>4, GoodColumns, NamesAre
  <2> HIDE DEF more
  <2>7. <<>> \o more = more
    BY <2>6
  <2>8. config' \in ConfigSet(db) /\ config'.comparison = <<>> /\ config'.primary = <<>>
        /\ config'.groups = more /\ config'.aggregates = config.aggregates
    BY <2>1, <2>2, <2>3, <2>6, <2>7 DEF ConfigSet
  <2>9. NamesIn(config') = args.groups \o A
    BY <2>6, <2>8, NamesOfKinds
  <2>10. A \in Seq(Seq(Parts))
    BY <2>3, NamesAreLists
  <2>11. \A m \in ToSet(A) : m[1] \in Reserved
    <3>1. <<"count">>[1] \in Reserved
      BY DEF Reserved, AggregateTypes
    <3> QED BY <2>2, <3>1 DEF AggregatesNamed
  <2>12. ToSet(args.groups) \cap ToSet(A) = {}
    BY <2>5, <2>11, NamesApart
  <2>13. args.groups \in Seq(Seq(Parts))
    BY <2>5, ColumnNames
  <2>14. IsInjective(A)
    BY <2>2 DEF AggregatesNamed
  <2> HIDE DEF A
  <2>15. IsInjective(args.groups \o A)
    BY <2>4, <2>10, <2>12, <2>13, <2>14, JoinedInjective
  <2>16. /\ \A i, j \in DOMAIN unaggregated : unaggregated[i].type = unaggregated[j].type => i = j
         /\ \A m \in DOMAIN managers : IsInjective(NamesIn(managers[m]))
    BY DEF NInv, Named
  <2> QED BY <2>1, <2>9, <2>15, <2>16 DEF Named
<1> QED BY <1>1, <1>2

\* A hash or a concatenation has the name of its operation.
LEMMA NamedAppendCalculatedFields == NInv /\ AppendCalculatedFields => Named'
<1> SUFFICES ASSUME NInv, AppendCalculatedFields PROVE Named'
  OBVIOUS
<1>1. CASE Raise
  BY <1>1, NamedOutside DEF Raise, NInv
<1>2. CASE ~Raise
  <2> DEFINE y == ComparisonConfigs(db, << <<args.method, "all">> >>)
  <2>1. /\ stage' = "primary keys" /\ stage = "calculated fields"
        /\ UNCHANGED <<db, args, pending, unaggregated, managers, queries>>
    BY <1>2 DEF AppendCalculatedFields, Extend
  <2>2. GoodConfig(db, args, config) /\ config \in ConfigSet(db)
    BY DEF NInv, QInv, Built, GoodConfig
  <2>3. /\ config.groups = <<>> /\ config.aggregates = <<>> /\ config.comparison = <<>>
        /\ config.primary = <<>>
    BY <2>1 DEF NInv, Named
  <2>4. /\ config'.groups = <<>> /\ config'.aggregates = <<>> /\ config'.primary = <<>>
        /\ config'.comparison = <<>> \/ (Hashed /\ config'.comparison = y)
    <3>1. CASE ~Hashed \/ Nothing
      <4>1. config' = [config EXCEPT !.comparison = config.comparison \o <<>>]
        BY <3>1 DEF AppendCalculatedFields, Extend
      <4>2. [config EXCEPT !.comparison = config.comparison \o <<>>] = config
        BY <2>2, PartsOf
      <4> QED BY <2>3, <4>1, <4>2
    <3>2. CASE ~(~Hashed \/ Nothing)
      <4> DEFINE x == DependentAliases(db, args.method, config.columns, args.upper)
      <4>1. config' = [config EXCEPT !.calculated = x, !.comparison = y]
        BY <1>2, <3>2 DEF AppendCalculatedFields
      <4> HIDE DEF x, y
      <4>2. config'.groups = config.groups /\ config'.aggregates = config.aggregates
            /\ config'.primary = config.primary /\ config'.comparison = y
        BY <2>2, <4>1 DEF ConfigSet
      <4> QED BY <2>3, <3>2, <4>2
    <3> QED BY <3>1, <3>2
  <2>5. ComparesAll(config)'
    BY <2>1, <2>4 DEF ComparesAll, Hashed
  <2>6. /\ \A i, j \in DOMAIN unaggregated : unaggregated[i].type = unaggregated[j].type => i = j
        /\ \A m \in DOMAIN managers : IsInjective(NamesIn(managers[m]))
    BY DEF NInv, Named
  <2> QED BY <2>1, <2>4, <2>5, <2>6 DEF Named
<1> QED BY <1>1, <1>2

\* Primary keys have names of their own, which are not that of a hash.
LEMMA NamedAppendPrimaryKeys == NInv /\ AppendPrimaryKeys => Named'
<1> SUFFICES ASSUME NInv, AppendPrimaryKeys PROVE Named'
  OBVIOUS
<1>1. CASE PrimaryKeys = <<>> \/ MissingColumn(db, PrimaryKeys)
  BY <1>1, NamedOutside DEF AppendPrimaryKeys, Raise, NInv
<1>2. CASE ~(PrimaryKeys = <<>> \/ MissingColumn(db, PrimaryKeys))
  <2> DEFINE more == ColumnConfigs(db, PrimaryKeys)
  <2>1. /\ config' = [config EXCEPT !.primary = config.primary \o more]
        /\ stage' = "comparison fields" /\ stage = "primary keys"
        /\ UNCHANGED <<db, args, pending, unaggregated, managers, queries>>
    BY <1>2 DEF AppendPrimaryKeys, Extend
  <2>2. config \in ConfigSet(db) /\ db \in Databases
    BY DEF NInv, QInv, Built, GoodConfig, Given
  <2>3. /\ config.groups = <<>> /\ config.aggregates = <<>> /\ config.primary = <<>>
        /\ ComparesAll(config)
    BY <2>1 DEF NInv, Named
  <2>4. PrimaryKeys \in Seq(Seq(STRING)) /\ PrimaryKeys' = PrimaryKeys
    BY <2>1, PrimaryKeysDiffer DEF NInv, QInv, PrimaryKeys
  <2>5. more \in Seq(GoodRefs(db))
    BY <1>2, <2>2, <2>4, GoodColumns
  <2> HIDE DEF more
  <2>6. <<>> \o more = more
    BY <2>5
  <2>7. config'.groups = <<>> /\ config'.aggregates = <<>> /\ config'.primary = more
        /\ config'.comparison = config.comparison
    BY <2>1, <2>2, <2>3, <2>6 DEF ConfigSet
  <2>8. ComparesAll(config)'
    BY <2>1, <2>3, <2>7 DEF ComparesAll, Hashed
  <2>9. /\ \A i, j \in DOMAIN unaggregated : unaggregated[i].type = unaggregated[j].type => i = j
        /\ \A m \in DOMAIN managers : IsInjective(NamesIn(managers[m]))
    BY DEF NInv, Named
  <2>10. config'.primary = ColumnConfigs(db', PrimaryKeys') /\ ~MissingColumn(db', PrimaryKeys')
    BY <1>2, <2>1, <2>4, <2>7 DEF more
  <2> QED BY <2>1, <2>7, <2>8, <2>9, <2>10 DEF Named
<1> QED BY <1>1, <1>2

\* Compared fields are no primary keys, and each has a name of its own.
LEMMA NamedAppendComparisonFields == NInv /\ AppendComparisonFields => Named'
<1> SUFFICES ASSUME NInv, AppendComparisonFields PROVE Named'
  OBVIOUS
<1> DEFINE names == CompFields(db, args.columns, args.exclude, PrimaryKeys)
           padded == OnTeradata(db)
           shown == IF padded THEN WithRstrip(db, names) ELSE names
           x == config.calculated \cup (IF padded THEN RstripFields(db, names) ELSE {})
           more == ComparisonConfigs(db, shown)
           new == [config EXCEPT !.calculated = x, !.comparison = config.comparison \o more]
           all == << <<args.method, "all">> >>
<1>1. CASE Raise
  BY <1>1, NamedOutside DEF Raise, NInv
<1>2. CASE ~Raise
  <2>1. /\ config' = IF Hashed THEN config ELSE new
        /\ config'.comparison # <<>>
        /\ stage' = "built" /\ stage = "comparison fields"
        /\ UNCHANGED <<db, args, pending, unaggregated, managers, queries>>
    BY <1>2 DEF AppendComparisonFields
  <2>2. config \in ConfigSet(db) /\ db \in Databases /\ config' \in ConfigSet(db)
    <3>1. config \in ConfigSet(db) /\ db \in Databases
      BY DEF NInv, QInv, Built, GoodConfig, Given
    <3>2. config' \in ConfigSet(db)
      BY <2>1, QInvAppendComparisonFields DEF NInv, QInv, Built, GoodConfig
    <3> QED BY <3>1, <3>2
  <2>3. /\ config.groups = <<>> /\ config.aggregates = <<>> /\ ComparesAll(config)
        /\ config.primary = ColumnConfigs(db, PrimaryKeys) /\ ~MissingColumn(db, PrimaryKeys)
    BY <2>1 DEF NInv, Named
  <2>4. PrimaryKeys \in Seq(Seq(STRING)) /\ IsInjective(PrimaryKeys)
    BY PrimaryKeysDiffer DEF NInv, QInv
  <2>5. PrimaryKeys \in Seq(ColumnName) /\ RefNames(config.primary) = PrimaryKeys
    BY <2>2, <2>3, <2>4, KeysOfBoth, NamesAre
  <2>6. names \in Seq(ColumnName) /\ IsInjective(names) /\ ToSet(names) \cap ToSet(PrimaryKeys) = {}
    BY <2>2, CompFieldKeys, CompFieldsDiffer
  <2>7. ColumnName \subseteq Seq(Parts) /\ PrimaryKeys \in Seq(Seq(Parts))
    BY <2>5, ColumnNames
  <2>8. /\ shown \in Seq(Seq(Parts)) /\ IsInjective(shown)
        /\ ToSet(shown) \cap ToSet(PrimaryKeys) = {}
    <3> HIDE DEF names
    <3>1. CASE padded
      BY <2>5, <2>6, <3>1, WithRstripDiffers
    <3>2. CASE ~padded
      BY <2>6, <2>7, <3>2
    <3> QED BY <3>1, <3>2
  <2> HIDE DEF names, shown, x
  <2>9. \E s \in Seq(Seq(Parts)) :
          /\ IsInjective(s) /\ ToSet(s) \cap ToSet(PrimaryKeys) = {}
          /\ RefNames(config'.comparison) = s
    <3>1. CASE Hashed
      <4>1. config' = config
        BY <2>1, <3>1
      <4>2. config.comparison = ComparisonConfigs(db, all)
        BY <2>1, <2>3, <4>1 DEF ComparesAll
      <4>3. args.method \in {"hash", "concat"}
        BY <3>1 DEF Hashed
      <4>4. /\ all \in Seq(Seq(Parts)) /\ IsInjective(all)
            /\ \A n \in ToSet(all) : n[1] \in Reserved
        <5> DEFINE m == args.method
                   w == "all"
        <5>1. m \in Parts /\ w \in Parts /\ m \in Reserved
          BY <4>3 DEF Parts, Words, Reserved
        <5> HIDE DEF m, w
        <5>2. << <<m, w>> >> \in Seq(Seq(Parts)) /\ ToSet(<< <<m, w>> >>) = {<<m, w>>}
          BY <5>1 DEF ToSet
        <5>3. IsInjective(<< <<m, w>> >>)
          BY DEF IsInjective
        <5> QED BY <5>1, <5>2, <5>3 DEF m, w
      <4> HIDE DEF all
      <4>5. RefNames(config'.comparison) = all
        BY <4>1, <4>2, <4>4, NamesAre
      <4>6. ToSet(PrimaryKeys) \cap ToSet(all) = {}
        BY <2>5, <4>4, NamesApart
      <4> QED BY <4>4, <4>5, <4>6
    <3>2. CASE ~Hashed
      <4>1. config.comparison = <<>>
        BY <2>3, <3>2 DEF ComparesAll
      <4>2. config'.comparison = config.comparison \o more
        <5>1. config' = new
          BY <2>1, <3>2
        <5> HIDE DEF more
        <5> QED BY <2>2, <5>1 DEF ConfigSet
      <4>3. more = [i \in 1..Len(shown) |-> more[i]] /\ Len(shown) \in Nat
        BY <2>8 DEF ComparisonConfigs
      <4>4. <<>> \o more = more
        <5> DEFINE M == {more[i] : i \in 1..Len(shown)}
        <5> HIDE DEF more
        <5>1. more \in Seq(M)
          BY <4>3
        <5> HIDE DEF M
        <5> QED BY <5>1
      <4>5. RefNames(more) = shown
        BY <2>8, NamesAre
      <4> HIDE DEF more
      <4> QED BY <2>8, <4>1, <4>2, <4>4, <4>5
    <3> QED BY <3>1, <3>2
  <2>10. config'.groups = <<>> /\ config'.aggregates = <<>> /\ config'.primary = config.primary
    <3>1. config' = config \/ config' = new
      BY <2>1
    <3> DEFINE y == config.comparison \o more
    <3> HIDE DEF y
    <3>2. new = [config EXCEPT !.calculated = x, !.comparison = y]
      BY DEF y
    <3> HIDE DEF new
    <3> QED BY <2>2, <2>3, <3>1, <3>2 DEF ConfigSet
  <2>11. NamesIn(config') = RefNames(config'.comparison) \o PrimaryKeys
    BY <2>2, <2>5, <2>10, NamesOfKinds
  <2>12. IsInjective(NamesIn(config'))
    BY <2>4, <2>7, <2>9, <2>11, JoinedInjective
  <2>13. /\ \A i, j \in DOMAIN unaggregated : unaggregated[i].type = unaggregated[j].type => i = j
         /\ \A m \in DOMAIN managers : IsInjective(NamesIn(managers[m]))
    BY DEF NInv, Named
  <2> QED BY <2>1, <2>12, <2>13 DEF Named
<1> QED BY <1>1, <1>2

\* The names of the configuration that is kept are those it had.
LEMMA NamedKeepConfigManager == NInv /\ KeepConfigManager => Named'
<1> SUFFICES ASSUME NInv, KeepConfigManager PROVE Named'
  OBVIOUS
<1>1. /\ managers' = Append(managers, config) /\ stage = "built"
      /\ stage' \in {"validate", "begin"} /\ unaggregated' = unaggregated
  BY DEF KeepConfigManager
<1>2. managers \in Seq(ConfigSet(db)) /\ config \in ConfigSet(db)
  BY DEF NInv, QInv, Built, GoodConfig
<1>3. /\ IsInjective(NamesIn(config))
      /\ \A n \in DOMAIN managers : IsInjective(NamesIn(managers[n]))
      /\ \A i, j \in DOMAIN unaggregated : unaggregated[i].type = unaggregated[j].type => i = j
  BY <1>1 DEF NInv, Named
<1>4. \A n \in DOMAIN managers' :
        managers'[n] = config \/ (n \in DOMAIN managers /\ managers'[n] = managers[n])
  BY <1>1, <1>2
<1>5. \A n \in DOMAIN managers' : IsInjective(NamesIn(managers'[n]))
  BY <1>3, <1>4
<1> QED BY <1>1, <1>3, <1>5 DEF Named

\* Every step keeps the invariant of names.
LEMMA NInvInductive == NInv /\ [Next]_vars => NInv'
<1> SUFFICES ASSUME NInv, [Next]_vars PROVE Named'
  BY QInvInductive DEF NInv
<1>1. CASE PreBuild
  <2>1. stage' \in {"begin", "raised"} /\ UNCHANGED <<unaggregated, managers>>
    BY <1>1 DEF PreBuild, Raise
  <2> QED BY <2>1, NamedOutside DEF NInv
<1>2. CASE Compile
  <2>1. stage' \in {"validate", "raised"} /\ UNCHANGED <<unaggregated, managers>>
    BY <1>2 DEF Compile, Raise
  <2> QED BY <2>1, NamedOutside DEF NInv
<1>3. CASE Done
  BY <1>3 DEF Done, vars, NInv, Named, AggregatesNamed, ComparesAll, Hashed, PrimaryKeys
<1>4. CASE UNCHANGED vars
  BY <1>4 DEF vars, NInv, Named, AggregatesNamed, ComparesAll, Hashed, PrimaryKeys
<1> QED BY <1>1, <1>2, <1>3, <1>4, NamedNewConfigManager, NamedAppendAggregates,
           NamedAppendQueryGroups, NamedAppendCalculatedFields, NamedAppendPrimaryKeys,
           NamedAppendComparisonFields, NamedKeepConfigManager DEF Next

(* The two queries of a configuration give the same names to their         *)
(* columns, none of them twice, for any tables, arguments and length of    *)
(* the names an engine takes: a derived column keeps its name or gets the  *)
(* number of its column (config_manager.py 844-852, 1192-1208).            *)
THEOREM DifferentNames == Spec => []NoNameTwice
<1>1. Init => NInv
  BY QInvInit, NamedInit DEF NInv
<1>2. Spec => []NInv
  BY <1>1, NInvInductive, PTL DEF Spec
<1> QED BY <1>2, NInvNames, PTL

-----------------------------------------------------------------------------
(* Every aggregate reads the column it is for.                             *)

Both(d) == {k \in KeysOf(d.source) : Has(d.target, k)}

\* The fields that aggregations may need.
OwnFields(d) == UNION {ToSet(Own(d, k, Place(d, k))) : k \in Both(d)}

\* A name that stands for a column: the column's own, or that of a field computed of it.
Stands(d, s, name, key) ==
  \/ \E i \in DOMAIN d[s].columns :
       d[s].columns[i].name = name /\ d[s].columns[i].key = key
  \/ key \in Both(d) /\ \E f \in ToSet(Own(d, key, Place(d, key))) : f.alias = name

\* In the table e such a name reads the column and nothing else.
ReadsOwn(d, s, e) ==
  \A name \in DOMAIN e : \A key : Stands(d, s, name, key) => e[name].reads = {key}

\* The columns aggregated for the j-th type, and the aggregate of one of them.
KeysOfType(d, a, j) == ToSet(AggregatedKeys(d, a.aggregates[j], a))
OfType(d, a, j, key) == AggOf(d, a.aggregates[j], a, key)

\* What is aggregated while some types wait: the count of rows, and each column to be
\* aggregated for each type that does not wait.
AggregatedSo(d, a, c, waiting) ==
  /\ c.calculated \subseteq OwnFields(d)
  /\ c.comparison = <<>> /\ c.primary = <<>>
  /\ c.aggregates # <<>>
  /\ \A i \in 2..Len(c.aggregates) :
       \E j \in DOMAIN a.aggregates :
         \E key \in KeysOfType(d, a, j) : c.aggregates[i] = OfType(d, a, j, key)
  /\ \A j \in 1..(Len(a.aggregates) - Len(waiting)) :
       \A key \in KeysOfType(d, a, j) :
         \E i \in 2..Len(c.aggregates) : c.aggregates[i] = OfType(d, a, j, key)

\* The types that wait are the last ones.
LastOnes(a, waiting) ==
  /\ Len(waiting) \in 0..Len(a.aggregates)
  /\ \A i \in 1..Len(waiting) :
       waiting[i] = a.aggregates[Len(a.aggregates) - Len(waiting) + i]

\* The invariant of a column validation, which has one configuration.
Aggregated ==
  ~Row =>
    /\ stage \in {"start", "begin", "aggregates", "built", "validate", "raised"}
    /\ stage = "begin" => pending = <<args.columns>>
    /\ stage \in {"start", "begin", "aggregates", "built"} => managers = <<>>
    /\ stage \in {"aggregates", "built"} => pending = <<>>
    /\ stage = "aggregates" =>
         LastOnes(args, unaggregated) /\ AggregatedSo(db, args, config, unaggregated)
    /\ stage = "built" =>
         Len(config.groups) = Len(args.groups) /\ AggregatedSo(db, args, config, <<>>)
    /\ stage = "validate" =>
         /\ Len(managers) = 1 /\ Len(managers[1].groups) = Len(args.groups)
         /\ AggregatedSo(db, args, managers[1], <<>>)

AInv == NInv /\ Aggregated

\* A column's own fields: one computed of it, maybe through another one.
LEMMA OwnAre ==
  ASSUME NEW d \in Databases, NEW key
  PROVE  ToSet(Own(d, key, Place(d, key)))
           = {OwnCalc(d, key, Place(d, key))}
               \cup (IF NeedsCast(d, key) THEN {OwnCast(d, key, Place(d, key))} ELSE {})
<1> DEFINE x == OwnCast(d, key, Place(d, key))
           y == OwnCalc(d, key, Place(d, key))
<1>1. Own(d, key, Place(d, key)) = IF NeedsCast(d, key) THEN <<x, y>> ELSE <<y>>
  BY DEF Own
<1> HIDE DEF x, y
<1>2. ToSet(<<x, y>>) = {x, y} /\ ToSet(<<y>>) = {y}
  BY DEF ToSet
<1> QED BY <1>1, <1>2 DEF x, y

\* The names of columns and their fields.
LEMMA NameStands ==
  ASSUME NEW d \in Databases, NEW s \in Sides, NEW key \in Both(d)
  PROVE  /\ Stands(d, s, ColumnOf(d[s], key).name, key)
         /\ NeedsCast(d, key) => Stands(d, s, CastName(d, key), key)
         /\ Stands(d, s, CalcName(d, key), key)
<1>1. Has(d[s], key)
  BY KeysAre, SidesAre DEF Both
<1>2. Stands(d, s, ColumnOf(d[s], key).name, key)
  BY <1>1, ColumnOfKey DEF Stands
<1>3. /\ NeedsCast(d, key) => OwnCast(d, key, Place(d, key)) \in ToSet(Own(d, key, Place(d, key)))
      /\ OwnCalc(d, key, Place(d, key)) \in ToSet(Own(d, key, Place(d, key)))
  BY OwnAre
<1> QED BY <1>2, <1>3 DEF Stands, CastName, CalcName

\* A field is computed of one name that stands for its column, and has such a name itself.
LEMMA OwnFieldStands ==
  ASSUME NEW d \in Databases, NEW s \in Sides, NEW key \in Both(d),
         NEW f \in ToSet(Own(d, key, Place(d, key)))
  PROVE  /\ \E b : f[s] = <<b>> /\ Stands(d, s, b, key)
         /\ Stands(d, s, f.alias, key)
<1> DEFINE n == Place(d, key)
           x == ColumnOf(d.source, key)
           y == ColumnOf(d.target, key)
           calc == PreAggCalc(d, key, x.type, y.type)
           first == [op |-> "cast", param |-> FirstCast(d, x.type, y.type)]
           name == CastName(d, key)
<1>1. Stands(d, s, f.alias, key)
  BY DEF Stands
<1>2. \A p, q, c, depth : /\ PreAggField(d, p, q, c, n, depth).source = <<p>>
                          /\ PreAggField(d, p, q, c, n, depth).target = <<q>>
  BY DEF PreAggField, Field
<1>3. \/ f = PreAggField(d, x.name, y.name, first, n, 0)
      \/ f = PreAggField(d, x.name, y.name, calc, n, 0)
      \/ NeedsCast(d, key) /\ f = PreAggField(d, name, name, calc, n, 1)
  <2>1. OwnCast(d, key, n) = PreAggField(d, x.name, y.name, first, n, 0)
    BY DEF OwnCast
  <2>2. NeedsCast(d, key) => OwnCalc(d, key, n) = PreAggField(d, name, name, calc, n, 1)
    BY DEF OwnCalc, CastName
  <2>3. ~NeedsCast(d, key) => OwnCalc(d, key, n) = PreAggField(d, x.name, y.name, calc, n, 0)
    BY DEF OwnCalc
  <2> HIDE DEF n, x, y, calc, first, name
  <2>4. f = OwnCalc(d, key, n) \/ (NeedsCast(d, key) /\ f = OwnCast(d, key, n))
    BY OwnAre DEF n
  <2> QED BY <2>1, <2>2, <2>3, <2>4
<1> HIDE DEF n, calc, first, name
<1>4. \/ f.source = <<x.name>> /\ f.target = <<y.name>>
      \/ NeedsCast(d, key) /\ f.source = <<name>> /\ f.target = <<name>>
  <2> HIDE DEF x, y
  <2> QED BY <1>2, <1>3
<1>5. /\ Stands(d, "source", x.name, key) /\ Stands(d, "target", y.name, key)
      /\ NeedsCast(d, key) => Stands(d, s, name, key)
  BY NameStands, SidesAre DEF name
<1> HIDE DEF x, y
<1>6. \E b : f[s] = <<b>> /\ Stands(d, s, b, key)
  <2>1. CASE s = "source"
    BY <1>4, <1>5, <2>1
  <2>2. CASE s = "target"
    BY <1>4, <1>5, <2>2
  <2> QED BY <2>1, <2>2, SidesAre
<1> QED BY <1>1, <1>6

\* A name stands for one column.
LEMMA StandsForOne ==
  ASSUME NEW d \in Databases, NEW s \in Sides, NEW name, NEW k, NEW l,
         Stands(d, s, name, k), Stands(d, s, name, l)
  PROVE  k = l
<1>1. \A key : key \in Both(d) => Has(d.source, key) /\ Has(d.target, key)
  BY KeysAre, SidesAre DEF Both
<1>2. \A key : \/ \E i \in DOMAIN d[s].columns :
                    d[s].columns[i].name = name /\ d[s].columns[i].key = key
               \/ key \in Both(d) /\ (name = CalcName(d, key)
                                      \/ (NeedsCast(d, key) /\ name = CastName(d, key)))
               \/ ~Stands(d, s, name, key)
  BY OwnAre DEF Stands, CalcName, CastName
<1>3. ASSUME NEW key, key \in Both(d), \/ name = CalcName(d, key)
                                       \/ NeedsCast(d, key) /\ name = CastName(d, key)
      PROVE  name \in Derived
  <2>1. Has(d.source, key) /\ Has(d.target, key) /\ Place(d, key) \in Nat
    BY <1>1, <1>3, PlaceIs
  <2> QED BY <1>3, <2>1, OwnIsGood DEF CalcName, CastName
<1>4. CASE name \in NamesOf(d[s])
  <2>1. name \notin Derived
    BY <1>4, NamesAreNotDerived
  <2>2. PICK i \in DOMAIN d[s].columns : d[s].columns[i].name = name /\ d[s].columns[i].key = k
    BY <1>2, <1>3, <2>1
  <2>3. PICK j \in DOMAIN d[s].columns : d[s].columns[j].name = name /\ d[s].columns[j].key = l
    BY <1>2, <1>3, <2>1
  <2>4. i = j
    BY <2>2, <2>3, TableOf
  <2> QED BY <2>2, <2>3, <2>4
<1>5. CASE name \notin NamesOf(d[s])
  <2>1. /\ k \in Both(d) /\ (name = CalcName(d, k) \/ (NeedsCast(d, k) /\ name = CastName(d, k)))
        /\ l \in Both(d) /\ (name = CalcName(d, l) \/ (NeedsCast(d, l) /\ name = CastName(d, l)))
    BY <1>2, <1>5 DEF NamesOf
  <2>2. Has(d.source, k) /\ Has(d.source, l)
    BY <1>1, <2>1
  <2> QED BY <2>1, <2>2, OwnNamesDiffer
<1> QED BY <1>4, <1>5

\* The columns of a table read themselves.
LEMMA TableReadsOwn ==
  ASSUME NEW d \in Databases, NEW s \in Sides
  PROVE  ReadsOwn(d, s, TableEnv(d[s]))
<1> SUFFICES ASSUME NEW name \in DOMAIN TableEnv(d[s]), NEW key, Stands(d, s, name, key)
             PROVE  TableEnv(d[s])[name].reads = {key}
  BY DEF ReadsOwn
<1>1. PICK i \in DOMAIN d[s].columns : d[s].columns[i].name = name
  BY DEF TableEnv
<1>2. Stands(d, s, name, d[s].columns[i].key)
  BY <1>1 DEF Stands
<1>3. key = d[s].columns[i].key
  BY <1>2, StandsForOne
<1>4. TableEnv(d[s])[name] = Column(key)
  BY <1>1, <1>3, TableEnvOf
<1>5. Column(key).reads = {key}
  BY DEF Column
<1> QED BY <1>4, <1>5

\* An operation on one expression, or a cast of it, reads what the expression does.
LEMMA OneArgument ==
  ASSUME NEW op, NEW param, NEW x
  PROVE  Apply(op, param, <<x>>).reads = x.reads /\ Cast(x, param).reads = x.reads
<1> DEFINE y == <<x>>
<1>1. DOMAIN y = {1} /\ y[1] = x
  OBVIOUS
<1> HIDE DEF y
<1>2. \A o : Apply(o, param, y).reads = x.reads
  <2>1. UNION {y[i].reads : i \in DOMAIN y} = x.reads
    BY <1>1
  <2> QED BY <2>1 DEF Apply
<1>3. Cast(x, param) \in {x, Apply("cast", param, y)}
  BY DEF Cast, y
<1> QED BY <1>2, <1>3 DEF y

\* The fields of one depth read what they are computed of.
LEMMA MutateReadsOwn ==
  ASSUME NEW d \in Databases, NEW s \in Sides, NEW e, ReadsOwn(d, s, e),
         NEW fields, fields \subseteq OwnFields(d), FieldsResolve(s, e, fields)
  PROVE  ReadsOwn(d, s, Mutate(d[s], s, e, fields))
<1> DEFINE new == {f.alias : f \in fields}
           named(a) == CHOOSE f \in fields : f.alias = a
           m == Mutate(d[s], s, e, fields)
<1>1. m = [a \in new \cup DOMAIN e |->
             IF a \in new THEN CalcExpr(d[s], e, named(a), named(a)[s]) ELSE e[a]]
  BY DEF Mutate
<1> SUFFICES ASSUME NEW name \in new \cup DOMAIN e, NEW key, Stands(d, s, name, key)
             PROVE  m[name].reads = {key}
  BY <1>1 DEF ReadsOwn
<1>2. CASE name \notin new
  BY <1>1, <1>2 DEF ReadsOwn
<1>3. CASE name \in new
  <2> DEFINE f == named(name)
  <2>1. f \in fields /\ f.alias = name
    BY <1>3
  <2>2. m[name] = CalcExpr(d[s], e, f, f[s])
    BY <1>1, <1>3
  <2> HIDE DEF m, f, named
  <2>3. PICK k \in Both(d) : f \in ToSet(Own(d, k, Place(d, k)))
    BY <2>1 DEF OwnFields
  <2>4. PICK b : f[s] = <<b>> /\ Stands(d, s, b, k)
    BY <2>3, OwnFieldStands
  <2>5. k = key
    BY <2>1, <2>3, OwnFieldStands, StandsForOne
  <2>6. b \in DOMAIN e
    BY <2>1, <2>4 DEF FieldsResolve, ToSet
  <2>7. e[b].reads = {key}
    BY <2>4, <2>5, <2>6 DEF ReadsOwn
  <2> DEFINE x == IF f.op = "concat" THEN Cast(e[b], "string") ELSE e[b]
             o == CalcOp(d[s], f, <<b>>)
  <2>8. CalcExpr(d[s], e, f, <<b>>) = Apply(o, f.param, <<x>>)
    <3>1. [i \in DOMAIN <<b>> |-> IF f.op = "concat" THEN Cast(e[<<b>>[i]], "string")
                                                     ELSE e[<<b>>[i]]] = <<x>>
      OBVIOUS
    <3> QED BY <3>1 DEF CalcExpr
  <2>9. x.reads = {key}
    BY <2>7, OneArgument
  <2> HIDE DEF x, o
  <2> QED BY <2>2, <2>4, <2>8, <2>9, OneArgument
<1> QED BY <1>2, <1>3

\* So do all of them.
LEMMA FieldsReadOwn ==
  ASSUME NEW d \in Databases, NEW s \in Sides, NEW fields, fields \subseteq OwnFields(d)
  PROVE  ReadsOwn(d, s, CalculatedEnv(d[s], s, fields))
<1>1. \A f \in fields : f.depth \in Depths
  <2> SUFFICES ASSUME NEW f \in fields PROVE f.depth \in Depths
    OBVIOUS
  <2>1. PICK k \in Both(d) : f \in ToSet(Own(d, k, Place(d, k)))
    BY DEF OwnFields
  <2>2. Has(d.source, k) /\ Has(d.target, k)
    BY KeysAre, SidesAre DEF Both
  <2>3. f \in FieldSet(d)
    BY <2>1, <2>2, PlaceIs, OwnIsGood
  <2> QED BY <2>3 DEF FieldSet, GoodField
<1> DEFINE N == DepthLimit(fields)
<1>2. PICK e : EnvSteps(e, d[s], s, fields)
  BY <1>1, EnvOf
<1>3. N \in Nat
  BY <1>1, DepthIsBounded
<1> HIDE DEF N
<1> DEFINE Good == {n \in 0..(N + 1) : ReadsOwn(d, s, e[n])}
<1>4. 0 \in Good
  BY <1>2, <1>3, TableReadsOwn DEF EnvSteps
<1>5. ASSUME NEW n \in 1..(N + 1), n - 1 \in Good PROVE n \in Good
  <2>1. n - 1 \in 0..N /\ (n - 1) + 1 = n /\ n \in 0..(N + 1)
    BY <1>3
  <2>2. e[n] = AfterDepth(d[s], s, e[n - 1], AtDepth(fields, n - 1))
    BY <1>2, <2>1 DEF EnvSteps, N
  <2>3. ReadsOwn(d, s, e[n - 1])
    BY <1>5
  <2> DEFINE at == AtDepth(fields, n - 1)
  <2>4. at \subseteq OwnFields(d)
    BY DEF AtDepth
  <2>5. ReadsOwn(d, s, <<>>)
    BY NoTable DEF ReadsOwn
  <2> HIDE DEF at
  <2>6. ReadsOwn(d, s, AfterDepth(d[s], s, e[n - 1], at))
    <3>1. CASE DOMAIN e[n - 1] # {} /\ FieldsResolve(s, e[n - 1], at)
      <4>1. AfterDepth(d[s], s, e[n - 1], at) = Mutate(d[s], s, e[n - 1], at)
        BY <3>1 DEF AfterDepth
      <4> QED BY <2>3, <2>4, <3>1, <4>1, MutateReadsOwn
    <3>2. CASE ~(DOMAIN e[n - 1] # {} /\ FieldsResolve(s, e[n - 1], at))
      BY <2>5, <3>2 DEF AfterDepth
    <3> QED BY <3>1, <3>2
  <2> QED BY <2>1, <2>2, <2>6 DEF at
<1>6. N + 1 \in Good
  <2>1. N + 1 \in Nat /\ N + 1 \in 0..(N + 1)
    BY <1>3
  <2> HIDE DEF Good
  <2> QED BY <1>4, <1>5, <2>1, UpTo
<1> QED BY <1>2, <1>6 DEF EnvSteps, N

\* An aggregate is of a name that stands for its column.
LEMMA AggregateStands ==
  ASSUME NEW d \in Databases, NEW s \in Sides, NEW agg, NEW a, NEW key \in Both(d)
  PROVE  LET name == AggOf(d, agg, a, key).ref[s] IN Stands(d, s, name, key) /\ name # <<>>
<1> DEFINE x == ColumnOf(d.source, key)
           y == ColumnOf(d.target, key)
           n == Place(d, key)
           pre == PreOf(d, agg, a, key)
           cast == AggregateCast(d, key, agg, pre)
           Agg(p, q, z) == [type |-> agg.type,
                            ref |-> Reference(p, q, Prefix(d, agg.type, z, n), cast)]
           g == AggOf(d, agg, a, key)
           name == g.ref[s]
<1>1. pre # <<>> => Last(pre).alias = CalcName(d, key)
  BY PreAggIs DEF PreOf, CalcName
<1>2. g = IF pre = <<>> THEN Agg(x.name, y.name, key)
          ELSE Agg(Last(pre).alias, Last(pre).alias, Last(pre).alias)
  BY DEF AggOf, AggregateOf
<1>3. \A p, q, z : Agg(p, q, z).ref.source = p /\ Agg(p, q, z).ref.target = q
  BY DEF Reference
<1>4. Has(d.source, key) /\ Has(d.target, key) /\ Has(d[s], key)
  BY KeysAre, SidesAre DEF Both
<1> HIDE DEF Agg, pre, cast, n, g
<1>5. CASE pre = <<>>
  <2>1. g.ref.source = x.name /\ g.ref.target = y.name
    BY <1>2, <1>3, <1>5
  <2>2. name = ColumnOf(d[s], key).name
    BY <2>1, SidesAre
  <2>3. ColumnOf(d[s], key).name # <<>>
    BY <1>4, ColumnOfKey DEF TableColumn, ColumnName
  <2>4. Stands(d, s, ColumnOf(d[s], key).name, key)
    BY NameStands
  <2> HIDE DEF name
  <2> QED BY <2>2, <2>3, <2>4 DEF name, g
<1>6. CASE pre # <<>>
  <2>1. g.ref.source = CalcName(d, key) /\ g.ref.target = CalcName(d, key)
    BY <1>1, <1>2, <1>3, <1>6
  <2>2. name = CalcName(d, key)
    BY <2>1, SidesAre
  <2>3. CalcName(d, key) # <<>>
    BY <1>4, NamesBegin
  <2>4. Stands(d, s, CalcName(d, key), key)
    BY NameStands
  <2> HIDE DEF name
  <2> QED BY <2>2, <2>3, <2>4 DEF name, g
<1> QED BY <1>5, <1>6

\* It reads that column.
LEMMA AggregateReads ==
  ASSUME NEW d \in Databases, NEW s \in Sides, NEW agg, NEW a, NEW key \in Both(d),
         NEW e, ReadsOwn(d, s, e), AggOf(d, agg, a, key).ref[s] \in DOMAIN e
  PROVE  AggregateExpr(e, AggOf(d, agg, a, key), AggOf(d, agg, a, key).ref[s]).reads = {key}
<1> DEFINE g == AggOf(d, agg, a, key)
           name == g.ref[s]
           z == Apply(g.type, "none", <<e[name]>>)
<1>1. Stands(d, s, name, key) /\ name # <<>>
  BY AggregateStands
<1> HIDE DEF g
<1>2. e[name].reads = {key}
  BY <1>1 DEF ReadsOwn, g
<1>3. AggregateExpr(e, g, name) = Cast(z, g.ref.cast)
  BY <1>1 DEF AggregateExpr
<1>4. z.reads = {key}
  BY <1>2, OneArgument
<1> HIDE DEF z
<1>5. Cast(z, g.ref.cast).reads = {key}
  BY <1>4, OneArgument
<1> QED BY <1>3, <1>5 DEF g

\* The fields an aggregation adds are those of its columns.
LEMMA CalculatedIsOwn ==
  ASSUME NEW d \in Databases, NEW agg, NEW a, NEW c \in ConfigSet(d), c.calculated \subseteq OwnFields(d)
  PROVE  WithAggregates(d, c, agg, a).calculated \subseteq OwnFields(d)
<1> DEFINE keys == AggregatedKeys(d, agg, a)
           n == Len(keys)
<1>1. PICK v : CalculatedSteps(v, d, agg, a, keys, c.calculated)
               /\ WithAggregates(d, c, agg, a).calculated = v[n]
  BY AggregatesOf
<1>2. /\ keys \in Seq(ColumnName)
      /\ \A key \in ToSet(keys) : Has(d.source, key) /\ Has(d.target, key)
  BY AggregatedAre
<1> HIDE DEF keys
<1>3. n \in Nat /\ \A i \in 1..n : keys[i] \in Both(d)
  <2>1. n \in Nat /\ DOMAIN keys = 1..n
    BY <1>2
  <2>2. ASSUME NEW i \in 1..n PROVE keys[i] \in Both(d)
    <3>1. Has(d.source, keys[i]) /\ Has(d.target, keys[i])
      BY <1>2, <2>1 DEF ToSet
    <3> QED BY <3>1, KeysAre, SidesAre DEF Both
  <2> QED BY <2>1, <2>2
<1> HIDE DEF n
<1> DEFINE Good == {i \in 0..n : v[i] \subseteq OwnFields(d)}
<1>4. 0 \in Good
  BY <1>1, <1>3 DEF CalculatedSteps
<1>5. ASSUME NEW i \in 1..n, i - 1 \in Good PROVE i \in Good
  <2>1. v[i] = AppendNew(v[i - 1], PreOf(d, agg, a, keys[i]))
    BY <1>1 DEF CalculatedSteps, n
  <2>2. ToSet(PreOf(d, agg, a, keys[i])) \subseteq OwnFields(d)
    <3>1. PreOf(d, agg, a, keys[i]) \in {<<>>, Own(d, keys[i], Place(d, keys[i]))}
      BY PreAggIs DEF PreOf
    <3>2. ToSet(Own(d, keys[i], Place(d, keys[i]))) \subseteq OwnFields(d)
      BY <1>3 DEF OwnFields
    <3> QED BY <3>1, <3>2, EmptyList
  <2>3. v[i - 1] \subseteq OwnFields(d) /\ i \in 0..n
    BY <1>3, <1>5
  <2> QED BY <2>1, <2>2, <2>3 DEF AppendNew
<1>6. n \in Good
  <2>1. n \in 0..n
    BY <1>3
  <2> HIDE DEF Good
  <2> QED BY <1>3, <1>4, <1>5, <2>1, UpTo
<1> QED BY <1>1, <1>6 DEF n

\* What an aggregation adds to the aggregates.
LEMMA AggregatesAdd ==
  ASSUME NEW d \in Databases, NEW agg, agg.type \in AggregateTypes, NEW a, NEW c \in ConfigSet(d)
  PROVE  LET keys == AggregatedKeys(d, agg, a)
             old == c.aggregates
             new == WithAggregates(d, c, agg, a).aggregates
         IN  /\ new \in Seq(GoodAggregates(d)) /\ Len(new) >= Len(old)
             /\ \A i \in 1..Len(old) : new[i] = old[i]
             /\ \A i \in 1..Len(new) :
                  i > Len(old) => \E key \in ToSet(keys) : new[i] = AggOf(d, agg, a, key)
             /\ \A key \in ToSet(keys) :
                  \E i \in 1..Len(new) : i > Len(old) /\ new[i] = AggOf(d, agg, a, key)
<1> DEFINE keys == AggregatedKeys(d, agg, a)
           old == c.aggregates
           more == [i \in DOMAIN keys |-> AggOf(d, agg, a, keys[i])]
           new == WithAggregates(d, c, agg, a).aggregates
           m == Len(old)
           n == Len(keys)
<1>1. new = old \o more
  BY AggregatesOf
<1>2. /\ keys \in Seq(ColumnName)
      /\ \A key \in ToSet(keys) : Has(d.source, key) /\ Has(d.target, key)
  BY AggregatedAre
<1> HIDE DEF keys, new
<1>3. n \in Nat /\ DOMAIN keys = 1..n
  BY <1>2
<1>4. more \in Seq(GoodAggregates(d)) /\ Len(more) = n
  <2>1. ASSUME NEW i \in 1..n PROVE AggOf(d, agg, a, keys[i]) \in GoodAggregates(d)
    <3>1. Has(d.source, keys[i]) /\ Has(d.target, keys[i])
      BY <1>2, <1>3 DEF ToSet
    <3> QED BY <3>1, AggOfIsGood
  <2> QED BY <1>3, <2>1
<1>5. \A i \in 1..n : more[i] = AggOf(d, agg, a, keys[i])
  BY <1>3
<1> HIDE DEF more, n
<1>6. old \in Seq(GoodAggregates(d)) /\ m \in Nat
  BY DEF ConfigSet
<1> HIDE DEF old
<1>7. /\ new \in Seq(GoodAggregates(d)) /\ Len(new) = m + n
      /\ \A i \in 1..(m + n) : new[i] = IF i <= m THEN old[i] ELSE more[i - m]
  BY <1>1, <1>3, <1>4, <1>6
<1> HIDE DEF m
<1>8. \A i \in 1..m : new[i] = old[i] /\ i \in 1..(m + n)
  BY <1>3, <1>6, <1>7
<1>9. ASSUME NEW i \in 1..(m + n), i > m PROVE \E key \in ToSet(keys) : new[i] = AggOf(d, agg, a, key)
  <2>1. i - m \in 1..n /\ ~(i <= m)
    BY <1>3, <1>6, <1>9
  <2>2. new[i] = more[i - m]
    BY <1>7, <2>1
  <2>3. keys[i - m] \in ToSet(keys)
    BY <1>3, <2>1 DEF ToSet
  <2> QED BY <1>5, <2>1, <2>2, <2>3
<1>10. ASSUME NEW key \in ToSet(keys)
       PROVE  \E i \in 1..(m + n) : i > m /\ new[i] = AggOf(d, agg, a, key)
  <2>1. PICK j \in 1..n : keys[j] = key
    BY <1>3 DEF ToSet
  <2>2. m + j \in 1..(m + n) /\ m + j > m /\ ~(m + j <= m) /\ (m + j) - m = j
    BY <1>3, <1>6
  <2>3. new[m + j] = more[j]
    BY <1>7, <2>2
  <2> QED BY <1>5, <2>1, <2>2, <2>3
<1>11. Len(new) >= m
  BY <1>3, <1>6, <1>7
<1> QED BY <1>7, <1>8, <1>9, <1>10, <1>11 DEF keys, new, old, m

\* The next type of aggregation after those done.
LEMMA OneAggregation ==
  ASSUME NEW d \in Databases, NEW a \in Arguments, NEW c \in ConfigSet(d),
         NEW waiting \in Seq(Aggregation), waiting # <<>>,
         LastOnes(a, waiting), AggregatedSo(d, a, c, waiting)
  PROVE  /\ AggregatedSo(d, a, WithAggregates(d, c, Head(waiting), a), Tail(waiting))
         /\ LastOnes(a, Tail(waiting))
<1> DEFINE agg == Head(waiting)
           rest == Tail(waiting)
           w == WithAggregates(d, c, agg, a)
           n == Len(a.aggregates)
           m == Len(waiting)
           k == n - m + 1
<1>1. a.aggregates \in Seq(Aggregation)
  BY ArgumentsAre
<1>2. /\ n \in Nat /\ DOMAIN a.aggregates = 1..n /\ m \in 1..n /\ k \in 1..n
      /\ agg = waiting[1] /\ agg \in Aggregation /\ Len(rest) = m - 1
      /\ \A i \in 1..(m - 1) : rest[i] = waiting[i + 1]
  <2>1. m \in Nat /\ m # 0 /\ agg = waiting[1] /\ agg \in Aggregation /\ Len(rest) = m - 1
        /\ \A i \in 1..(m - 1) : rest[i] = waiting[i + 1]
    OBVIOUS
  <2>2. n \in Nat /\ DOMAIN a.aggregates = 1..n /\ m \in 0..n
    BY <1>1 DEF LastOnes
  <2> HIDE DEF n, m, agg, rest
  <2>3. m \in 1..n /\ k \in 1..n
    BY <2>1, <2>2
  <2> QED BY <2>1, <2>2, <2>3
<1>3. a.aggregates[k] = agg
  <2>1. 1 \in 1..m
    BY <1>2
  <2>2. waiting[1] = a.aggregates[n - m + 1]
    BY <2>1 DEF LastOnes
  <2> QED BY <1>2, <2>2
<1>4. LastOnes(a, rest)
  <2>1. \A i \in 1..m : waiting[i] = a.aggregates[n - m + i]
    BY DEF LastOnes
  <2> HIDE DEF n, m, agg, rest
  <2>2. ASSUME NEW i \in 1..(m - 1) PROVE rest[i] = a.aggregates[n - (m - 1) + i]
    <3>1. i + 1 \in 1..m /\ n - m + (i + 1) = n - (m - 1) + i
      BY <1>2
    <3> QED BY <1>2, <2>1, <3>1
  <2>3. m - 1 \in 0..n
    BY <1>2
  <2> QED BY <1>2, <2>2, <2>3 DEF LastOnes, n
<1>5. agg.type \in AggregateTypes
  BY <1>2 DEF Aggregation
<1>6. w.calculated \subseteq OwnFields(d)
  BY CalculatedIsOwn DEF AggregatedSo
<1>7. w.comparison = <<>> /\ w.primary = <<>>
  <2>1. PICK x, y : w = Changed(c, x, y)
    BY AggregatesChange
  <2> HIDE DEF w
  <2> QED BY <2>1 DEF Changed, ConfigSet, AggregatedSo
<1> DEFINE old == c.aggregates
           new == w.aggregates
           o == Len(old)
           N == Len(new)
<1>8. /\ new \in Seq(GoodAggregates(d)) /\ N >= o
      /\ \A i \in 1..o : new[i] = old[i]
      /\ \A i \in 1..N : i > o => \E key \in KeysOfType(d, a, k) : new[i] = OfType(d, a, k, key)
      /\ \A key \in KeysOfType(d, a, k) : \E i \in 1..N : i > o /\ new[i] = OfType(d, a, k, key)
  BY <1>3, <1>5, AggregatesAdd DEF KeysOfType, OfType
<1>9. o \in Nat \ {0} /\ N \in Nat
  <2>1. old \in Seq(GoodAggregates(d)) /\ old # <<>>
    BY DEF ConfigSet, AggregatedSo
  <2> HIDE DEF old, new
  <2> QED BY <1>8, <2>1
<1>10. new # <<>>
  <2> HIDE DEF new
  <2> QED BY <1>8, <1>9
<1>11. \A i \in 2..o : \E j \in 1..n : \E key \in KeysOfType(d, a, j) : old[i] = OfType(d, a, j, key)
  BY <1>2 DEF AggregatedSo
<1>12. \A j \in 1..(n - m) : \A key \in KeysOfType(d, a, j) :
         \E i \in 2..o : old[i] = OfType(d, a, j, key)
  BY DEF AggregatedSo
<1> HIDE DEF old, new, o, N, k, n, m, agg, rest, w
<1>13. ASSUME NEW i \in 2..N
       PROVE  \E j \in 1..n : \E key \in KeysOfType(d, a, j) : new[i] = OfType(d, a, j, key)
  <2>1. CASE i <= o
    <3>1. i \in 2..o /\ i \in 1..o
      BY <1>9, <2>1
    <3> QED BY <1>8, <1>11, <3>1
  <2>2. CASE ~(i <= o)
    <3>1. i \in 1..N /\ i > o
      BY <1>9, <2>2
    <3> QED BY <1>2, <1>8, <3>1
  <2> QED BY <2>1, <2>2
<1>14. ASSUME NEW j \in 1..(n - (m - 1)), NEW key \in KeysOfType(d, a, j)
       PROVE  \E i \in 2..N : new[i] = OfType(d, a, j, key)
  <2>1. CASE j = k
    <3>1. PICK i \in 1..N : i > o /\ new[i] = OfType(d, a, k, key)
      BY <1>8, <1>14, <2>1
    <3>2. i \in 2..N
      BY <1>9, <3>1
    <3> QED BY <2>1, <3>1, <3>2
  <2>2. CASE j # k
    <3>1. j \in 1..(n - m)
      BY <1>2, <2>2 DEF k
    <3>2. PICK i \in 2..o : old[i] = OfType(d, a, j, key)
      BY <1>12, <1>14, <3>1
    <3>3. i \in 2..N /\ i \in 1..o
      BY <1>8, <1>9
    <3> QED BY <1>8, <3>2, <3>3
  <2> QED BY <2>1, <2>2
<1>15. AggregatedSo(d, a, w, rest)
  <2>1. \A i \in 2..Len(w.aggregates) : \E j \in DOMAIN a.aggregates :
          \E key \in KeysOfType(d, a, j) : w.aggregates[i] = OfType(d, a, j, key)
    BY <1>2, <1>13 DEF new, N
  <2>2. \A j \in 1..(Len(a.aggregates) - Len(rest)) : \A key \in KeysOfType(d, a, j) :
          \E i \in 2..Len(w.aggregates) : w.aggregates[i] = OfType(d, a, j, key)
    BY <1>2, <1>14 DEF new, N, n
  <2> QED BY <1>6, <1>7, <1>10, <2>1, <2>2 DEF AggregatedSo, new
<1> QED BY <1>4, <1>15 DEF w, agg, rest

\* A column validation begins with the count of rows.
LEMMA CountAlone ==
  ASSUME NEW d, NEW a, NEW c, c.calculated = {}, c.comparison = <<>>, c.primary = <<>>,
         c.aggregates = <<CountOfRows>>, a.aggregates \in Seq(Aggregation)
  PROVE  AggregatedSo(d, a, c, a.aggregates) /\ LastOnes(a, a.aggregates)
<1> DEFINE n == Len(a.aggregates)
<1>1. n \in Nat /\ n \in 0..n /\ n - n = 0
  OBVIOUS
<1> HIDE DEF n
<1>2. 1..0 = {} /\ 2..1 = {} /\ Len(<<CountOfRows>>) = 1 /\ <<CountOfRows>> # <<>>
  OBVIOUS
<1>3. \A i \in 1..n : n - n + i = i
  BY <1>1
<1>4. LastOnes(a, a.aggregates)
  BY <1>1, <1>3 DEF LastOnes, n
<1>5. Len(a.aggregates) - Len(a.aggregates) = 0
  BY <1>1 DEF n
<1> QED BY <1>2, <1>4, <1>5 DEF AggregatedSo

\* What an aggregation list has come to does not depend on what else the configuration has.
LEMMA SameAggregates ==
  ASSUME NEW d, NEW a, NEW b, NEW c, NEW waiting, AggregatedSo(d, a, b, waiting),
         c.calculated = b.calculated, c.comparison = b.comparison, c.primary = b.primary,
         c.aggregates = b.aggregates
  PROVE  AggregatedSo(d, a, c, waiting)
BY DEF AggregatedSo

\* Nothing is aggregated at first.
LEMMA AggregatedInit == Init => Aggregated
<1> SUFFICES ASSUME Init PROVE Aggregated
  OBVIOUS
<1>1. stage = "start" /\ managers = <<>>
  BY DEF Init
<1> QED BY <1>1 DEF Aggregated

\* An exception ends it.
LEMMA AggregatedRaise == Aggregated /\ Raise => Aggregated'
<1> SUFFICES ASSUME Aggregated, Raise PROVE Aggregated'
  OBVIOUS
<1>1. stage' = "raised" /\ args' = args
  BY DEF Raise
<1> QED BY <1>1 DEF Aggregated, Row

\* A row validation aggregates nothing.
LEMMA AggregatedRow ==
  ASSUME Row, [Next]_vars
  PROVE  Aggregated'
<1>1. args' = args
  BY DEF Next, vars, PreBuild, NewConfigManager, AppendAggregates, AppendQueryGroups,
         AppendCalculatedFields, AppendPrimaryKeys, AppendComparisonFields, KeepConfigManager,
         Compile, Done, Raise, Extend
<1> QED BY <1>1 DEF Aggregated, Row

\* A column validation is not split.
LEMMA AggregatedPreBuild == Aggregated /\ ~Row /\ PreBuild => Aggregated'
<1> SUFFICES ASSUME Aggregated, ~Row, PreBuild PROVE Aggregated'
  OBVIOUS
<1>1. /\ stage = "start" /\ stage' = "begin" /\ pending' = <<args.columns>>
      /\ UNCHANGED <<db, args, config, unaggregated, managers, queries>>
  BY DEF PreBuild
<1>2. managers' = <<>>
  BY <1>1 DEF Aggregated
<1> QED BY <1>1, <1>2 DEF Aggregated, Row

\* All aggregations are to come, and the count of rows is there.
LEMMA AggregatedNewConfigManager == AInv /\ ~Row /\ NewConfigManager => Aggregated'
<1> SUFFICES ASSUME AInv, ~Row, NewConfigManager PROVE Aggregated'
  OBVIOUS
<1> DEFINE e == EmptyConfig
           y == <<CountOfRows>>
<1>1. /\ config' = [e EXCEPT !.columns = Head(pending), !.aggregates = y]
      /\ unaggregated' = args.aggregates /\ stage' = "aggregates" /\ stage = "begin"
      /\ pending' = Tail(pending) /\ UNCHANGED <<db, args, managers, queries>>
  BY DEF NewConfigManager
<1>2. /\ e \in ConfigSet(db) /\ e.comparison = <<>> /\ e.primary = <<>> /\ e.calculated = {}
  BY EmptyIsGood DEF EmptyConfig
<1> HIDE DEF e, y
<1>3. /\ config'.calculated = {} /\ config'.comparison = <<>> /\ config'.primary = <<>>
      /\ config'.aggregates = y
  BY <1>1, <1>2 DEF ConfigSet
<1>4. managers = <<>> /\ pending = <<args.columns>>
  BY <1>1 DEF AInv, Aggregated
<1>5. Tail(pending) = <<>>
  <2>1. \A x : Tail(<<x>>) = <<>>
    OBVIOUS
  <2> QED BY <1>4, <2>1
<1>6. args.aggregates \in Seq(Aggregation)
  BY ArgumentsAre DEF AInv, NInv, QInv, Given
<1>7. AggregatedSo(db, args, config', args.aggregates) /\ LastOnes(args, args.aggregates)
  BY <1>3, <1>6, CountAlone DEF y
<1> QED BY <1>1, <1>4, <1>5, <1>7 DEF Aggregated, Row

\* One more type of aggregation is done.
LEMMA AggregatedAppendAggregates == AInv /\ ~Row /\ AppendAggregates => Aggregated'
<1> SUFFICES ASSUME AInv, ~Row, AppendAggregates PROVE Aggregated'
  OBVIOUS
<1>1. CASE Raise
  BY <1>1, AggregatedRaise DEF AInv
<1>2. CASE ~Raise
  <2>1. /\ config' = WithAggregates(db, config, Head(unaggregated), args)
        /\ unaggregated' = Tail(unaggregated)
        /\ UNCHANGED <<db, args, stage, pending, managers, queries>>
        /\ stage = "aggregates" /\ unaggregated # <<>>
    BY <1>2 DEF AppendAggregates
  <2>2. /\ db \in Databases /\ args \in Arguments /\ config \in ConfigSet(db)
        /\ unaggregated \in Seq(Aggregation)
    BY DEF AInv, NInv, QInv, Given, Built, Waiting, GoodConfig
  <2>3. /\ LastOnes(args, unaggregated) /\ AggregatedSo(db, args, config, unaggregated)
        /\ pending = <<>> /\ managers = <<>>
    BY <2>1 DEF AInv, Aggregated
  <2>4. LastOnes(args, unaggregated') /\ AggregatedSo(db, args, config', unaggregated')
    BY <2>1, <2>2, <2>3, OneAggregation
  <2> QED BY <2>1, <2>3, <2>4 DEF Aggregated, Row
<1> QED BY <1>1, <1>2

\* The groups are those asked for.
LEMMA AggregatedAppendQueryGroups == AInv /\ ~Row /\ AppendQueryGroups => Aggregated'
<1> SUFFICES ASSUME AInv, ~Row, AppendQueryGroups PROVE Aggregated'
  OBVIOUS
<1>1. CASE MissingColumn(db, args.groups)
  BY <1>1, AggregatedRaise DEF AInv, AppendQueryGroups
<1>2. CASE ~MissingColumn(db, args.groups)
  <2> DEFINE more == ColumnConfigs(db, args.groups)
  <2>1. /\ config' = [config EXCEPT !.groups = config.groups \o more]
        /\ stage' = "built" /\ stage = "aggregates" /\ unaggregated = <<>>
        /\ UNCHANGED <<db, args, pending, unaggregated, managers, queries>>
    BY <1>2 DEF AppendQueryGroups, Extend
  <2>2. config \in ConfigSet(db) /\ config.groups = <<>>
    BY <2>1 DEF AInv, NInv, QInv, Built, GoodConfig
  <2>3. args.groups \in Seq(Seq(STRING))
    BY ArgumentsAre DEF AInv, NInv, QInv, Given
  <2>4. /\ AggregatedSo(db, args, config, <<>>) /\ pending = <<>> /\ managers = <<>>
    BY <2>1 DEF AInv, Aggregated
  <2>5. more = [i \in 1..Len(args.groups) |-> more[i]] /\ Len(args.groups) \in Nat
    BY <2>3 DEF ColumnConfigs
  <2> HIDE DEF more
  <2>6. <<>> \o more = more /\ Len(more) = Len(args.groups)
    <3> DEFINE S == {more[i] : i \in 1..Len(args.groups)}
               z == [i \in 1..Len(args.groups) |-> more[i]]
    <3>1. z \in Seq(S) /\ Len(z) = Len(args.groups)
      BY <2>5
    <3> HIDE DEF S, z
    <3>2. <<>> \o z = z
      BY <3>1
    <3> QED BY <2>5, <3>1, <3>2 DEF z
  <2>7. /\ config'.groups = more /\ config'.calculated = config.calculated
        /\ config'.comparison = config.comparison /\ config'.primary = config.primary
        /\ config'.aggregates = config.aggregates
    BY <2>1, <2>2, <2>6 DEF ConfigSet
  <2>8. AggregatedSo(db, args, config', <<>>) /\ Len(config'.groups) = Len(args.groups)
    BY <2>4, <2>6, <2>7, SameAggregates
  <2> QED BY <2>1, <2>4, <2>8 DEF Aggregated, Row
<1> QED BY <1>1, <1>2

\* The one configuration is kept with all its aggregates.
LEMMA AggregatedKeepConfigManager == AInv /\ ~Row /\ KeepConfigManager => Aggregated'
<1> SUFFICES ASSUME AInv, ~Row, KeepConfigManager PROVE Aggregated'
  OBVIOUS
<1>1. /\ managers' = Append(managers, config) /\ stage = "built"
      /\ stage' = (IF pending = <<>> THEN "validate" ELSE "begin")
      /\ UNCHANGED <<db, args, pending, config, unaggregated, queries>>
  BY DEF KeepConfigManager
<1>2. /\ managers = <<>> /\ pending = <<>> /\ Len(config.groups) = Len(args.groups)
      /\ AggregatedSo(db, args, config, <<>>)
  BY <1>1 DEF AInv, Aggregated
<1>3. managers' = <<config>>
  BY <1>1, <1>2
<1>4. Len(managers') = 1 /\ managers'[1] = config
  BY <1>3
<1> QED BY <1>1, <1>2, <1>4 DEF Aggregated, Row

\* A query changes nothing in the configuration.
LEMMA AggregatedCompile == AInv /\ ~Row /\ Compile => Aggregated'
<1> SUFFICES ASSUME AInv, ~Row, Compile PROVE Aggregated'
  OBVIOUS
<1>1. CASE Raise
  BY <1>1, AggregatedRaise DEF AInv
<1>2. CASE ~Raise
  <2>1. stage = "validate" /\ UNCHANGED <<db, args, stage, pending, config, unaggregated, managers>>
    BY <1>2 DEF Compile
  <2> QED BY <2>1 DEF AInv, Aggregated, Row
<1> QED BY <1>1, <1>2

\* Every step keeps the invariant of aggregates.
LEMMA AInvInductive == AInv /\ [Next]_vars => AInv'
<1> SUFFICES ASSUME AInv, [Next]_vars PROVE Aggregated'
  BY NInvInductive DEF AInv
<1>1. CASE Row
  BY <1>1, AggregatedRow
<1>2. CASE ~Row
  <2>1. stage \notin {"calculated fields", "primary keys", "comparison fields"}
    BY <1>2 DEF AInv, Aggregated
  <2>2. ~AppendCalculatedFields /\ ~AppendPrimaryKeys /\ ~AppendComparisonFields
    BY <2>1 DEF AppendCalculatedFields, AppendPrimaryKeys, AppendComparisonFields
  <2>3. CASE UNCHANGED vars \/ Done
    <3>1. UNCHANGED <<db, args, stage, pending, config, unaggregated, managers>>
      BY <2>3 DEF Done, vars
    <3> QED BY <3>1 DEF AInv, Aggregated, Row
  <2> QED BY <1>2, <2>2, <2>3, AggregatedPreBuild, AggregatedNewConfigManager,
             AggregatedAppendAggregates, AggregatedAppendQueryGroups,
             AggregatedKeepConfigManager, AggregatedCompile DEF AInv, Next
<1> QED BY <1>1, <1>2

\* Where the elements of the second of two lists are.
LEMMA SecondList ==
  ASSUME NEW S, NEW s \in Seq(S), NEW t \in Seq(S)
  PROVE  /\ s \o t \in Seq(S) /\ Len(s \o t) = Len(s) + Len(t)
         /\ \A i \in 1..Len(t) : (s \o t)[Len(s) + i] = t[i]
<1>1. s \o t \in Seq(S) /\ Len(s \o t) = Len(s) + Len(t)
  OBVIOUS
<1>2. \A i \in 1..Len(t) : (s \o t)[Len(s) + i] = t[i]
  OBVIOUS
<1> QED BY <1>1, <1>2

\* The columns of a query after its groups and the count of rows are the other
\* aggregates of the configuration, in its order.
AggregatesFollow(q, e, c, s) ==
  LET g == Len(c.groups)
      n == Len(c.aggregates)
      r == SubSeq(q, g + 2, Len(q))
  IN  /\ n \in Nat \ {0} /\ g \in Nat
      /\ Len(q) = g + n /\ DOMAIN q = 1..(g + n)
      /\ Len(r) = n - 1 /\ DOMAIN r = 1..(n - 1)
      /\ \A i \in 1..(n - 1) :
           /\ r[i] = q[g + 1 + i] /\ r[i].alias = c.aggregates[i + 1].ref.alias
           /\ r[i].expr = AggregateExpr(e, c.aggregates[i + 1], c.aggregates[i + 1].ref[s])

\* So it is in the query of a column validation.
LEMMA QueryAggregates ==
  ASSUME NEW d, NEW c \in ConfigSet(d), c.comparison = <<>>, c.primary = <<>>,
         c.aggregates # <<>>, NEW side, NEW s
  PROVE  AggregatesFollow(Query(side, s, c), CalculatedEnv(side, s, c.calculated), c, s)
<1> DEFINE env == CalculatedEnv(side, s, c.calculated)
           C == [i \in DOMAIN c.comparison |->
                  Output(c.comparison[i].alias, Cast(env[c.comparison[i][s]], c.comparison[i].cast))]
           P == [i \in DOMAIN c.primary |->
                  Output(c.primary[i].alias, KeyExpr(side, env, c.primary[i][s], c.primary[i].cast))]
           G == [i \in DOMAIN c.groups |->
                  Output(c.groups[i].alias, GroupExpr(side, env, c.groups[i][s], c.groups[i].cast))]
           A == [i \in DOMAIN c.aggregates |->
                  Output(c.aggregates[i].ref.alias,
                         AggregateExpr(env, c.aggregates[i], c.aggregates[i].ref[s]))]
           O == {G[i] : i \in DOMAIN G} \cup {A[i] : i \in DOMAIN A}
           g == Len(c.groups)
           n == Len(c.aggregates)
           q == Query(side, s, c)
<1>1. q = ((C \o P) \o G) \o A
  BY DEF Query
<1>2. /\ DOMAIN c.groups = 1..g /\ g \in Nat
      /\ DOMAIN c.aggregates = 1..n /\ n \in Nat \ {0}
  <2> DEFINE a == c.aggregates
             b == c.groups
  <2>1. a \in Seq(GoodAggregates(d)) /\ b \in Seq(GoodRefs(d)) /\ a # <<>>
    BY DEF ConfigSet
  <2> HIDE DEF a, b
  <2>2. DOMAIN a = 1..Len(a) /\ Len(a) \in Nat \ {0} /\ DOMAIN b = 1..Len(b) /\ Len(b) \in Nat
    BY <2>1
  <2> QED BY <2>2 DEF a, b
<1>3. C = <<>> /\ P = <<>>
  <2>1. \A f : DOMAIN f = {} /\ f = [i \in {} |-> f[i]] => f = <<>>
    OBVIOUS
  <2>2. DOMAIN <<>> = {}
    OBVIOUS
  <2> QED BY <2>1, <2>2
<1>4. G \in Seq(O) /\ A \in Seq(O) /\ Len(G) = g /\ Len(A) = n
  BY <1>2
<1>5. \A i \in 1..n :
        /\ A[i].alias = c.aggregates[i].ref.alias
        /\ A[i].expr = AggregateExpr(env, c.aggregates[i], c.aggregates[i].ref[s])
  BY <1>2 DEF Output
<1> HIDE DEF C, P, G, A, O, q
<1>6. q = G \o A
  <2>1. (<<>> \o <<>>) \o G = G
    BY <1>4
  <2> QED BY <1>1, <1>3, <2>1
<1> HIDE DEF g, n
<1>7. /\ q \in Seq(O) /\ Len(q) = g + n /\ DOMAIN q = 1..(g + n)
      /\ \A i \in 1..n : q[g + i] = A[i]
  <2>1. G \o A \in Seq(O) /\ Len(G \o A) = Len(G) + Len(A)
        /\ \A i \in 1..Len(A) : (G \o A)[Len(G) + i] = A[i]
    <3>1. G \in Seq(O) /\ A \in Seq(O)
      BY <1>4
    <3> QED BY <3>1, SecondList
  <2>2. q \in Seq(O) /\ Len(q) = g + n /\ \A i \in 1..n : q[g + i] = A[i]
    BY <1>4, <1>6, <2>1
  <2> QED BY <2>2
<1> DEFINE r == SubSeq(q, g + 2, g + n)
<1>8. /\ Len(r) = n - 1 /\ DOMAIN r = 1..(n - 1)
      /\ \A i \in 1..(n - 1) : r[i] = q[g + 1 + i]
  <2>1. Len(r) = n - 1 /\ DOMAIN r = 1..(n - 1)
    BY <1>2, <1>7
  <2>2. ASSUME NEW i \in 1..(n - 1) PROVE r[i] = q[g + 1 + i]
    <3>1. (g + 2) + i - 1 = g + 1 + i
      BY <1>2
    <3>2. r[i] = q[(g + 2) + i - 1]
      BY <1>2, <1>7
    <3> QED BY <3>1, <3>2
  <2> QED BY <2>1, <2>2
<1> HIDE DEF r
<1>9. ASSUME NEW i \in 1..(n - 1)
      PROVE  /\ r[i].alias = c.aggregates[i + 1].ref.alias
             /\ r[i].expr = AggregateExpr(env, c.aggregates[i + 1], c.aggregates[i + 1].ref[s])
  <2>1. i + 1 \in 1..n /\ g + 1 + i = g + (i + 1)
    BY <1>2
  <2> QED BY <1>5, <1>7, <1>8, <2>1
<1> QED BY <1>2, <1>7, <1>8, <1>9 DEF AggregatesFollow, q, g, n, r

\* The columns a type of aggregation wants are those it was asked for.
LEMMA WantedAre ==
  ASSUME Given, NEW j \in DOMAIN args.aggregates, NEW key, key \in SourceKeys
  PROVE  LET agg == args.aggregates[j]
         IN  key \in Wanted(db, agg, args) <=> AskedFor(agg, key) \/ NoneLeft(agg)
<1> DEFINE agg == args.aggregates[j]
           listed == ToSet(agg.columns.list)
           keys == SourceKeys
           named == IF args.exclude THEN keys \ listed ELSE listed
           G == key \in Wanted(db, agg, args) <=> AskedFor(agg, key) \/ NoneLeft(agg)
<1>1. /\ agg.columns \in ColumnLists /\ agg.columns # List(<<>>) /\ args.exclude \in BOOLEAN
  <2>1. agg \in Aggregation
    BY ArgumentsAre DEF Given
  <2> QED BY <2>1, ArgumentsAre DEF Given, Aggregation
<1> HIDE DEF agg
<1>2. /\ agg.columns.all \in BOOLEAN /\ agg.columns.list \in Seq(Seq(STRING))
      /\ ~agg.columns.all => agg.columns.list # <<>>
  BY <1>1 DEF ColumnLists, List
<1>3. \A c : Contains(agg.columns.list, c) \in BOOLEAN /\ (Contains(agg.columns.list, c) <=> c \in listed)
  <2> DEFINE l == agg.columns.list
  <2>1. DOMAIN l = 1..Len(l)
    BY <1>2
  <2> HIDE DEF l
  <2>2. \A c : Contains(l, c) <=> c \in ToSet(l)
    BY <2>1 DEF Contains, ToSet
  <2> QED BY <2>2 DEF Contains, l
<1>4. \A c : AskedFor(agg, c) <=> agg.columns.all \/ ((c \in listed) <=> ~args.exclude)
  BY <1>1, <1>3 DEF AskedFor
<1>5. ~agg.columns.all => listed # {}
  <2> DEFINE l == agg.columns.list
  <2> HIDE DEF l
  <2>1. \A S : \A s \in Seq(S) : s # <<>> => 1 \in DOMAIN s
    OBVIOUS
  <2>2. ~agg.columns.all => 1 \in DOMAIN l
    BY <1>2, <2>1 DEF l
  <2>3. 1 \in DOMAIN l => l[1] \in ToSet(l)
    BY DEF ToSet
  <2> QED BY <2>2, <2>3 DEF l
<1>6. Wanted(db, agg, args) = IF agg.columns.all \/ named = {} THEN keys ELSE named
  BY DEF Wanted, SourceKeys
<1> HIDE DEF listed, keys
<1>7. ASSUME agg.columns.all PROVE G
  BY <1>4, <1>6, <1>7 DEF keys
<1>8. ASSUME ~agg.columns.all, ~args.exclude PROVE G
  <2>1. named # {} /\ (key \in named <=> key \in listed)
    BY <1>5, <1>8
  <2>2. ~NoneLeft(agg)
    BY <1>8 DEF NoneLeft
  <2> HIDE DEF named
  <2> QED BY <1>4, <1>6, <1>8, <2>1, <2>2
<1>9. ASSUME ~agg.columns.all, args.exclude PROVE G
  <2>1. named = keys \ listed
    BY <1>9
  <2>2. NoneLeft(agg) <=> keys \ listed = {}
    BY <1>4, <1>9 DEF NoneLeft, keys
  <2>3. AskedFor(agg, key) <=> key \notin listed
    BY <1>4, <1>9
  <2>4. key \in keys
    BY DEF keys
  <2> HIDE DEF named
  <2> QED BY <1>6, <1>9, <2>1, <2>2, <2>3, <2>4
<1>10. G
  <2> HIDE DEF G
  <2> QED BY <1>7, <1>8, <1>9
<1> QED BY <1>10 DEF agg

\* A number is never skipped.
LEMMA NumbersAreAggregated ==
  ASSUME Given, NEW j \in DOMAIN args.aggregates, NEW key, key \in SourceKeys, Numeric(key),
         LET agg == args.aggregates[j] IN AskedFor(agg, key) \/ NoneLeft(agg)
  PROVE  key \in KeysOfType(db, args, j)
<1> DEFINE agg == args.aggregates[j]
           s == ColumnOf(db.source, key).type
           t == ColumnOf(db.target, key).type
<1>1. db \in Databases
  BY DEF Given
<1>2. Has(db.source, key) /\ Has(db.target, key)
  <2>1. KeysOf(db.source) = SourceKeys
    BY DEF KeysOf, SourceKeys
  <2> QED BY <1>1, <2>1, KeysAre, SidesAre DEF Numeric
<1>3. key \in Wanted(db, agg, args)
  BY WantedAre
<1>4. {s, t} \subseteq Numbers
  <2>1. {ColumnOf(db[x], key).type : x \in Sides} \subseteq Numbers
    BY DEF Numeric
  <2> QED BY <2>1, SidesAre
<1>5. RawOf(db.source, key) = "none" /\ RawOf(db.target, key) = "none"
  <2>1. {RawOf(db[x], key) : x \in Sides} = {"none"}
    BY DEF Numeric
  <2>2. RawOf(db["source"], key) \in {"none"} /\ RawOf(db["target"], key) \in {"none"}
    BY <2>1, SidesAre
  <2> QED BY <2>2
<1> HIDE DEF agg
<1>6. TypeIsSupported(agg, args, s, t)
  <2> HIDE DEF s, t
  <2>1. "uuid" \notin Numbers
    BY DEF Numbers
  <2>2. ~IsUuid(s, t)
    BY <1>4, <2>1 DEF IsUuid
  <2>3. Numbers \subseteq SupportedTypes(agg, args)
    BY DEF SupportedTypes
  <2> QED BY <1>4, <2>2, <2>3 DEF TypeIsSupported
<1>7. \A client, types : "none" \notin types => ~IsRawDataType(db, client, key, key, types)
  BY <1>5 DEF IsRawDataType
<1>8. ~Skipped(db, key, agg, args)
  <2>1. ~IsSqlServerImage(db, key, key) /\ ~IsDb2ZosXml(db, key, key) /\ ~IsDb2Xml(db, key, key)
    <3>1. "none" \notin {"image"} /\ "none" \notin {"XML"}
      OBVIOUS
    <3> QED BY <1>7, <3>1 DEF IsSqlServerImage, IsDb2ZosXml, IsDb2Xml
  <2> QED BY <1>6, <2>1 DEF Skipped
<1>9. key \in ToSet(AggregatedKeys(db, agg, args))
  BY <1>1, <1>2, <1>3, <1>8, AggregatedAre
<1> QED BY <1>9 DEF KeysOfType, agg

\* The invariant implies that aggregates are of their own columns.
LEMMA AInvAggregates == AInv => AggregatesOnOwnColumns
<1> SUFFICES ASSUME AInv, Finished, ~Row, NEW s \in Sides
             PROVE  LET first == Len(args.groups) + 2
                        done == AggregatesDone(SubSeq(queries[1][s], first, Len(queries[1][s])))
                    IN  /\ IsInjective(done)
                        /\ ToSet(done) \subseteq AskedAggregates
                        /\ {p \in AskedAggregates : \A c \in p[2] : Numeric(c)}
                             \subseteq ToSet(done)
  BY DEF AggregatesOnOwnColumns
<1> DEFINE c == managers[1]
           aggs == c.aggregates
           q == Query(db[s], s, c)
           g == Len(c.groups)
           n == Len(aggs)
           r == SubSeq(q, g + 2, Len(q))
           done == AggregatesDone(r)
           env == CalculatedEnv(db[s], s, c.calculated)
           types == args.aggregates
           m == Len(types)
<1>1. /\ db \in Databases /\ args \in Arguments /\ Given
      /\ types \in Seq(Aggregation) /\ m \in Nat /\ DOMAIN types = 1..m
      /\ \A i, j \in 1..m : types[i].type = types[j].type => i = j
  <2>1. Given
    BY DEF AInv, NInv, QInv
  <2>2. types \in Seq(Aggregation)
    BY <2>1, ArgumentsAre DEF Given
  <2>3. m \in Nat /\ DOMAIN types = 1..m
    BY <2>2
  <2> QED BY <2>1, <2>2, <2>3, ArgumentsAre DEF Given
<1>2. /\ Len(managers) = 1 /\ g = Len(args.groups) /\ AggregatedSo(db, args, c, <<>>)
  BY DEF AInv, Aggregated, Finished
<1>3. /\ c \in ConfigSet(db)
      /\ Len(queries) = 1 /\ DOMAIN queries = 1..1 /\ queries[1] = QueriesOf(db, c)
      /\ Compiled(db, c)
  <2>1. Len(queries) = 1
    BY <1>2 DEF Finished
  <2>2. managers \in Seq(ConfigSet(db))
    BY DEF AInv, NInv, QInv, Built
  <2>3. c \in ConfigSet(db)
    BY <1>2, <2>2, SMTT(30)
  <2>4. /\ DOMAIN queries = 1..Len(queries)
        /\ queries = [i \in 1..Len(queries) |-> QueriesOf(db, managers[i])]
        /\ \A i \in 1..Len(queries) : Compiled(db, managers[i])
    BY DEF AInv, NInv, QInv, Asked
  <2>5. 1 \in 1..1
    OBVIOUS
  <2> QED BY <2>1, <2>3, <2>4, <2>5
<1>4. queries[1][s] = q
  BY <1>3 DEF QueriesOf
<1>5. IsInjective([i \in DOMAIN q |-> q[i].alias])
  <2>1. NoNameTwice
    BY NInvNames DEF AInv
  <2>2. 1 \in DOMAIN queries
    BY <1>3
  <2> DEFINE names == [x \in Sides |-> [i \in DOMAIN queries[1][x] |-> queries[1][x][i].alias]]
  <2>6. queries[1][s] = q
    BY <1>4
  <2> HIDE DEF q
  <2>3. names.source = names.target /\ IsInjective(names.source)
    BY <2>1, <2>2 DEF NoNameTwice
  <2>4. names[s] = names.source
    BY <2>3, SidesAre
  <2>5. names[s] = [i \in DOMAIN q |-> q[i].alias]
    BY <2>6
  <2> HIDE DEF names
  <2> QED BY <2>3, <2>4, <2>5
<1>6. /\ n \in Nat \ {0} /\ g \in Nat /\ Len(q) = g + n /\ DOMAIN q = 1..(g + n)
      /\ Len(r) = n - 1 /\ DOMAIN r = 1..(n - 1)
      /\ \A i \in 1..(n - 1) :
           /\ r[i] = q[g + 1 + i] /\ r[i].alias = aggs[i + 1].ref.alias
           /\ r[i].expr = AggregateExpr(env, aggs[i + 1], aggs[i + 1].ref[s])
  <2>1. c.comparison = <<>> /\ c.primary = <<>> /\ aggs # <<>>
    BY <1>2 DEF AggregatedSo
  <2> HIDE DEF c
  <2>2. AggregatesFollow(Query(db[s], s, c), CalculatedEnv(db[s], s, c.calculated), c, s)
    BY <1>3, <2>1, QueryAggregates
  <2> QED BY <2>2 DEF AggregatesFollow
<1>7. /\ DOMAIN env # {} /\ \A i \in 1..n : aggs[i].ref[s] = <<>> \/ aggs[i].ref[s] \in DOMAIN env
  <2>1. GoodConfig(db, args, c)
    <3>1. 1 \in DOMAIN managers
      <4>1. managers \in Seq(ConfigSet(db))
        BY DEF AInv, NInv, QInv, Built
      <4> QED BY <1>2, <4>1
    <3> QED BY <3>1 DEF AInv, NInv, QInv, Built
  <2>2. Compiles(db[s], s, c)
    BY <1>3 DEF Compiled
  <2>3. DOMAIN aggs = 1..n
    <3>1. aggs \in Seq(GoodAggregates(db))
      BY <1>3 DEF ConfigSet
    <3> HIDE DEF aggs
    <3> QED BY <3>1
  <2> QED BY <1>1, <2>1, <2>2, <2>3, CompiledRefs
<1>8. ReadsOwn(db, s, env)
  BY <1>1, <1>2, FieldsReadOwn DEF AggregatedSo
<1>9. \A j \in 1..m : \A key \in KeysOfType(db, args, j) :
        /\ key \in Both(db) /\ key \in SourceKeys /\ key \in Wanted(db, types[j], args)
  <2> SUFFICES ASSUME NEW j \in 1..m, NEW key \in KeysOfType(db, args, j)
               PROVE  key \in Both(db) /\ key \in SourceKeys /\ key \in Wanted(db, types[j], args)
    OBVIOUS
  <2>1. Has(db.source, key) /\ Has(db.target, key) /\ key \in Wanted(db, types[j], args)
    BY <1>1, AggregatedAre DEF KeysOfType
  <2>2. key \in KeysOf(db.source)
    BY <1>1, <2>1, KeysAre, SidesAre
  <2> QED BY <2>1, <2>2 DEF Both, KeysOf, SourceKeys
<1> DEFINE Is(i, j, key) == /\ j \in 1..m /\ key \in KeysOfType(db, args, j)
                            /\ aggs[i + 1] = OfType(db, args, j, key)
                            /\ done[i] = <<types[j].type, {key}>>
<1>10. DOMAIN done = 1..(n - 1)
       /\ \A i \in 1..(n - 1) : done[i] = <<aggs[i + 1].type, r[i].expr.reads>>
  <2>1. done = [i \in 1..(n - 1) |-> <<aggs[i - (n - 1) + n].type, r[i].expr.reads>>]
    BY <1>6 DEF AggregatesDone
  <2> HIDE DEF done, r, aggs, n
  <2>2. \A i \in 1..(n - 1) : i - (n - 1) + n = i + 1
    BY <1>6
  <2> QED BY <2>1, <2>2
<1> HIDE DEF done, r
<1>11. ASSUME NEW i \in 1..(n - 1), NEW j \in 1..m, NEW key \in KeysOfType(db, args, j),
              aggs[i + 1] = OfType(db, args, j, key)
       PROVE  done[i] = <<types[j].type, {key}>>
  <2> DEFINE name == aggs[i + 1].ref[s]
  <2>1. aggs[i + 1] = AggOf(db, types[j], args, key) /\ key \in Both(db)
    BY <1>9, <1>11 DEF OfType
  <2>2. aggs[i + 1].type = types[j].type
    BY <2>1, AggNameIs
  <2>3. name # <<>>
    BY <1>1, <2>1, AggregateStands
  <2>4. name \in DOMAIN env
    <3>1. i + 1 \in 1..n
      BY <1>6
    <3> QED BY <1>7, <2>3, <3>1
  <2>5. AggregateExpr(env, aggs[i + 1], name).reads = {key}
    <3> DEFINE agg == types[j]
    <3> HIDE DEF env, aggs, agg
    <3>1. key \in Both(db) /\ aggs[i + 1] = AggOf(db, agg, args, key)
      BY <2>1 DEF agg
    <3>2. AggOf(db, agg, args, key).ref[s] \in DOMAIN env
      BY <2>4, <3>1
    <3> DEFINE of == AggOf(db, agg, args, key)
    <3>4. db \in Databases
      BY <1>1
    <3>3. AggregateExpr(env, of, of.ref[s]).reads = {key}
      BY <1>8, <3>1, <3>2, <3>4, AggregateReads
    <3> QED BY <3>1, <3>3
  <2> QED BY <1>6, <1>10, <2>2, <2>5
<1>12. ASSUME NEW i \in 1..(n - 1) PROVE \E j, key : Is(i, j, key)
  <2>1. i + 1 \in 2..n
    BY <1>6
  <2>2. PICK j \in 1..m : \E key \in KeysOfType(db, args, j) : aggs[i + 1] = OfType(db, args, j, key)
    BY <1>1, <1>2, <2>1 DEF AggregatedSo
  <2>3. PICK key \in KeysOfType(db, args, j) : aggs[i + 1] = OfType(db, args, j, key)
    BY <2>2
  <2>4. done[i] = <<types[j].type, {key}>>
    BY <1>11, <2>3
  <2>5. Is(i, j, key)
    BY <2>3, <2>4
  <2> HIDE DEF Is
  <2> QED BY <2>5
<1>13. IsInjective(done)
  <2> SUFFICES ASSUME NEW i \in 1..(n - 1), NEW k \in 1..(n - 1), done[i] = done[k] PROVE i = k
    BY <1>10 DEF IsInjective
  <2>1. PICK j, key : Is(i, j, key)
    BY <1>12
  <2>2. PICK l, other : Is(k, l, other)
    BY <1>12
  <2>3. types[j].type = types[l].type /\ {key} = {other}
    <3> DEFINE x == types[j].type
               y == types[l].type
    <3>1. <<x, {key}>> = <<y, {other}>>
      BY <2>1, <2>2
    <3> HIDE DEF x, y
    <3>2. x = y /\ {key} = {other}
      BY <3>1
    <3> QED BY <3>2 DEF x, y
  <2>4. j = l /\ key = other
    BY <1>1, <2>1, <2>2, <2>3
  <2>5. aggs[i + 1] = aggs[k + 1]
    BY <2>1, <2>2, <2>4
  <2>6. q[g + 1 + i].alias = aggs[i + 1].ref.alias /\ q[g + 1 + k].alias = aggs[k + 1].ref.alias
    BY <1>6
  <2> HIDE DEF q, g, n, aggs
  <2>7. g + 1 + i \in 1..(g + n) /\ g + 1 + k \in 1..(g + n)
    BY <1>6
  <2>8. g + 1 + i = g + 1 + k
    <3> DEFINE x == g + 1 + i
               y == g + 1 + k
               f == [z \in DOMAIN q |-> q[z].alias]
    <3>1. x \in DOMAIN q /\ y \in DOMAIN q
      BY <1>6, <2>7
    <3>2. q[x].alias = q[y].alias
      BY <2>5, <2>6
    <3> HIDE DEF x, y
    <3>3. x \in DOMAIN f /\ y \in DOMAIN f /\ f[x] = f[y]
      BY <3>1, <3>2
    <3>4. IsInjective(f)
      BY <1>5
    <3> HIDE DEF f
    <3>5. x = y
      BY <3>3, <3>4 DEF IsInjective
    <3> QED BY <3>5 DEF x, y
  <2> QED BY <1>6, <2>8
<1>14. ToSet(done) \subseteq AskedAggregates
  <2> SUFFICES ASSUME NEW i \in 1..(n - 1) PROVE done[i] \in AskedAggregates
    BY <1>10 DEF ToSet
  <2>1. PICK j, key : Is(i, j, key)
    BY <1>12
  <2>2. key \in SourceKeys /\ (AskedFor(types[j], key) \/ NoneLeft(types[j]))
    BY <1>1, <1>9, <2>1, WantedAre
  <2>3. types[j] \in ToSet(types)
    BY <1>1, <2>1 DEF ToSet
  <2> QED BY <2>1, <2>2, <2>3 DEF AskedAggregates
<1>15. ASSUME NEW p \in AskedAggregates, \A x \in p[2] : Numeric(x) PROVE p \in ToSet(done)
  <2>1. PICK agg \in ToSet(types) :
          \E key \in SourceKeys : (AskedFor(agg, key) \/ NoneLeft(agg)) /\ p = <<agg.type, {key}>>
    BY <1>15 DEF AskedAggregates
  <2>2. PICK key \in SourceKeys : (AskedFor(agg, key) \/ NoneLeft(agg)) /\ p = <<agg.type, {key}>>
    BY <2>1
  <2>3. PICK j \in 1..m : agg = types[j]
    BY <1>1 DEF ToSet
  <2>4. Numeric(key)
    BY <1>15, <2>2
  <2>5. key \in KeysOfType(db, args, j)
    BY <1>1, <2>2, <2>3, <2>4, NumbersAreAggregated
  <2>6. PICK i \in 2..n : aggs[i] = OfType(db, args, j, key)
    <3>1. j \in 1..(m - Len(<<>>))
      BY <1>1
    <3> QED BY <1>2, <2>5, <3>1 DEF AggregatedSo
  <2>7. i - 1 \in 1..(n - 1) /\ (i - 1) + 1 = i
    BY <1>6
  <2>8. done[i - 1] = p
    BY <1>11, <2>2, <2>3, <2>5, <2>6, <2>7
  <2> QED BY <1>10, <2>7, <2>8 DEF ToSet
<1>16. SubSeq(queries[1][s], Len(args.groups) + 2, Len(queries[1][s])) = r
  BY <1>2, <1>4 DEF r
<1> QED BY <1>13, <1>14, <1>15, <1>16 DEF done

(* A column validation aggregates what it was asked for and nothing else,  *)
(* every aggregate reading its own column, for any tables and arguments:   *)
(* the fields that aggregates share by their names are told apart by the   *)
(* names (config_manager.py 854-886, 1148-1232).                           *)
THEOREM OwnColumns == Spec => []AggregatesOnOwnColumns
<1>1. Init => AInv
  BY QInvInit, NamedInit, AggregatedInit DEF NInv, AInv
<1>2. Spec => []AInv
  BY <1>1, AInvInductive, PTL DEF Spec
<1> QED BY <1>2, AInvAggregates, PTL

-----------------------------------------------------------------------------
(* Every column asked for is compared.                                     *)

\* Both tables have the same columns in the same order.
AlignedIn(d) == Keys(d.source.columns) = Keys(d.target.columns)

\* A column is in a list, or in what a list leaves.
Asks(request, exclude, key) == request.all \/ (Contains(request.list, key) # exclude)

AskedKeys(side, r, x) == {k \in KeysOf(side) : Asks(r, x, k)}

\* Those of columns whose types are supported, if the other table has the same.
SupportedOf(d, keys) == {k \in keys : Reasons(d, k, k) = {}}

\* Lists of the same keys have the same length.
LEMMA SameKeys ==
  ASSUME NEW s \in Seq(TableColumn), NEW t \in Seq(TableColumn), Keys(s) = Keys(t)
  PROVE  /\ Len(s) \in Nat /\ Len(s) = Len(t) /\ DOMAIN s = 1..Len(s) /\ DOMAIN t = 1..Len(s)
         /\ \A i \in 1..Len(s) : s[i].key = t[i].key
<1>1. DOMAIN s = 1..Len(s) /\ DOMAIN t = 1..Len(t) /\ Len(s) \in Nat /\ Len(t) \in Nat
  OBVIOUS
<1>2. DOMAIN Keys(s) = DOMAIN s /\ DOMAIN Keys(t) = DOMAIN t
  BY DEF Keys
<1>3. Len(s) = Len(t)
  <2>1. 1..Len(s) = 1..Len(t)
    BY <1>1, <1>2
  <2>2. \A m, n \in Nat : 1..m = 1..n => m = n
    <3>1. SUFFICES ASSUME NEW m \in Nat, NEW n \in Nat, 1..m = 1..n PROVE m <= n
      OBVIOUS
    <3>2. CASE m = 0
      BY <3>2
    <3>3. CASE m # 0
      <4>1. m \in 1..m
        BY <3>3
      <4> QED BY <3>1, <4>1
    <3> QED BY <3>2, <3>3
  <2> QED BY <1>1, <2>1, <2>2
<1>4. \A i \in 1..Len(s) : Keys(s)[i] = s[i].key /\ Keys(t)[i] = t[i].key
  BY <1>1, <1>3 DEF Keys
<1> QED BY <1>1, <1>3, <1>4

\* What is listed of the columns of a table.
LEMMA ListedAre ==
  ASSUME NEW d \in Databases, NEW s \in Sides, NEW r, NEW x
  PROVE  LET l == Listed(d[s].columns, r, x)
         IN  /\ l \in Seq(TableColumn) /\ Len(l) \in 0..Len(d[s].columns)
             /\ ToSet(Keys(l)) = AskedKeys(d[s], r, x)
<1> DEFINE columns == d[s].columns
           L == {c \in ToSet(columns) : r.all \/ (Contains(r.list, c.key) # x)}
           l == Listed(columns, r, x)
<1>1. columns \in Seq(TableColumn)
  BY TableOf
<1>2. l = Keep(columns, L)
  BY DEF Listed
<1>3. L = {c \in ToSet(columns) : Asks(r, x, c.key)}
  BY DEF Asks
<1>4. KeysOf(d[s]) = {c.key : c \in ToSet(columns)}
  BY DEF KeysOf, Keys, ToSet
<1> HIDE DEF columns, L, l
<1>5. /\ l \in Seq(TableColumn) /\ ToSet(l) = ToSet(columns) \cap L
      /\ Len(l) \in 0..Len(columns)
  BY <1>1, <1>2, KeepIs, KeepAlike
<1>6. ToSet(Keys(l)) = {c.key : c \in ToSet(l)}
  BY DEF Keys, ToSet
<1>7. ToSet(Keys(l)) = AskedKeys(d[s], r, x)
  BY <1>3, <1>4, <1>5, <1>6 DEF AskedKeys
<1> QED BY <1>5, <1>7 DEF columns, l

\* The same of both tables, if their columns come in the same order.
LEMMA ListedAlike ==
  ASSUME NEW d \in Databases, AlignedIn(d), NEW r, NEW x
  PROVE  Keys(Listed(d.source.columns, r, x)) = Keys(Listed(d.target.columns, r, x))
<1> DEFINE S == d.source.columns
           T == d.target.columns
           Of(columns) == {c \in ToSet(columns) : r.all \/ (Contains(r.list, c.key) # x)}
           s == Keep(S, Of(S))
           t == Keep(T, Of(T))
<1>1. S \in Seq(TableColumn) /\ T \in Seq(TableColumn)
  BY TableOf, SidesAre
<1>2. /\ Len(S) \in Nat /\ Len(S) = Len(T) /\ DOMAIN S = 1..Len(S) /\ DOMAIN T = 1..Len(S)
      /\ \A i \in 1..Len(S) : S[i].key = T[i].key
  BY <1>1, SameKeys DEF AlignedIn
<1>3. ASSUME NEW i \in 1..Len(S) PROVE S[i] \in Of(S) <=> T[i] \in Of(T)
  BY <1>2 DEF ToSet
<1>4. Listed(S, r, x) = s /\ Listed(T, r, x) = t
  BY DEF Listed
<1> HIDE DEF S, T, Of
<1>5. /\ Len(s) = Len(t)
      /\ \A p \in 1..Len(s) : \E j \in 1..Len(S) : s[p] = S[j] /\ t[p] = T[j]
  <2> DEFINE A == Of(S)
             B == Of(T)
  <2>1. /\ S \in Seq(TableColumn) /\ T \in Seq(TableColumn) /\ Len(S) = Len(T)
        /\ \A i \in 1..Len(S) : S[i] \in A <=> T[i] \in B
    BY <1>1, <1>2, <1>3
  <2> HIDE DEF A, B
  <2>2. Len(Keep(S, A)) = Len(Keep(T, B)) /\ SamePlaces(Keep(S, A), S, Keep(T, B), T)
    BY <2>1, KeepAlike
  <2> QED BY <2>2 DEF A, B, SamePlaces
<1>6. s \in Seq(TableColumn) /\ t \in Seq(TableColumn)
  BY <1>1, KeepIs
<1> HIDE DEF s, t
<1>7. DOMAIN s = 1..Len(s) /\ DOMAIN t = 1..Len(s)
  BY <1>5, <1>6
<1>8. \A p \in 1..Len(s) : s[p].key = t[p].key
  BY <1>2, <1>5
<1>9. Keys(s) = Keys(t)
  BY <1>7, <1>8 DEF Keys
<1> QED BY <1>4, <1>9 DEF S, T

\* Of lists of the same columns, those of supported types are left.
LEMMA SupportedAre ==
  ASSUME NEW d, NEW l \in Seq(TableColumn), NEW S \in Seq(TableColumn),
         NEW T \in Seq(TableColumn), Keys(S) = Keys(l), Keys(T) = Keys(l)
  PROVE  /\ LET kept == OfSupportedType(d, l, S, T)
            IN  /\ kept \in Seq(TableColumn) /\ Len(kept) \in 0..Len(l)
                /\ ToSet(Keys(kept)) = SupportedOf(d, ToSet(Keys(l)))
         /\ FilterRaises(d, S, T) => SupportedOf(d, ToSet(Keys(l))) # ToSet(Keys(l))
<1> DEFINE out == LeftOut(d, S, T)
           K == {l[i] : i \in DOMAIN l \ out}
           kept == Keep(l, K)
           n == Len(l)
<1>1. /\ n \in Nat /\ DOMAIN l = 1..n /\ Len(S) = n /\ Len(T) = n
      /\ \A i \in 1..n : S[i].key = l[i].key /\ T[i].key = l[i].key
  <2>1. /\ Len(l) \in Nat /\ Len(l) = Len(S) /\ DOMAIN l = 1..Len(l)
        /\ \A i \in 1..Len(l) : l[i].key = S[i].key
    BY SameKeys
  <2>2. Len(l) = Len(T) /\ \A i \in 1..Len(l) : l[i].key = T[i].key
    BY SameKeys
  <2> QED BY <2>1, <2>2
<1>2. OfSupportedType(d, l, S, T) = kept
  BY DEF OfSupportedType, Without
<1>3. Zipped(S, T) = 1..n
  <2>1. Min({n, n}) = n
    BY <1>1 DEF Min
  <2> HIDE DEF n
  <2> QED BY <1>1, <2>1 DEF Zipped
<1>4. out = {i \in 1..n : Reasons(d, l[i].key, l[i].key) # {}}
  BY <1>1, <1>3 DEF LeftOut
<1>5. ToSet(l) = {l[i] : i \in 1..n} /\ ToSet(Keys(l)) = {l[i].key : i \in 1..n}
  BY <1>1 DEF ToSet, Keys
<1>6. K = {l[i] : i \in {j \in 1..n : Reasons(d, l[j].key, l[j].key) = {}}}
  BY <1>1, <1>4
<1> HIDE DEF out, K
<1>7. kept \in Seq(TableColumn) /\ Len(kept) \in 0..n /\ ToSet(kept) = ToSet(l) \cap K
  BY KeepIs, KeepAlike
<1> HIDE DEF kept, n
<1>8. ToSet(Keys(kept)) = {c.key : c \in ToSet(kept)}
  BY DEF Keys, ToSet
<1>9. ToSet(Keys(kept)) = SupportedOf(d, ToSet(Keys(l)))
  <2> DEFINE R(k) == Reasons(d, k, k) = {}
  <2>1. K = {l[i] : i \in {j \in 1..n : R(l[j].key)}}
    BY <1>6
  <2> HIDE DEF R
  <2>2. ASSUME NEW i \in 1..n, R(l[i].key) PROVE l[i] \in ToSet(l) \cap K
    BY <1>5, <2>1, <2>2
  <2>3. ASSUME NEW c \in ToSet(l) \cap K
        PROVE  \E i \in 1..n : c = l[i] /\ R(l[i].key)
    BY <2>1
  <2>4. ToSet(Keys(kept)) = {k \in ToSet(Keys(l)) : R(k)}
    BY <1>5, <1>7, <1>8, <2>2, <2>3, SMTT(30)
  <2> QED BY <2>4 DEF R, SupportedOf
<1>10. ASSUME FilterRaises(d, S, T) PROVE SupportedOf(d, ToSet(Keys(l))) # ToSet(Keys(l))
  <2>1. PICK i \in 1..n : Cardinality(Reasons(d, l[i].key, l[i].key)) > 1
    BY <1>1, <1>3, <1>10 DEF FilterRaises
  <2>2. Cardinality({}) = 0
    BY FS_EmptySet
  <2>3. Reasons(d, l[i].key, l[i].key) # {}
    <3> DEFINE R == Reasons(d, l[i].key, l[i].key)
    <3> HIDE DEF R
    <3>1. R = {} => Cardinality(R) = 0
      BY <2>2
    <3>2. Cardinality(R) > 1
      BY <2>1 DEF R
    <3>3. R # {}
      BY <3>1, <3>2
    <3> QED BY <3>3 DEF R
  <2>4. l[i].key \in ToSet(Keys(l)) \ SupportedOf(d, ToSet(Keys(l)))
    BY <1>5, <2>3 DEF SupportedOf
  <2> QED BY <2>4
<1> QED BY <1>2, <1>7, <1>9, <1>10 DEF n

\* What is hashed or concatenated, if the columns come in the same order, are the supported
\* columns of the request; an unsupported one is needed for an exception.
LEMMA RowKeysAre ==
  ASSUME NEW d \in Databases, AlignedIn(d), NEW request
  PROVE  /\ LET keys == Keys(RowColumns(d, request).source)
            IN  /\ keys \in Seq(ColumnName) /\ IsInjective(keys)
                /\ Len(keys) \in 0..Len(d.source.columns)
                /\ ToSet(keys) = SupportedOf(d, AskedKeys(d.source, request, FALSE))
         /\ LET asked == AskedKeys(d.source, request, FALSE)
            IN  DependentAliasesRaise(d, request) => SupportedOf(d, asked) # asked
<1> DEFINE left == RowColumns(d, request)
           S == Listed(d.source.columns, request, FALSE)
           T == Listed(d.target.columns, request, FALSE)
<1>1. /\ left.source = OfSupportedType(d, S, S, T)
      /\ left.target = OfSupportedType(d, T, S, T)
  BY SidesAre DEF RowColumns
<1>2. Keys(left.source) \in Seq(ColumnName) /\ IsInjective(Keys(left.source))
  BY <1>1, SupportedKeys, SupportedKeysDiffer, SidesAre
<1>3. /\ S \in Seq(TableColumn) /\ T \in Seq(TableColumn) /\ Len(S) \in 0..Len(d.source.columns)
      /\ ToSet(Keys(S)) = AskedKeys(d.source, request, FALSE)
  BY ListedAre, SidesAre
<1>4. Keys(S) = Keys(T)
  BY ListedAlike
<1>5. Len(d.source.columns) \in Nat
  BY TableOf, SidesAre
<1> HIDE DEF S, T, left
<1>6. /\ left.source \in Seq(TableColumn) /\ Len(left.source) \in 0..Len(S)
      /\ ToSet(Keys(left.source)) = SupportedOf(d, ToSet(Keys(S)))
      /\ FilterRaises(d, S, T) => SupportedOf(d, ToSet(Keys(S))) # ToSet(Keys(S))
  <2> DEFINE U == OfSupportedType(d, S, S, T)
  <2>1. /\ U \in Seq(TableColumn) /\ Len(U) \in 0..Len(S)
        /\ ToSet(Keys(U)) = SupportedOf(d, ToSet(Keys(S)))
        /\ FilterRaises(d, S, T) => SupportedOf(d, ToSet(Keys(S))) # ToSet(Keys(S))
    BY <1>3, <1>4, SupportedAre
  <2>2. left.source = U
    BY <1>1
  <2> HIDE DEF U
  <2> QED BY <2>1, <2>2
<1>7. ToSet(Keys(left.target)) = SupportedOf(d, ToSet(Keys(T)))
  <2> DEFINE U == OfSupportedType(d, T, S, T)
  <2>1. ToSet(Keys(U)) = SupportedOf(d, ToSet(Keys(T)))
    BY <1>3, <1>4, SupportedAre
  <2>2. left.target = U
    BY <1>1
  <2> HIDE DEF U
  <2> QED BY <2>1, <2>2
<1>8. Len(Keys(left.source)) = Len(left.source)
  <2> DEFINE a == left.source
  <2>1. \A c \in Seq(TableColumn) : Len(Keys(c)) = Len(c)
    BY DEF Keys
  <2> QED BY <1>6, <2>1
<1>9. DependentAliasesRaise(d, request) =>
        \/ FilterRaises(d, S, T)
        \/ ~(ToSet(Keys(left.source)) \subseteq ToSet(Keys(left.target)))
  BY DEF DependentAliasesRaise, S, T, left
<1>10. ToSet(Keys(left.source)) \subseteq ToSet(Keys(left.target))
  BY <1>4, <1>6, <1>7
<1> DEFINE asked == AskedKeys(d.source, request, FALSE)
<1>11. DependentAliasesRaise(d, request) => SupportedOf(d, asked) # asked
  BY <1>3, <1>6, <1>9, <1>10
<1>12. ToSet(Keys(left.source)) = SupportedOf(d, asked)
  BY <1>3, <1>6
<1>13. Len(Keys(left.source)) \in 0..Len(d.source.columns)
  BY <1>3, <1>5, <1>6, <1>8
<1> QED BY <1>2, <1>11, <1>12, <1>13 DEF left

\* The columns of --comparison-fields: the supported ones of those that were asked for.
CompFieldsOf(d, asked, x, r, primary) ==
  /\ ToSet(CompFields(d, r, x, primary)) = SupportedOf(d, asked) \ ToSet(primary)
  /\ CompFieldsRaise(d, r, x) => (x /\ r.all) \/ SupportedOf(d, asked) # asked

\* So it is, in any order of the columns.
LEMMA CompFieldsAre ==
  ASSUME NEW d \in Databases, NEW r, NEW x, NEW primary
  PROVE  CompFieldsOf(d, AskedKeys(d.source, r, x), x, r, primary)
<1> DEFINE listed == Listed(d.source.columns, r, x)
           keys == Keys(OfSupportedType(d, listed, listed, listed))
           K == ToSet(keys) \ ToSet(primary)
<1>1. CompFields(d, r, x, primary) = Keep(keys, K)
  BY DEF CompFields
<1>2. CompFieldsRaise(d, r, x) => (x /\ r.all) \/ FilterRaises(d, listed, listed)
  BY DEF CompFieldsRaise
<1>3. keys \in Seq(ColumnName)
  BY SupportedKeys, SidesAre
<1>4. /\ listed \in Seq(TableColumn)
      /\ ToSet(Keys(listed)) = AskedKeys(d.source, r, x)
  BY ListedAre, SidesAre
<1> HIDE DEF listed
<1>5. /\ ToSet(keys) = SupportedOf(d, ToSet(Keys(listed)))
      /\ FilterRaises(d, listed, listed) =>
           SupportedOf(d, ToSet(Keys(listed))) # ToSet(Keys(listed))
  BY <1>4, SupportedAre
<1> HIDE DEF keys, K
<1>6. ToSet(Keep(keys, K)) = ToSet(keys) \cap K
  BY <1>3, KeepIs
<1>7. ToSet(Keep(keys, K)) = ToSet(keys) \ ToSet(primary)
  BY <1>6 DEF K
<1> QED BY <1>1, <1>2, <1>4, <1>5, <1>7 DEF CompFieldsOf

\* A list is not longer without what is repeated.
LEMMA DistinctFits ==
  ASSUME NEW K, NEW s \in Seq(K)
  PROVE  Len(Distinct(s)) \in 0..Len(s)
<1> DEFINE n == Len(s)
<1>1. n \in Nat /\ DOMAIN s = 1..n /\ \A i \in 1..n : s[i] \in K
  OBVIOUS
<1>2. PICK v : DistinctSteps(v, K, s)
  BY DistinctOf
<1>3. /\ v \in [0..n -> Seq(K)] /\ v[0] = <<>> /\ Distinct(s) = v[n]
      /\ \A i \in 1..n : v[i] = v[i - 1] \/ v[i] = Append(v[i - 1], s[i])
  BY <1>2 DEF DistinctSteps
<1> HIDE DEF n
<1> DEFINE Good == {i \in 0..n : Len(v[i]) \in 0..i}
<1>4. 0 \in Good
  BY <1>1, <1>3
<1>5. ASSUME NEW i \in 1..n, i - 1 \in Good PROVE i \in Good
  <2> DEFINE w == v[i - 1]
             x == s[i]
  <2>1. i - 1 \in 0..n /\ i \in 0..n
    BY <1>1
  <2>2. w \in Seq(K) /\ x \in K /\ Len(w) \in 0..(i - 1) /\ (v[i] = w \/ v[i] = Append(w, x))
    BY <1>1, <1>3, <1>5, <2>1
  <2> HIDE DEF w, x
  <2>3. Len(Append(w, x)) = Len(w) + 1
    BY <2>2
  <2>4. Len(v[i]) \in 0..i
    BY <1>1, <2>2, <2>3
  <2> QED BY <2>1, <2>4
<1>6. n \in Good
  <2> HIDE DEF Good
  <2>1. n \in 0..n /\ \A i \in 1..n : i - 1 \in Good => i \in Good
    BY <1>1, <1>5
  <2> QED BY <1>1, <1>4, <2>1, UpTo
<1> QED BY <1>3, <1>6 DEF n

-----------------------------------------------------------------------------
(* What a hash or a concatenation reads.                                   *)

\* The fields of one level have its depth, and different names that begin with its operation.
LevelNames(d, fields, op, depth) ==
  /\ Len(fields) \in 0..Len(d.source.columns)
  /\ \A j \in 1..Len(fields) : fields[j].depth = depth /\ fields[j].alias[1] = op
  /\ \A j, k \in 1..Len(fields) : fields[j].alias = fields[k].alias => j = k

\* Different columns of the first level get different names.
LEMMA BaseNames ==
  ASSUME NEW d \in Databases, NEW keys \in Seq(ColumnName), IsInjective(keys),
         Len(keys) \in 0..Len(d.source.columns)
  PROVE  LevelNames(d, [j \in DOMAIN keys |-> BaseField(d, keys, j)], "cast", 0)
<1> DEFINE n == Len(keys)
           base == [j \in DOMAIN keys |-> BaseField(d, keys, j)]
           Name(j) == Prefix(d, "cast", keys[j], j - 1)
<1>1. n \in Nat /\ DOMAIN keys = 1..n
  OBVIOUS
<1>2. Len(base) = n /\ \A j \in 1..n : base[j].depth = 0 /\ base[j].alias = Name(j)
  BY <1>1 DEF BaseField, Field
<1>3. ASSUME NEW j \in 1..n
      PROVE  /\ keys[j] \in Seq(Parts) \ {<<>>} /\ keys[j][1] # "dvt_calc_col"
             /\ j - 1 \in DOMAIN Numeral /\ j - 1 \in Nat
  <2>1. j \in DOMAIN d.source.columns /\ j - 1 \in Nat
    BY <1>1, TableOf, SidesAre
  <2>2. j - 1 \in DOMAIN Numeral
    BY <2>1, TableOf, SidesAre
  <2>3. keys[j] \in ColumnName
    BY <1>1
  <2>4. keys[j] \in Seq(Parts) \ {<<>>} /\ keys[j][1] \notin Reserved
    BY <2>3, ColumnNames DEF ColumnName
  <2> QED BY <2>1, <2>2, <2>4 DEF Reserved
<1>4. "cast" \in Parts
  BY DEF Parts, Words, Reserved
<1>5. \A j, k \in 1..n : keys[j] = keys[k] => j = k
  BY <1>1 DEF IsInjective
<1> HIDE DEF base, n
<1>6. ASSUME NEW j \in 1..n PROVE Name(j)[1] = "cast"
  BY <1>3, <1>4, PrefixBegins
<1>7. ASSUME NEW j \in 1..n, NEW k \in 1..n, Name(j) = Name(k) PROVE j = k
  <2> DEFINE x == keys[j]
             y == keys[k]
             o == j - 1
             q == k - 1
  <2>1. o = q \/ x = y
    <3>1. Prefix(d, "cast", x, o) = Prefix(d, "cast", y, q)
      BY <1>7
    <3>2. /\ x \in Seq(Parts) \ {<<>>} /\ x[1] # "dvt_calc_col"
          /\ o \in DOMAIN Numeral /\ o \in Nat
      BY <1>3
    <3>3. /\ y \in Seq(Parts) \ {<<>>} /\ y[1] # "dvt_calc_col"
          /\ q \in DOMAIN Numeral /\ q \in Nat
      BY <1>3
    <3> HIDE DEF x, y, o, q, Name
    <3> QED BY <1>4, <3>1, <3>2, <3>3, PrefixOnce
  <2> QED BY <1>1, <1>5, <2>1
<1> HIDE DEF Name
<1>8. LevelNames(d, base, "cast", 0)
  BY <1>1, <1>2, <1>6, <1>7 DEF LevelNames, n
<1> QED BY <1>8 DEF base

\* So do the fields of a level from different ones of the level below.
LEMMA NextNames ==
  ASSUME NEW d \in Databases, NEW previous \in Seq(Derived), IsInjective(previous),
         Len(previous) \in 0..Len(d.source.columns),
         \A j \in 1..Len(previous) : previous[j][1] # "dvt_calc_col",
         NEW op \in Reserved, NEW depth
  PROVE  LevelNames(d, LevelOf(d, op, previous, depth), op, depth)
<1> DEFINE n == Len(previous)
           fields == LevelOf(d, op, previous, depth)
           Name(j) == Prefix(d, op, previous[j], j - 1)
<1>1. n \in Nat /\ DOMAIN previous = 1..n /\ Len(d.source.columns) \in Nat \ {0}
  BY TableOf, SidesAre
<1>2. CASE op \in {"concat", "hash"}
  <2> DEFINE f == Field(previous, previous, op, "none", <<op, "all">>, depth)
  <2>1. fields = <<f>>
    BY <1>2 DEF LevelOf
  <2>2. f.depth = depth /\ f.alias[1] = op
    BY DEF Field
  <2> HIDE DEF f
  <2>3. Len(<<f>>) = 1 /\ <<f>>[1] = f /\ 1 \in 0..Len(d.source.columns) /\ \A j \in 1..1 : j = 1
    BY <1>1
  <2> QED BY <2>1, <2>2, <2>3 DEF LevelNames
<1>3. CASE op \notin {"concat", "hash"}
  <2>1. fields = [j \in DOMAIN previous |->
                   Field(<<previous[j]>>, <<previous[j]>>, op, "none", Name(j), depth)]
    BY <1>3 DEF LevelOf
  <2>2. Len(fields) = n /\ \A j \in 1..n : fields[j].depth = depth /\ fields[j].alias = Name(j)
    BY <1>1, <2>1 DEF Field
  <2>3. ASSUME NEW j \in 1..n
        PROVE  /\ previous[j] \in Seq(Parts) \ {<<>>} /\ previous[j][1] # "dvt_calc_col"
               /\ j - 1 \in DOMAIN Numeral /\ j - 1 \in Nat
    <3>1. j \in DOMAIN d.source.columns /\ j - 1 \in Nat
      BY <1>1, TableOf, SidesAre
    <3>2. j - 1 \in DOMAIN Numeral
      BY <3>1, TableOf, SidesAre
    <3>3. previous[j] \in Derived
      BY <1>1
    <3> QED BY <3>1, <3>2, <3>3, ColumnNames
  <2>4. op \in Parts
    BY DEF Parts, Words
  <2>5. \A j, k \in 1..n : previous[j] = previous[k] => j = k
    BY <1>1 DEF IsInjective
  <2> HIDE DEF fields, n
  <2>6. ASSUME NEW j \in 1..n PROVE Name(j)[1] = op
    BY <2>3, <2>4, PrefixBegins
  <2>7. ASSUME NEW j \in 1..n, NEW k \in 1..n, Name(j) = Name(k) PROVE j = k
    <3> DEFINE x == previous[j]
               y == previous[k]
               o == j - 1
               q == k - 1
    <3>1. o = q \/ x = y
      <4>1. Prefix(d, op, x, o) = Prefix(d, op, y, q)
        BY <2>7
      <4>2. /\ x \in Seq(Parts) \ {<<>>} /\ x[1] # "dvt_calc_col"
            /\ o \in DOMAIN Numeral /\ o \in Nat
        BY <2>3
      <4>3. /\ y \in Seq(Parts) \ {<<>>} /\ y[1] # "dvt_calc_col"
            /\ q \in DOMAIN Numeral /\ q \in Nat
        BY <2>3
      <4> HIDE DEF x, y, o, q, Name
      <4> QED BY <2>4, <4>1, <4>2, <4>3, PrefixOnce
    <3> QED BY <1>1, <2>5, <3>1
  <2> HIDE DEF Name
  <2>8. LevelNames(d, fields, op, depth)
    BY <1>1, <2>2, <2>6, <2>7 DEF LevelNames, n
  <2> QED BY <2>8 DEF fields
<1> QED BY <1>2, <1>3

\* All levels have different names: those of their operations, which are no second numbers.
LEMMA LevelsNames ==
  ASSUME NEW d \in Databases, NEW keys \in Seq(ColumnName), IsInjective(keys),
         Len(keys) \in 0..Len(d.source.columns),
         ToSet(keys) \subseteq KeysOf(d.source), ToSet(keys) \subseteq KeysOf(d.target),
         NEW ops \in Seq(Reserved), Len(ops) \in 4..6, ops[1] = "cast",
         \A i \in 1..Len(ops) : ops[i] # "dvt_calc_col",
         NEW l, LevelSteps(l, d, keys, ops)
  PROVE  \A i \in 1..Len(ops) : LevelNames(d, l[i], ops[i], i - 1)
<1> DEFINE N == Len(ops)
           Good == {i \in 0..N : i # 0 => LevelNames(d, l[i], ops[i], i - 1)}
<1>1. N \in Nat /\ DOMAIN ops = 1..N
  OBVIOUS
<1>2. \A i \in 1..N : l[i] \in Seq(FieldSet(d))
  BY LevelsAreGood
<1>3. LevelNames(d, l[1], "cast", 0)
  BY BaseNames DEF LevelSteps
<1>4. ASSUME NEW i \in 1..N, i - 1 \in Good PROVE i \in Good
  <2>1. CASE i = 1
    BY <1>1, <1>3, <2>1
  <2>2. CASE i # 1
    <3>1. i \in 2..N /\ i - 1 # 0 /\ i \in 0..N /\ i - 1 \in 1..N
      BY <1>1, <2>2
    <3> DEFINE below == l[i - 1]
               o == ops[i - 1]
               previous == Aliases(below)
    <3>2. below \in Seq(FieldSet(d)) /\ LevelNames(d, below, o, i - 1 - 1)
      BY <1>2, <1>4, <3>1
    <3>3. l[i] = LevelOf(d, ops[i], previous, i - 1) /\ ops[i] \in Reserved /\ o # "dvt_calc_col"
      BY <1>1, <3>1 DEF LevelSteps
    <3> HIDE DEF below, o, N, Good
    <3>4. /\ previous \in Seq(Derived) /\ IsInjective(previous)
          /\ ToSet(previous) = {below[j].alias : j \in DOMAIN below}
      BY <3>2, AliasesAre
    <3>5. Len(previous) \in 0..Len(d.source.columns)
      <4> DEFINE names == [j \in DOMAIN below |-> below[j].alias]
      <4>1. \A f \in FieldSet(d) : f.alias \in Seq(Parts)
        BY DEF FieldSet
      <4>2. DOMAIN below = 1..Len(below) /\ Len(below) \in Nat
        BY <3>2
      <4>3. names \in Seq(Seq(Parts)) /\ Len(names) = Len(below)
        BY <3>2, <4>1, <4>2
      <4>4. previous = Distinct(names)
        BY DEF Aliases
      <4> HIDE DEF names
      <4>5. Len(previous) \in 0..Len(below)
        BY <4>3, <4>4, DistinctFits
      <4>6. Len(below) \in 0..Len(d.source.columns) /\ Len(d.source.columns) \in Nat
        BY <3>2, TableOf, SidesAre DEF LevelNames
      <4> HIDE DEF previous
      <4> QED BY <4>5, <4>6
    <3> HIDE DEF previous
    <3>6. ASSUME NEW j \in 1..Len(previous) PROVE previous[j][1] # "dvt_calc_col"
      <4>1. previous[j] \in ToSet(previous)
        BY <3>4 DEF ToSet
      <4>2. PICK k \in DOMAIN below : previous[j] = below[k].alias
        BY <3>4, <4>1
      <4>3. k \in 1..Len(below)
        BY <3>2, <4>2
      <4> QED BY <3>2, <3>3, <4>2, <4>3 DEF LevelNames
    <3>7. LevelNames(d, LevelOf(d, ops[i], previous, i - 1), ops[i], i - 1)
      BY <3>3, <3>4, <3>5, <3>6, NextNames
    <3>8. LevelNames(d, l[i], ops[i], i - 1)
      BY <3>3, <3>7
    <3> QED BY <3>1, <3>8 DEF Good
  <2> QED BY <2>1, <2>2
<1>5. \A i \in 0..N : i \in Good
  <2>1. 0 \in Good
    BY <1>1
  <2>2. \A i \in 1..N : i - 1 \in Good => i \in Good
    BY <1>4
  <2> HIDE DEF N, Good
  <2> QED BY <1>1, <2>1, <2>2, UpTo
<1> QED BY <1>1, <1>5

\* What the expressions of some names read together.
Reads(e, names) == UNION {e[a].reads : a \in names}

\* The names of the fields of a level, and those they are computed of.
NamesAt(level) == {level[j].alias : j \in DOMAIN level}
ArgumentsAt(level, s) == UNION {ToSet(level[j][s]) : j \in DOMAIN level}

\* A calculated field reads what its arguments do.
LEMMA CalcReads ==
  ASSUME NEW side, NEW e, NEW f, NEW names
  PROVE  CalcExpr(side, e, f, names).reads = Reads(e, ToSet(names))
<1> DEFINE x == [i \in DOMAIN names |-> IF f.op = "concat" THEN Cast(e[names[i]], "string")
                                                           ELSE e[names[i]]]
<1>1. CalcExpr(side, e, f, names).reads = UNION {x[i].reads : i \in DOMAIN x}
  BY DEF CalcExpr, Apply
<1>2. DOMAIN x = DOMAIN names
  OBVIOUS
<1>3. \A i \in DOMAIN names : x[i].reads = e[names[i]].reads
  BY OneArgument
<1> HIDE DEF x
<1>4. UNION {x[i].reads : i \in DOMAIN x} = UNION {e[names[i]].reads : i \in DOMAIN names}
  BY <1>2, <1>3
<1> QED BY <1>1, <1>4 DEF Reads, ToSet

\* The fields of a level have different names.
OneNameEach(level) == \A j, k \in DOMAIN level : level[j].alias = level[k].alias => j = k

\* m has what e has and the fields of the level, that read together what e has for them.
Extends(m, e, level, s) ==
  /\ DOMAIN m = NamesAt(level) \cup DOMAIN e
  /\ Reads(m, NamesAt(level)) = Reads(e, ArgumentsAt(level, s))

\* The names of a level read together what the names it is computed of read together.
LEMMA LevelReads ==
  ASSUME NEW side, NEW s, NEW e, NEW level, DOMAIN e # {}, FieldsResolve(s, e, ToSet(level)),
         OneNameEach(level)
  PROVE  Extends(AfterDepth(side, s, e, ToSet(level)), e, level, s)
<1> DEFINE fields == ToSet(level)
           new == {f.alias : f \in fields}
           named(a) == CHOOSE f \in fields : f.alias = a
           m == Mutate(side, s, e, fields)
<1>1. AfterDepth(side, s, e, ToSet(level)) = m
  BY DEF AfterDepth
<1>2. new = NamesAt(level)
  BY DEF ToSet, NamesAt
<1>3. m = [a \in new \cup DOMAIN e |->
             IF a \in new THEN CalcExpr(side, e, named(a), named(a)[s]) ELSE e[a]]
  BY DEF Mutate
<1>4. ASSUME NEW j \in DOMAIN level
      PROVE  m[level[j].alias].reads = Reads(e, ToSet(level[j][s]))
  <2> DEFINE a == level[j].alias
  <2>1. level[j] \in fields /\ \A f \in fields : f.alias = a => f = level[j]
    BY DEF ToSet, OneNameEach
  <2>2. named(a) = level[j]
    BY <2>1
  <2>3. a \in new
    BY <2>1
  <2> HIDE DEF m, named, new
  <2>4. m[a] = CalcExpr(side, e, level[j], level[j][s])
    BY <1>3, <2>2, <2>3
  <2> QED BY <2>4, CalcReads
<1>5. DOMAIN m = NamesAt(level) \cup DOMAIN e
  BY <1>2, <1>3
<1> HIDE DEF m, new, fields
<1>6. Reads(m, NamesAt(level)) = UNION {Reads(e, ToSet(level[j][s])) : j \in DOMAIN level}
  <2>1. Reads(m, NamesAt(level)) = UNION {m[level[j].alias].reads : j \in DOMAIN level}
    BY DEF Reads, NamesAt
  <2> QED BY <1>4, <2>1
<1>7. UNION {Reads(e, ToSet(level[j][s])) : j \in DOMAIN level} = Reads(e, ArgumentsAt(level, s))
  BY DEF Reads, ArgumentsAt
<1> QED BY <1>1, <1>5, <1>6, <1>7 DEF Extends

\* The first level is computed of the columns with the given keys.
LEMMA BaseLevel ==
  ASSUME NEW d \in Databases, NEW s \in Sides, NEW keys \in Seq(ColumnName),
         ToSet(keys) \subseteq KeysOf(d.source), ToSet(keys) \subseteq KeysOf(d.target)
  PROVE  LET level == [j \in DOMAIN keys |-> BaseField(d, keys, j)]
         IN  /\ FieldsResolve(s, TableEnv(d[s]), ToSet(level))
             /\ Reads(TableEnv(d[s]), ArgumentsAt(level, s)) = ToSet(keys)
<1> DEFINE level == [j \in DOMAIN keys |-> BaseField(d, keys, j)]
           e == TableEnv(d[s])
           Name(j) == ColumnOf(d[s], keys[j]).name
<1>1. ASSUME NEW j \in DOMAIN keys
      PROVE  /\ level[j][s] = <<Name(j)>> /\ Name(j) \in DOMAIN e /\ e[Name(j)].reads = {keys[j]}
  <2>1. level[j][s] = <<Name(j)>>
    BY SidesAre DEF BaseField, Field
  <2>2. Has(d[s], keys[j])
    BY KeysAre, SidesAre DEF ToSet
  <2>3. PICK i \in DOMAIN d[s].columns :
          ColumnOf(d[s], keys[j]) = d[s].columns[i] /\ d[s].columns[i].key = keys[j]
    BY <2>2, ColumnOfKey
  <2>4. Name(j) \in DOMAIN e /\ e[Name(j)] = Column(keys[j])
    BY <2>3, TableEnvOf
  <2> QED BY <2>1, <2>4 DEF Column
<1>2. DOMAIN level = DOMAIN keys
  OBVIOUS
<1> HIDE DEF level, e, Name
<1>3. \A x : ToSet(<<x>>) = {x} /\ <<x>> # <<>>
  BY DEF ToSet
<1>8. ASSUME NEW j \in DOMAIN keys PROVE level[j][s] # <<>> /\ ToSet(level[j][s]) = {Name(j)}
  <2> DEFINE x == Name(j)
  <2>1. level[j][s] = <<x>>
    BY <1>1
  <2> HIDE DEF x
  <2>2. ToSet(<<x>>) = {x} /\ <<x>> # <<>>
    BY <1>3
  <2>3. level[j][s] # <<>> /\ ToSet(level[j][s]) = {x}
    BY <2>1, <2>2
  <2> QED BY <2>3 DEF x
<1>4. FieldsResolve(s, e, ToSet(level))
  <2> SUFFICES ASSUME NEW f \in ToSet(level) PROVE f[s] # <<>> /\ ToSet(f[s]) \subseteq DOMAIN e
    BY DEF FieldsResolve
  <2>1. PICK j \in DOMAIN keys : f = level[j]
    BY <1>2 DEF ToSet
  <2>2. f[s] # <<>> /\ ToSet(f[s]) = {Name(j)}
    BY <1>8, <2>1
  <2>3. Name(j) \in DOMAIN e
    BY <1>1
  <2> QED BY <2>2, <2>3
<1>5. ArgumentsAt(level, s) = {Name(j) : j \in DOMAIN keys}
  <2>1. ArgumentsAt(level, s) = UNION {{Name(j)} : j \in DOMAIN keys}
    BY <1>2, <1>8 DEF ArgumentsAt
  <2> QED BY <2>1
<1>6. Reads(e, ArgumentsAt(level, s)) = UNION {e[Name(j)].reads : j \in DOMAIN keys}
  BY <1>5 DEF Reads
<1>7. UNION {e[Name(j)].reads : j \in DOMAIN keys} = ToSet(keys)
  <2>1. UNION {e[Name(j)].reads : j \in DOMAIN keys} = UNION {{keys[j]} : j \in DOMAIN keys}
    BY <1>1
  <2> QED BY <2>1 DEF ToSet
<1> QED BY <1>4, <1>6, <1>7 DEF level, e

\* Each field of a level has arguments, and together they have all of a list.
TakesAll(level, s, list) ==
  /\ \A j \in DOMAIN level : level[j][s] # <<>>
  /\ ArgumentsAt(level, s) = ToSet(list)

\* Every other level is computed of the names of the one below.
LEMMA NextLevel ==
  ASSUME NEW d, NEW op, NEW K, NEW previous \in Seq(K), NEW depth, NEW s \in Sides,
         previous # <<>>
  PROVE  TakesAll(LevelOf(d, op, previous, depth), s, previous)
<1> DEFINE level == LevelOf(d, op, previous, depth)
<1>1. \A x : ToSet(<<x>>) = {x} /\ <<x>> # <<>> /\ DOMAIN <<x>> = {1} /\ <<x>>[1] = x
  BY DEF ToSet
<1>2. CASE op \in {"concat", "hash"}
  <2> DEFINE f == Field(previous, previous, op, "none", <<op, "all">>, depth)
  <2>1. level = <<f>>
    BY <1>2 DEF LevelOf
  <2>2. f[s] = previous
    BY SidesAre DEF Field
  <2> HIDE DEF f, level
  <2>3. DOMAIN level = {1} /\ level[1] = f
    BY <1>1, <2>1
  <2>4. ArgumentsAt(level, s) = ToSet(previous)
    BY <2>2, <2>3 DEF ArgumentsAt
  <2>5. \A j \in DOMAIN level : level[j][s] # <<>>
    BY <2>2, <2>3
  <2> QED BY <2>4, <2>5 DEF level, TakesAll
<1>3. CASE op \notin {"concat", "hash"}
  <2>1. level = [j \in DOMAIN previous |->
                  Field(<<previous[j]>>, <<previous[j]>>, op, "none",
                        Prefix(d, op, previous[j], j - 1), depth)]
    BY <1>3 DEF LevelOf
  <2>2. DOMAIN level = DOMAIN previous /\ \A j \in DOMAIN previous : level[j][s] = <<previous[j]>>
    BY <2>1, SidesAre DEF Field
  <2> HIDE DEF level
  <2>3. ArgumentsAt(level, s) = ToSet(previous)
    BY <1>1, <2>2 DEF ArgumentsAt, ToSet
  <2>4. \A j \in DOMAIN level : level[j][s] # <<>>
    BY <1>1, <2>2
  <2> QED BY <2>3, <2>4 DEF level, TakesAll
<1> QED BY <1>2, <1>3

\* l has the levels that the fields of a row are made of, depth after depth.
RowLevels(l, d, keys, ops, fields) ==
  /\ LevelSteps(l, d, keys, ops)
  /\ \A i \in 1..Len(ops) : /\ l[i] \in Seq(FieldSet(d)) /\ LevelNames(d, l[i], ops[i], i - 1)
                            /\ AtDepth(fields, i - 1) = ToSet(l[i])
  /\ DepthLimit(fields) = Len(ops) - 1

\* What is known of the operations and of the columns they are made for.
RowGiven(d, keys, ops) ==
  /\ keys \in Seq(ColumnName) /\ IsInjective(keys) /\ Len(keys) \in 0..Len(d.source.columns)
  /\ ToSet(keys) \subseteq KeysOf(d.source) /\ ToSet(keys) \subseteq KeysOf(d.target)
  /\ ops \in Seq(Reserved) /\ Len(ops) \in 4..6 /\ ops[1] = "cast"
  /\ \A i \in 1..Len(ops) : ops[i] # "dvt_calc_col"
  /\ ops[Len(ops)] \in {"concat", "hash"}

\* The calculated fields of a row have such levels.
LEMMA LevelsAt ==
  ASSUME NEW d \in Databases, NEW keys, NEW ops, RowGiven(d, keys, ops),
         NEW l, LevelSteps(l, d, keys, ops), NEW fields,
         fields = UNION {ToSet(l[i]) : i \in 1..Len(ops)}
  PROVE  RowLevels(l, d, keys, ops, fields)
<1> DEFINE N == Len(ops)
<1>1. N \in 4..6 /\ N \in Nat /\ N - 1 \in Nat /\ N \in 1..N /\ N \in 2..N
  BY DEF RowGiven
<1>2. \A i \in 1..N : l[i] \in Seq(FieldSet(d))
  BY LevelsAreGood DEF RowGiven
<1>3. \A i \in 1..N : LevelNames(d, l[i], ops[i], i - 1)
  BY LevelsNames DEF RowGiven
<1>4. ASSUME NEW i \in 1..N, NEW f \in ToSet(l[i]) PROVE f.depth = i - 1
  <2>1. PICK j \in DOMAIN l[i] : f = l[i][j]
    BY DEF ToSet
  <2>2. j \in 1..Len(l[i])
    BY <1>2, <2>1
  <2> QED BY <1>3, <2>1, <2>2 DEF LevelNames
<1>5. l[N] # <<>>
  <2>1. l[N] = LevelOf(d, ops[N], Aliases(l[N - 1]), N - 1)
    BY <1>1 DEF LevelSteps
  <2>2. ops[N] \in {"concat", "hash"}
    BY DEF RowGiven
  <2> HIDE DEF N
  <2>3. \E f : l[N] = <<f>>
    BY <2>1, <2>2 DEF LevelOf
  <2> QED BY <2>3
<1>6. PICK g : g \in ToSet(l[N])
  <2>1. 1 \in DOMAIN l[N]
    <3> DEFINE x == l[N]
    <3>1. x \in Seq(FieldSet(d)) /\ x # <<>>
      BY <1>1, <1>2, <1>5
    <3> HIDE DEF x
    <3>2. 1 \in DOMAIN x
      BY <3>1
    <3> QED BY <3>2 DEF x
  <2> QED BY <2>1 DEF ToSet
<1> HIDE DEF N
<1>7. \A f \in fields : \E i \in 1..N : f \in ToSet(l[i]) /\ f.depth = i - 1
  BY <1>4 DEF N
<1>8. ASSUME NEW i \in 1..N PROVE AtDepth(fields, i - 1) = ToSet(l[i])
  <2>1. ASSUME NEW f \in fields, f.depth = i - 1 PROVE f \in ToSet(l[i])
    <3>1. PICK k \in 1..N : f \in ToSet(l[k]) /\ f.depth = k - 1
      BY <1>7
    <3>2. k = i
      BY <1>1, <2>1, <3>1
    <3> QED BY <3>1, <3>2
  <2>2. \A f \in ToSet(l[i]) : f \in fields /\ f.depth = i - 1
    BY <1>4 DEF N
  <2> QED BY <2>1, <2>2 DEF AtDepth
<1>9. DepthLimit(fields) = N - 1
  <2> DEFINE S == {0} \cup {f.depth : f \in fields}
  <2>1. ASSUME NEW f \in fields PROVE f.depth \in 0..(N - 1)
    <3>1. PICK i \in 1..N : f.depth = i - 1
      BY <1>7
    <3> QED BY <1>1, <3>1
  <2>2. S \in SUBSET (0..(N - 1)) /\ S # {}
    <3>1. 0 \in 0..(N - 1)
      BY <1>1
    <3> QED BY <2>1, <3>1
  <2>3. g \in fields /\ g.depth = N - 1
    BY <1>1, <1>4, <1>6 DEF N
  <2>4. N - 1 \in S
    BY <2>3
  <2> HIDE DEF S
  <2>5. Max(S) \in S /\ \A y \in S : y <= Max(S)
    BY <1>1, <2>2, LargestNumber
  <2>6. Max(S) \in 0..(N - 1) /\ N - 1 <= Max(S)
    BY <2>2, <2>4, <2>5
  <2>7. Max(S) = N - 1
    BY <1>1, <2>6
  <2> QED BY <2>7 DEF DepthLimit, S
<1> QED BY <1>2, <1>3, <1>8, <1>9 DEF RowLevels, N

\* e has the table after each level.
RowSteps(e, l, d, s, ops) ==
  /\ e[0] = TableEnv(d[s])
  /\ \A i \in 1..Len(ops) : e[i] = AfterDepth(d[s], s, e[i - 1], ToSet(l[i]))

\* There are such tables, and the last is the one the query is compiled from.
LEMMA RowStepsOf ==
  ASSUME NEW d \in Databases, NEW keys, NEW ops, RowGiven(d, keys, ops), NEW l, NEW fields,
         RowLevels(l, d, keys, ops, fields), NEW s \in Sides,
         \A f \in fields : f.depth \in Depths
  PROVE  \E e : RowSteps(e, l, d, s, ops) /\ CalculatedEnv(d[s], s, fields) = e[Len(ops)]
<1> DEFINE N == Len(ops)
<1>1. PICK e : EnvSteps(e, d[s], s, fields)
  BY EnvOf
<1>2. DepthLimit(fields) = N - 1 /\ N \in 4..6
  BY DEF RowLevels, RowGiven
<1>3. \A i \in 1..N : AtDepth(fields, i - 1) = ToSet(l[i])
  BY DEF RowLevels
<1> HIDE DEF N
<1>4. ASSUME NEW i \in 1..N PROVE e[i] = AfterDepth(d[s], s, e[i - 1], ToSet(l[i]))
  <2>1. i - 1 \in 0..DepthLimit(fields) /\ (i - 1) + 1 = i
    BY <1>2
  <2>2. e[(i - 1) + 1] = AfterDepth(d[s], s, e[i - 1], AtDepth(fields, i - 1))
    BY <1>1, <2>1 DEF EnvSteps
  <2> QED BY <1>3, <2>1, <2>2
<1>5. e[0] = TableEnv(d[s]) /\ CalculatedEnv(d[s], s, fields) = e[DepthLimit(fields) + 1]
  BY <1>1 DEF EnvSteps
<1>6. DepthLimit(fields) + 1 = N
  BY <1>2
<1> QED BY <1>4, <1>5, <1>6 DEF RowSteps, N

\* Every level reads all the columns, if there are any.
LEMMA FullRow ==
  ASSUME NEW d \in Databases, NEW keys, NEW ops, RowGiven(d, keys, ops), NEW l, NEW fields,
         RowLevels(l, d, keys, ops, fields), NEW s \in Sides, NEW e, RowSteps(e, l, d, s, ops),
         keys # <<>>
  PROVE  \A i \in 1..Len(ops) :
           /\ DOMAIN TableEnv(d[s]) \cup NamesAt(l[i]) \subseteq DOMAIN e[i]
           /\ NamesAt(l[i]) # {} /\ Reads(e[i], NamesAt(l[i])) = ToSet(keys)
<1> DEFINE N == Len(ops)
           T == DOMAIN TableEnv(d[s])
           P(i) == /\ T \cup NamesAt(l[i]) \subseteq DOMAIN e[i]
                   /\ NamesAt(l[i]) # {} /\ Reads(e[i], NamesAt(l[i])) = ToSet(keys)
           Good == {i \in 0..N : i # 0 => P(i)}
<1>1. N \in Nat /\ N \in 4..6 /\ 1 \in 1..N
  BY DEF RowGiven
<1>2. ASSUME NEW i \in 1..N
      PROVE  /\ l[i] \in Seq(FieldSet(d)) /\ e[i] = AfterDepth(d[s], s, e[i - 1], ToSet(l[i]))
             /\ OneNameEach(l[i])
  <2>1. l[i] \in Seq(FieldSet(d)) /\ LevelNames(d, l[i], ops[i], i - 1)
    BY DEF RowLevels
  <2>2. DOMAIN l[i] = 1..Len(l[i])
    BY <2>1
  <2> QED BY <2>1, <2>2 DEF RowSteps, LevelNames, OneNameEach
<1>3. T # {}
  <2>1. 1 \in DOMAIN d[s].columns
    BY TableOf
  <2> QED BY <2>1, TableEnvOf
<1>4. keys \in Seq(ColumnName) /\ ToSet(keys) # {}
  <2>1. keys \in Seq(ColumnName)
    BY DEF RowGiven
  <2>2. 1 \in DOMAIN keys
    BY <2>1
  <2> QED BY <2>1, <2>2 DEF ToSet
<1> HIDE DEF N, T
<1>5. ASSUME NEW i \in 1..N, DOMAIN e[i - 1] # {}, T \subseteq DOMAIN e[i - 1],
             FieldsResolve(s, e[i - 1], ToSet(l[i])),
             Reads(e[i - 1], ArgumentsAt(l[i], s)) = ToSet(keys)
      PROVE  P(i)
  <2> DEFINE x == e[i - 1]
             y == l[i]
             m == AfterDepth(d[s], s, x, ToSet(y))
  <2>5. DOMAIN x # {} /\ FieldsResolve(s, x, ToSet(y)) /\ OneNameEach(y)
    BY <1>2, <1>5
  <2>1. DOMAIN m = NamesAt(y) \cup DOMAIN x /\ Reads(m, NamesAt(y)) = Reads(x, ArgumentsAt(y, s))
    <3> HIDE DEF x, y
    <3>1. Extends(AfterDepth(d[s], s, x, ToSet(y)), x, y, s)
      BY <2>5, LevelReads
    <3> QED BY <3>1 DEF Extends
  <2>2. e[i] = m
    BY <1>2
  <2> HIDE DEF m
  <2>3. T \cup NamesAt(y) \subseteq DOMAIN m /\ Reads(m, NamesAt(y)) = ToSet(keys)
    BY <1>5, <2>1
  <2>4. NamesAt(y) # {}
    <3>1. NamesAt(y) = {} => Reads(m, NamesAt(y)) = {}
      BY DEF Reads
    <3> QED BY <1>4, <2>3, <3>1
  <2> QED BY <2>2, <2>3, <2>4
<1> HIDE DEF P
<1>6. P(1)
  <2>1. l[1] = [j \in DOMAIN keys |-> BaseField(d, keys, j)]
    BY DEF RowLevels, LevelSteps
  <2>2. e[1 - 1] = TableEnv(d[s])
    BY DEF RowSteps
  <2>3. /\ FieldsResolve(s, TableEnv(d[s]), ToSet(l[1]))
        /\ Reads(TableEnv(d[s]), ArgumentsAt(l[1], s)) = ToSet(keys)
    BY <2>1, BaseLevel DEF RowGiven
  <2> QED BY <1>1, <1>3, <1>5, <2>2, <2>3 DEF T
<1>7. ASSUME NEW i \in 1..N, i - 1 \in Good PROVE i \in Good
  <2>1. CASE i = 1
    BY <1>1, <1>6, <2>1
  <2>2. CASE i # 1
    <3>1. i \in 2..N /\ i - 1 # 0 /\ i \in 0..N /\ i - 1 \in 1..N
      BY <1>1, <2>2
    <3>2. P(i - 1)
      BY <1>7, <3>1
    <3> DEFINE below == l[i - 1]
               previous == Aliases(below)
               x == e[i - 1]
    <3>3. T \cup NamesAt(below) \subseteq DOMAIN x /\ NamesAt(below) # {}
          /\ Reads(x, NamesAt(below)) = ToSet(keys)
      BY <3>2 DEF P
    <3>4. l[i] = LevelOf(d, ops[i], previous, i - 1)
      BY <3>1 DEF RowLevels, LevelSteps, N
    <3>5. below \in Seq(FieldSet(d))
      BY <1>2, <3>1
    <3> HIDE DEF below, x
    <3>6. previous \in Seq(Derived) /\ ToSet(previous) = NamesAt(below)
      BY <3>5, AliasesAre DEF NamesAt
    <3>7. previous # <<>>
      BY <3>3, <3>6, EmptyList
    <3> HIDE DEF previous
    <3>8. /\ \A j \in DOMAIN l[i] : l[i][j][s] # <<>>
          /\ ArgumentsAt(l[i], s) = NamesAt(below)
      <4> DEFINE L == LevelOf(d, ops[i], previous, i - 1)
      <4>1. TakesAll(L, s, previous)
        BY <3>6, <3>7, NextLevel
      <4>2. l[i] = L
        BY <3>4
      <4> HIDE DEF L
      <4> QED BY <3>6, <4>1, <4>2 DEF TakesAll
    <3>9. FieldsResolve(s, x, ToSet(l[i]))
      <4> SUFFICES ASSUME NEW f \in ToSet(l[i]) PROVE f[s] # <<>> /\ ToSet(f[s]) \subseteq DOMAIN x
        BY DEF FieldsResolve
      <4>1. PICK j \in DOMAIN l[i] : f = l[i][j]
        BY DEF ToSet
      <4>2. ToSet(l[i][j][s]) \subseteq ArgumentsAt(l[i], s)
        BY DEF ArgumentsAt
      <4> QED BY <3>3, <3>8, <4>1, <4>2
    <3>10. P(i)
      BY <1>5, <3>3, <3>8, <3>9 DEF x
    <3> QED BY <3>1, <3>10
  <2> QED BY <2>1, <2>2
<1>8. \A i \in 0..N : i \in Good
  <2>1. 0 \in Good
    BY <1>1
  <2>2. \A i \in 1..N : i - 1 \in Good => i \in Good
    BY <1>7
  <2> HIDE DEF Good
  <2> QED BY <1>1, <2>1, <2>2, UpTo
<1>9. \A i \in 1..N : P(i)
  BY <1>1, <1>8
<1> QED BY <1>9 DEF P, N, T

\* No operation is named like the mark of a name that is numbered.
LEMMA OperationsNamed ==
  ASSUME NEW method, NEW upper
  PROVE  \A i \in 1..Len(OrderOfOperations(method, upper)) :
           OrderOfOperations(method, upper)[i] # "dvt_calc_col"
<1> DEFINE a == <<"cast", "ifnull", "rstrip", "upper", "concat">>
           b == <<"cast", "ifnull", "rstrip", "concat">>
           Plain(s) == s \in Seq(Reserved) /\ \A i \in 1..Len(s) : s[i] # "dvt_calc_col"
<1>1. Plain(a) /\ Plain(b)
  <2>1. Len(a) = 5 /\ Len(b) = 4 /\ (\A i \in 1..5 : i \in {1, 2, 3, 4, 5})
        /\ \A i \in 1..4 : i \in {1, 2, 3, 4}
    OBVIOUS
  <2>2. \A i \in {1, 2, 3, 4, 5} : a[i] # "dvt_calc_col"
    OBVIOUS
  <2>3. \A i \in {1, 2, 3, 4} : b[i] # "dvt_calc_col"
    OBVIOUS
  <2>4. a \in Seq(Reserved) /\ b \in Seq(Reserved)
    <3>1. \A op \in {"cast", "ifnull", "rstrip", "upper", "concat"} : op \in Reserved
      BY DEF Reserved
    <3> QED BY <3>1
  <2> QED BY <2>1, <2>2, <2>3, <2>4
<1>2. ASSUME NEW s, Plain(s) PROVE Plain(Append(s, "hash"))
  <2> DEFINE h == "hash"
             w == Append(s, h)
  <2>1. h \in Reserved /\ h # "dvt_calc_col"
    BY DEF Reserved
  <2> HIDE DEF h
  <2>2. s \in Seq(Reserved) /\ Len(s) \in Nat
    BY <1>2
  <2>3. /\ w \in Seq(Reserved) /\ Len(w) = Len(s) + 1 /\ w[Len(s) + 1] = h
        /\ \A i \in 1..Len(s) : w[i] = s[i]
    BY <2>1, <2>2
  <2> HIDE DEF w
  <2>4. ASSUME NEW i \in 1..Len(w) PROVE w[i] # "dvt_calc_col"
    <3>1. i \in 1..Len(s) \/ i = Len(s) + 1
      BY <2>2, <2>3
    <3> QED BY <1>2, <2>1, <2>3, <3>1
  <2> QED BY <2>3, <2>4 DEF w, h
<1>3. OrderOfOperations(method, upper) \in {a, b, Append(a, "hash"), Append(b, "hash")}
  BY DEF OrderOfOperations
<1> HIDE DEF a, b, Plain
<1>4. Plain(OrderOfOperations(method, upper))
  BY <1>1, <1>2, <1>3
<1> QED BY <1>4 DEF Plain

\* A hash or a concatenation of no columns does not compile.
LEMMA EmptyRow ==
  ASSUME NEW d \in Databases, NEW keys, NEW method \in {"hash", "concat"}, NEW upper,
         RowGiven(d, keys, OrderOfOperations(method, upper)), NEW l, NEW fields,
         RowLevels(l, d, keys, OrderOfOperations(method, upper), fields), NEW s \in Sides, NEW e,
         RowSteps(e, l, d, s, OrderOfOperations(method, upper)), keys = <<>>
  PROVE  DOMAIN e[Len(OrderOfOperations(method, upper))] = {}
<1> DEFINE ops == OrderOfOperations(method, upper)
           N == Len(ops)
           n == IF method = "hash" THEN N - 1 ELSE N
           Good == {i \in 0..(n - 1) : i # 0 => l[i] = <<>>}
<1>1. /\ N \in 4..6 /\ n \in {4, 5} /\ ops[n] = "concat"
      /\ \A i \in 1..(n - 1) : ops[i] \notin {"concat", "hash"}
  BY OperationsAre
<1>2. /\ LevelSteps(l, d, keys, ops)
      /\ \A i \in 1..N : l[i] \in Seq(FieldSet(d))
      /\ \A i \in 1..N : e[i] = AfterDepth(d[s], s, e[i - 1], ToSet(l[i]))
  BY DEF RowLevels, RowSteps
<1> HIDE DEF ops, N
<1>3. n \in 1..N /\ n - 1 \in 1..N /\ n - 1 \in Nat /\ n \in 2..N
      /\ (n = N \/ (N = n + 1 /\ n + 1 \in 1..N))
  <2>1. n = N \/ n = N - 1
    OBVIOUS
  <2> HIDE DEF n
  <2> QED BY <1>1, <2>1
<1> HIDE DEF n
<1>4. \A x \in Seq(FieldSet(d)) : DOMAIN x = {} => x = <<>>
  OBVIOUS
<1>5. l[1] = <<>>
  <2>1. l[1] = [j \in DOMAIN keys |-> BaseField(d, keys, j)]
    BY <1>2 DEF LevelSteps
  <2>2. DOMAIN keys = {}
    OBVIOUS
  <2>3. DOMAIN l[1] = {}
    BY <2>1, <2>2
  <2>4. l[1] \in Seq(FieldSet(d))
    BY <1>1, <1>2
  <2> QED BY <1>4, <2>3, <2>4
<1>6. Aliases(<<>>) = <<>>
  <2>1. <<>> \in Seq(FieldSet(d)) /\ DOMAIN <<>> = {}
    OBVIOUS
  <2> DEFINE a == Aliases(<<>>)
  <2>2. a \in Seq(Derived) /\ ToSet(a) = {}
    <3> DEFINE x == <<>>
    <3>1. x \in Seq(FieldSet(d)) /\ DOMAIN x = {}
      BY <2>1
    <3> HIDE DEF x
    <3>2. Aliases(x) \in Seq(Derived) /\ ToSet(Aliases(x)) = {x[j].alias : j \in DOMAIN x}
      BY <3>1, AliasesAre
    <3>3. ToSet(Aliases(x)) = {}
      BY <3>1, <3>2
    <3> QED BY <3>2, <3>3 DEF x
  <2> HIDE DEF a
  <2>3. DOMAIN a = {}
    BY <2>2 DEF ToSet
  <2>4. a = <<>>
    BY <2>2, <2>3
  <2> QED BY <2>4 DEF a
<1>7. ASSUME NEW i \in 1..(n - 1), i - 1 \in Good PROVE i \in Good
  <2>1. CASE i = 1
    BY <1>1, <1>3, <1>5, <2>1
  <2>2. CASE i # 1
    <3>1. i \in 2..N /\ i \in 1..N /\ i - 1 # 0 /\ i \in 0..(n - 1)
      BY <1>1, <1>3, <2>2
    <3>2. l[i - 1] = <<>>
      BY <1>7, <3>1
    <3>3. l[i] = LevelOf(d, ops[i], <<>>, i - 1)
      BY <1>2, <1>6, <3>1, <3>2 DEF LevelSteps, N
    <3>4. DOMAIN LevelOf(d, ops[i], <<>>, i - 1) = {}
      BY <1>1 DEF LevelOf
    <3>5. l[i] \in Seq(FieldSet(d)) /\ DOMAIN l[i] = {}
      BY <1>2, <3>1, <3>3, <3>4
    <3>6. l[i] = <<>>
      BY <1>4, <3>5
    <3> QED BY <3>1, <3>6
  <2> QED BY <2>1, <2>2
<1>8. l[n - 1] = <<>>
  <2>1. n - 1 \in Nat /\ 0 \in Good
    BY <1>1, <1>3
  <2>2. \A i \in 1..(n - 1) : i - 1 \in Good => i \in Good
    BY <1>7
  <2>3. n - 1 \in Good
    <3> HIDE DEF Good
    <3>1. \A m \in Nat : 0 \in Good /\ (\A i \in 1..m : i - 1 \in Good => i \in Good) => m \in Good
      BY UpTo
    <3> QED BY <2>1, <2>2, <3>1
  <2> QED BY <1>1, <2>3
<1>9. e[n] = <<>>
  <2> DEFINE f == Field(<<>>, <<>>, ops[n], "none", <<ops[n], "all">>, n - 1)
  <2>1. l[n] = LevelOf(d, ops[n], <<>>, n - 1)
    BY <1>2, <1>3, <1>6, <1>8 DEF LevelSteps, N
  <2>2. l[n] = <<f>>
    BY <1>1, <2>1 DEF LevelOf
  <2>3. f[s] = <<>>
    BY SidesAre DEF Field
  <2> HIDE DEF f
  <2>4. f \in ToSet(<<f>>)
    BY DEF ToSet
  <2>5. ~FieldsResolve(s, e[n - 1], ToSet(<<f>>))
    BY <2>3, <2>4 DEF FieldsResolve
  <2>6. AfterDepth(d[s], s, e[n - 1], ToSet(<<f>>)) = <<>>
    BY <2>5 DEF AfterDepth
  <2> QED BY <1>2, <1>3, <2>2, <2>6
<1>10. CASE n = N
  BY <1>9, <1>10, NoTable DEF N, ops
<1>11. CASE N = n + 1 /\ n + 1 \in 1..N
  <2>1. (n + 1) - 1 = n
    BY <1>1
  <2>2. e[n + 1] = AfterDepth(d[s], s, <<>>, ToSet(l[n + 1]))
    BY <1>2, <1>9, <1>11, <2>1
  <2>3. e[n + 1] = <<>>
    BY <2>2, NoTable DEF AfterDepth
  <2> QED BY <1>11, <2>3, NoTable DEF N, ops
<1> QED BY <1>3, <1>10, <1>11

\* What a row's operation on the request makes of a side's table.
RowEnv(d, s, method, request, upper) ==
  CalculatedEnv(d[s], s, DependentAliases(d, method, request, upper))

\* In a table, the hash or the concatenation reads all the columns asked for of supported
\* types, if there are any; else there is no table.
RowReads(d, s, method, request, env) ==
  LET asked == SupportedOf(d, AskedKeys(d.source, request, FALSE))
  IN  /\ asked # {} => /\ DOMAIN TableEnv(d[s]) \cup {<<method, "all">>} \subseteq DOMAIN env
                       /\ env[<<method, "all">>].reads = asked
      /\ asked = {} => DOMAIN env = {}

\* It does so in the table that the query is compiled from.
LEMMA RowEnvIs ==
  ASSUME NEW d \in Databases, AlignedIn(d), NEW method \in {"hash", "concat"}, NEW upper,
         NEW request, ~DependentAliasesRaise(d, request), NEW s \in Sides
  PROVE  RowReads(d, s, method, request, RowEnv(d, s, method, request, upper))
<1> DEFINE keys == Keys(RowColumns(d, request).source)
           ops == OrderOfOperations(method, upper)
           N == Len(ops)
           fields == DependentAliases(d, method, request, upper)
           asked == SupportedOf(d, AskedKeys(d.source, request, FALSE))
           all == <<method, "all">>
<1>1. PICK l : LevelSteps(l, d, keys, ops) /\ fields = UNION {ToSet(l[i]) : i \in 1..Len(ops)}
  BY LevelsOf
<1>2. /\ keys \in Seq(ColumnName) /\ IsInjective(keys) /\ Len(keys) \in 0..Len(d.source.columns)
      /\ ToSet(keys) = asked
  BY RowKeysAre
<1>3. ToSet(keys) \subseteq KeysOf(d.source) /\ ToSet(keys) \subseteq KeysOf(d.target)
  BY RowKeys
<1>4. /\ ops \in Seq(Reserved) /\ N \in 4..6 /\ ops[1] = "cast" /\ ops[N] = method
  <2> DEFINE n == IF method = "hash" THEN N - 1 ELSE N
  <2>1. /\ ops \in Seq(Reserved) /\ N \in 4..6 /\ n \in {4, 5} /\ ops[1] = "cast"
        /\ ops[n] = "concat" /\ (method = "hash" => ops[n + 1] = "hash" /\ N = n + 1)
    BY OperationsAre
  <2> HIDE DEF ops
  <2>2. CASE method = "hash"
    BY <2>1, <2>2
  <2>3. CASE method = "concat"
    BY <2>1, <2>3
  <2> QED BY <2>1, <2>2, <2>3
<1>5. \A i \in 1..N : ops[i] # "dvt_calc_col"
  BY OperationsNamed
<1>6. RowGiven(d, keys, ops)
  <2> HIDE DEF keys, ops
  <2> QED BY <1>2, <1>3, <1>4, <1>5 DEF RowGiven
<1>7. \A f \in fields : f.depth \in Depths
  BY DependentAliasesAreGood DEF FieldSet, GoodField
<1>8. RowLevels(l, d, keys, ops, fields)
  <2> HIDE DEF keys, ops, fields
  <2> QED BY <1>1, <1>6, LevelsAt
<1>9. PICK e : RowSteps(e, l, d, s, ops) /\ CalculatedEnv(d[s], s, fields) = e[N]
  <2> HIDE DEF keys, ops, fields
  <2> QED BY <1>6, <1>7, <1>8, RowStepsOf
<1>10. RowEnv(d, s, method, request, upper) = e[N]
  BY <1>9 DEF RowEnv
<1>11. ASSUME asked = {} PROVE DOMAIN e[N] = {}
  <2>1. keys = <<>>
    <3> HIDE DEF keys, asked
    <3>1. DOMAIN keys = {}
      BY <1>2, <1>11 DEF ToSet
    <3> QED BY <1>2, <3>1
  <2> HIDE DEF keys, fields
  <2> QED BY <1>6, <1>8, <1>9, <2>1, EmptyRow
<1>12. ASSUME asked # {}
       PROVE  DOMAIN TableEnv(d[s]) \cup {all} \subseteq DOMAIN e[N] /\ e[N][all].reads = asked
  <2> HIDE DEF keys, ops, fields, asked
  <2>1. keys # <<>>
    BY <1>2, <1>12, EmptyList
  <2>2. N \in 1..N /\ N \in 2..N
    BY <1>4
  <2>3. /\ DOMAIN TableEnv(d[s]) \cup NamesAt(l[N]) \subseteq DOMAIN e[N]
        /\ Reads(e[N], NamesAt(l[N])) = ToSet(keys)
    BY <1>6, <1>8, <1>9, <2>1, <2>2, FullRow
  <2>4. NamesAt(l[N]) = {all}
    <3> DEFINE previous == Aliases(l[N - 1])
               f == Field(previous, previous, method, "none", all, N - 1)
    <3>1. l[N] = LevelOf(d, method, previous, N - 1)
      BY <1>1, <1>4, <2>2 DEF LevelSteps
    <3>2. LevelOf(d, method, previous, N - 1) = <<f>>
      BY DEF LevelOf
    <3>3. f.alias = all
      BY DEF Field
    <3> HIDE DEF f
    <3>4. NamesAt(<<f>>) = {f.alias}
      BY DEF NamesAt
    <3> QED BY <3>1, <3>2, <3>3, <3>4
  <2>5. Reads(e[N], {all}) = e[N][all].reads
    BY DEF Reads
  <2> QED BY <1>2, <2>3, <2>4, <2>5
<1> HIDE DEF keys, ops, fields
<1> QED BY <1>10, <1>11, <1>12 DEF RowReads

-----------------------------------------------------------------------------
(* The configurations of a row validation compare what was asked for.      *)

\* What the command splits the columns into.
Requests == IF Hashed THEN ColumnRequests ELSE << args.columns >>

Building == {"calculated fields", "primary keys", "comparison fields", "built"}

\* The hash or the concatenation of a configuration, unless it was asked for no columns.
RowMade(d, a, c) ==
  IF a.method \in {"hash", "concat"} /\ (c.columns.all \/ c.columns.list # <<>>)
    THEN /\ ~DependentAliasesRaise(d, c.columns)
         /\ c.calculated = DependentAliases(d, a.method, c.columns, a.upper)
         /\ c.comparison = ComparisonConfigs(d, << <<a.method, "all">> >>)
    ELSE c.calculated = {} /\ c.comparison = <<>>

\* The fields of --comparison-fields.
FieldsMade(d, a, keys, c) ==
  LET names == CompFields(d, a.columns, a.exclude, keys)
  IN  /\ c.calculated = IF OnTeradata(d) THEN RstripFields(d, names) ELSE {}
      /\ c.comparison = ComparisonConfigs(d, IF OnTeradata(d) THEN WithRstrip(d, names) ELSE names)

\* A configuration that is ready to be compiled.
RowBuilt(d, a, keys, c) ==
  /\ c.primary = ColumnConfigs(d, keys) /\ ~MissingColumn(d, keys)
  /\ c.groups = <<>> /\ c.aggregates = <<>> /\ c.comparison # <<>>
  /\ IF a.method \in {"hash", "concat"} THEN RowMade(d, a, c) ELSE FieldsMade(d, a, keys, c)

\* The configurations built, the one under construction and those to come are the requests.
Progress(requests) ==
  LET done == Len(managers)
      begun == IF stage \in Building THEN 1 ELSE 0
  IN  /\ done + begun + Len(pending) = Len(requests)
      /\ \A i \in 1..Len(pending) : pending[i] = requests[done + begun + i]
      /\ \A i \in 1..done : managers[i].columns = requests[i]
      /\ stage \in Building => config.columns = requests[done + 1]
      /\ stage = "validate" => pending = <<>>

\* The invariant of rows: how far each part of the configurations is, and why one may raise.
Compared ==
  Row =>
    /\ stage = "start" => managers = <<>>
    /\ stage # "aggregates"
    /\ stage \notin {"start", "raised"} =>
         Progress(Requests) /\ ~(Hashed /\ args.columns.all /\ args.exclude)
    /\ stage = "calculated fields" => config.calculated = {}
    /\ stage \in {"primary keys", "comparison fields"} => RowMade(db, args, config)
    /\ stage = "built" => RowBuilt(db, args, PrimaryKeys, config)
    /\ \A n \in DOMAIN managers : RowBuilt(db, args, PrimaryKeys, managers[n])
    /\ stage = "raised" /\ Aligned => ~WellFormed

CInv == NInv /\ Compared

\* Where the elements of the first of two lists are.
LEMMA FirstList ==
  ASSUME NEW S, NEW s \in Seq(S), NEW t \in Seq(S)
  PROVE  s \o t \in Seq(S) /\ \A i \in 1..Len(s) : (s \o t)[i] = s[i]
<1>1. s \o t \in Seq(S)
  OBVIOUS
<1>2. \A i \in 1..Len(s) : (s \o t)[i] = s[i]
  OBVIOUS
<1> QED BY <1>1, <1>2

\* The compared columns of a query read what their references do.
LEMMA ComparedReads ==
  ASSUME NEW d, NEW c \in ConfigSet(d), NEW side, NEW s, NEW i \in 1..Len(c.comparison)
  PROVE  Query(side, s, c)[i].expr.reads
           = CalculatedEnv(side, s, c.calculated)[c.comparison[i][s]].reads
<1> DEFINE env == CalculatedEnv(side, s, c.calculated)
           C == [j \in DOMAIN c.comparison |->
                  Output(c.comparison[j].alias, Cast(env[c.comparison[j][s]], c.comparison[j].cast))]
           P == [j \in DOMAIN c.primary |->
                  Output(c.primary[j].alias, KeyExpr(side, env, c.primary[j][s], c.primary[j].cast))]
           G == [j \in DOMAIN c.groups |->
                  Output(c.groups[j].alias, GroupExpr(side, env, c.groups[j][s], c.groups[j].cast))]
           A == [j \in DOMAIN c.aggregates |->
                  Output(c.aggregates[j].ref.alias,
                         AggregateExpr(env, c.aggregates[j], c.aggregates[j].ref[s]))]
           O == {C[j] : j \in DOMAIN C} \cup {P[j] : j \in DOMAIN P}
                  \cup {G[j] : j \in DOMAIN G} \cup {A[j] : j \in DOMAIN A}
           q == Query(side, s, c)
<1>1. q = ((C \o P) \o G) \o A
  BY DEF Query
<1>2. /\ c.comparison \in Seq(GoodRefs(d)) /\ c.primary \in Seq(GoodRefs(d))
      /\ c.groups \in Seq(GoodRefs(d)) /\ c.aggregates \in Seq(GoodAggregates(d))
  BY DEF ConfigSet
<1>3. \A K : \A r \in Seq(K) : DOMAIN r = 1..Len(r) /\ Len(r) \in Nat
  OBVIOUS
<1>4. /\ DOMAIN c.comparison = 1..Len(c.comparison) /\ Len(c.comparison) \in Nat
      /\ DOMAIN c.primary = 1..Len(c.primary) /\ Len(c.primary) \in Nat
      /\ DOMAIN c.groups = 1..Len(c.groups) /\ Len(c.groups) \in Nat
      /\ DOMAIN c.aggregates = 1..Len(c.aggregates) /\ Len(c.aggregates) \in Nat
  BY <1>2, <1>3
<1>5. C \in Seq(O) /\ P \in Seq(O) /\ G \in Seq(O) /\ A \in Seq(O) /\ Len(C) = Len(c.comparison)
  <2>1. C \in Seq(O) /\ Len(C) = Len(c.comparison)
    BY <1>4
  <2>2. P \in Seq(O)
    BY <1>4
  <2>3. G \in Seq(O)
    BY <1>4
  <2>4. A \in Seq(O)
    BY <1>4
  <2> QED BY <2>1, <2>2, <2>3, <2>4
<1>6. C[i].expr = Cast(env[c.comparison[i][s]], c.comparison[i].cast)
  BY <1>4 DEF Output
<1> HIDE DEF C, P, G, A, O, q, env
<1>7. q[i] = C[i]
  <2> DEFINE u == C \o P
             v == u \o G
  <2>1. u \in Seq(O) /\ \A j \in 1..Len(C) : u[j] = C[j]
    BY <1>5, FirstList
  <2>2. Len(u) >= Len(C) /\ Len(C) \in Nat /\ Len(u) \in Nat
    BY <1>5
  <2> HIDE DEF u
  <2>3. v \in Seq(O) /\ \A j \in 1..Len(u) : v[j] = u[j]
    BY <1>5, <2>1, FirstList
  <2>4. Len(v) >= Len(u) /\ Len(v) \in Nat
    BY <1>5, <2>1
  <2> HIDE DEF v
  <2>5. \A j \in 1..Len(v) : (v \o A)[j] = v[j]
    BY <1>5, <2>3, FirstList
  <2>6. i \in 1..Len(C) /\ i \in 1..Len(u) /\ i \in 1..Len(v)
    BY <1>5, <2>2, <2>4
  <2> QED BY <1>1, <2>1, <2>3, <2>5, <2>6 DEF u, v
<1>8. Cast(env[c.comparison[i][s]], c.comparison[i].cast).reads = env[c.comparison[i][s]].reads
  BY OneArgument
<1> QED BY <1>6, <1>7, <1>8 DEF q, env

\* The field that trims the column of a key.
Trimmed(d, key) ==
  Field(<<ColumnOf(d.source, key).name>>, <<ColumnOf(d.target, key).name>>,
        "rstrip", "none", <<"rstrip">> \o key, 0)

\* A name with a prefix.
LEMMA RstripName ==
  ASSUME NEW key \in ColumnName
  PROVE  /\ <<"rstrip">> \o key \in Derived /\ <<"rstrip">> \o key \notin ColumnName
         /\ \A other \in ColumnName : <<"rstrip">> \o key = <<"rstrip">> \o other => key = other
<1> DEFINE w == "rstrip"
           R(k) == <<w>> \o k
<1>1. w \in Reserved /\ w \in Parts
  BY DEF Reserved, Parts, Words
<1> HIDE DEF w
<1>2. \A k \in ColumnName : k \in Seq(Parts)
  BY ColumnNames
<1>3. ASSUME NEW k \in Seq(Parts) PROVE R(k) \in Seq(Parts) /\ R(k)[1] = w /\ Tail(R(k)) = k /\ R(k) # <<>>
  <2>1. R(k) \in Seq(Parts) /\ R(k)[1] = w /\ R(k) # <<>>
    BY <1>1, <1>3
  <2>2. Tail(R(k)) = k
    BY <1>1, <1>3, SMT
  <2> QED BY <2>1, <2>2
<1> HIDE DEF R
<1>4. R(key) \in Derived /\ R(key) \notin ColumnName
  BY <1>1, <1>2, <1>3 DEF Derived, ColumnName
<1>5. \A other \in ColumnName : R(key) = R(other) => key = other
  BY <1>2, <1>3
<1> QED BY <1>4, <1>5 DEF R, w

\* A name reads one column.
ReadsOne(env, name, key) == name \in DOMAIN env /\ env[name].reads = {key}

\* A table that has a side's columns and trimmed ones.
TrimmedReads(d, s, K, env) ==
  /\ DOMAIN TableEnv(d[s]) \subseteq DOMAIN env /\ DOMAIN env # {}
  /\ \A k \in KeysOf(d[s]) : env[ColumnOf(d[s], k).name].reads = {k}
  /\ \A k \in K : ReadsOne(env, <<"rstrip">> \o k, k)

\* The fields that trim columns make such a table.
LEMMA TrimmedEnv ==
  ASSUME NEW d \in Databases, NEW s \in Sides, NEW K, K \subseteq KeysOf(d.source),
         K \subseteq KeysOf(d.target), NEW fields, fields = {Trimmed(d, k) : k \in K}
  PROVE  TrimmedReads(d, s, K, CalculatedEnv(d[s], s, fields))
<1> DEFINE T == TableEnv(d[s])
           env == CalculatedEnv(d[s], s, fields)
           Name(k) == ColumnOf(d[s], k).name
           R(k) == <<"rstrip">> \o k
<1>1. \A f \in fields : f.depth = 0 /\ f.depth \in Depths
  BY DEF Trimmed, Field, Depths
<1>2. PICK e : EnvSteps(e, d[s], s, fields)
  BY <1>1, EnvOf
<1>3. DepthLimit(fields) = 0
  <2> DEFINE S == {0} \cup {f.depth : f \in fields}
  <2>1. S = {0}
    BY <1>1
  <2> HIDE DEF S
  <2>2. S \in SUBSET (0..0) /\ S # {}
    BY <2>1
  <2>3. Max(S) \in S
    BY <2>2, LargestNumber
  <2> QED BY <2>1, <2>3 DEF DepthLimit, S
<1>4. env = AfterDepth(d[s], s, T, fields)
  <2>1. AtDepth(fields, 0) = fields
    BY <1>1 DEF AtDepth
  <2>2. 0 \in 0..DepthLimit(fields)
    BY <1>3
  <2>3. e[0 + 1] = AfterDepth(d[s], s, e[0], AtDepth(fields, 0))
    BY <1>2, <2>2 DEF EnvSteps
  <2>4. e[0] = T /\ env = e[0 + 1]
    BY <1>2, <1>3 DEF EnvSteps
  <2> QED BY <2>1, <2>3, <2>4
<1>5. K \subseteq ColumnName
  BY KeysAre, SidesAre
<1>6. ASSUME NEW k \in KeysOf(d[s])
      PROVE  Name(k) \in DOMAIN T /\ T[Name(k)].reads = {k} /\ Name(k) \in ColumnName
  <2>1. PICK i \in DOMAIN d[s].columns : ColumnOf(d[s], k) = d[s].columns[i] /\ d[s].columns[i].key = k
    <3>1. Has(d[s], k)
      BY KeysAre
    <3> QED BY <3>1, ColumnOfKey
  <2> DEFINE n == d[s].columns[i].name
  <2>2. n \in ColumnName
    BY TableOf
  <2>3. n \in DOMAIN TableEnv(d[s]) /\ TableEnv(d[s])[n] = Column(d[s].columns[i].key)
    BY TableEnvOf
  <2>4. Name(k) = n
    BY <2>1
  <2>5. Column(k).reads = {k}
    BY DEF Column
  <2> HIDE DEF n, Name
  <2> QED BY <2>1, <2>2, <2>3, <2>4, <2>5
<1>7. ASSUME NEW k \in K PROVE Trimmed(d, k)[s] = <<Name(k)>> /\ Trimmed(d, k).alias = R(k)
  BY SidesAre DEF Trimmed, Field
<1>8. \A k \in K : k \in KeysOf(d[s])
  BY SidesAre
<1>9. \A x : ToSet(<<x>>) = {x} /\ <<x>> # <<>>
  BY DEF ToSet
<1> HIDE DEF T, Name, R, env
<1>10. FieldsResolve(s, T, fields)
  <2> SUFFICES ASSUME NEW f \in fields PROVE f[s] # <<>> /\ ToSet(f[s]) \subseteq DOMAIN T
    BY DEF FieldsResolve
  <2>1. PICK k \in K : f = Trimmed(d, k)
    OBVIOUS
  <2> DEFINE x == Name(k)
  <2>2. f[s] = <<x>> /\ x \in DOMAIN T
    BY <1>6, <1>7, <1>8, <2>1
  <2> HIDE DEF x
  <2> QED BY <1>9, <2>2
<1>11. DOMAIN T # {}
  <2>1. 1 \in DOMAIN d[s].columns
    BY TableOf
  <2> QED BY <2>1, TableEnvOf DEF T
<1> DEFINE new == {f.alias : f \in fields}
           named(a) == CHOOSE f \in fields : f.alias = a
<1>12. env = [a \in new \cup DOMAIN T |->
                IF a \in new THEN CalcExpr(d[s], T, named(a), named(a)[s]) ELSE T[a]]
  BY <1>4, <1>10, <1>11 DEF AfterDepth, Mutate
<1>13. new = {R(k) : k \in K}
  BY <1>7
<1>14. ASSUME NEW k \in K PROVE R(k) \in DOMAIN env /\ env[R(k)].reads = {k}
  <2> DEFINE f == named(R(k))
             x == Name(k)
  <2>1. R(k) \in new
    BY <1>13
  <2>2. f \in fields /\ f.alias = R(k)
    BY <2>1
  <2>3. f = Trimmed(d, k)
    <3>1. PICK other \in K : f = Trimmed(d, other)
      BY <2>2
    <3>2. R(other) = R(k)
      BY <1>7, <2>2, <3>1
    <3>3. other = k
      BY <1>5, <3>2, RstripName DEF R
    <3> QED BY <3>1, <3>3
  <2>4. env[R(k)] = CalcExpr(d[s], T, f, f[s])
    BY <1>12, <2>1
  <2>5. f[s] = <<x>>
    BY <1>7, <2>3
  <2> HIDE DEF f, x
  <2>6. env[R(k)].reads = Reads(T, {x})
    BY <1>9, <2>4, <2>5, CalcReads
  <2>7. T[x].reads = {k}
    BY <1>6, <1>8 DEF x
  <2> QED BY <1>12, <2>1, <2>6, <2>7, SMTT(30) DEF Reads
<1>15. ASSUME NEW k \in KeysOf(d[s]) PROVE env[Name(k)].reads = {k}
  <2>1. Name(k) \notin new
    <3>1. \A l \in K : R(l) \notin ColumnName
      BY <1>5, RstripName DEF R
    <3> QED BY <1>6, <1>13, <3>1
  <2> HIDE DEF new
  <2>2. env[Name(k)] = T[Name(k)]
    BY <1>6, <1>12, <2>1
  <2> QED BY <1>6, <2>2
<1>16. DOMAIN T \subseteq DOMAIN env /\ DOMAIN env # {}
  BY <1>11, <1>12
<1> QED BY <1>14, <1>15, <1>16 DEF T, Name, R, env, TrimmedReads, ReadsOne

\* All references of a configuration.
LEMMA ReferencesAre ==
  ASSUME NEW d, NEW c \in ConfigSet(d)
  PROVE  ToSet(References(c)) = ToSet(c.comparison) \cup ToSet(c.primary) \cup ToSet(c.groups)
                                  \cup ToSet(AggRefs(c.aggregates))
<1> DEFINE aggs == AggRefs(c.aggregates)
           refs == References(c)
<1>1. \A r \in GoodRefs(d) : r \in Refs
  BY DEF GoodRefs
<1>2. /\ c.comparison \in Seq(GoodRefs(d)) /\ c.primary \in Seq(GoodRefs(d))
      /\ c.groups \in Seq(GoodRefs(d)) /\ c.aggregates \in Seq(GoodAggregates(d))
  BY DEF ConfigSet
<1>3. /\ c.comparison \in Seq(Refs) /\ c.primary \in Seq(Refs) /\ c.groups \in Seq(Refs)
  BY <1>1, <1>2
<1>4. aggs \in Seq(Refs)
  <2> DEFINE a == c.aggregates
  <2>1. \A g \in GoodAggregates(d) : g.ref \in Refs
    BY DEF GoodAggregates
  <2>2. a \in Seq(GoodAggregates(d))
    BY <1>2
  <2> HIDE DEF a
  <2>3. [i \in DOMAIN a |-> a[i].ref] \in Seq(Refs)
    BY <2>1, <2>2
  <2> QED BY <2>3 DEF AggRefs, a
<1>5. refs = ((c.comparison \o c.primary) \o c.groups) \o aggs
  BY DEF References, AggRefs
<1> HIDE DEF refs, aggs
<1> DEFINE u == c.comparison \o c.primary
<1>6. u \in Seq(Refs) /\ ToSet(u) = ToSet(c.comparison) \cup ToSet(c.primary)
  BY <1>3, ConcatElements
<1> HIDE DEF u
<1> DEFINE v == u \o c.groups
<1>7. v \in Seq(Refs) /\ ToSet(v) = ToSet(u) \cup ToSet(c.groups)
  BY <1>3, <1>6, ConcatElements
<1> HIDE DEF v
<1>8. ToSet(v \o aggs) = ToSet(v) \cup ToSet(aggs)
  BY <1>4, <1>7, ConcatElements
<1> QED BY <1>5, <1>6, <1>7, <1>8 DEF u, v, refs, aggs

\* A configuration of compared fields and primary keys compiles if the names it compares are
\* in the table.
LEMMA BuiltCompiles ==
  ASSUME NEW d \in Databases, NEW c \in ConfigSet(d), c.groups = <<>>, c.aggregates = <<>>,
         NEW keys, c.primary = ColumnConfigs(d, keys), ~MissingColumn(d, keys), NEW s \in Sides,
         DOMAIN TableEnv(d[s]) \subseteq DOMAIN CalculatedEnv(d[s], s, c.calculated),
         \A i \in DOMAIN c.comparison :
           c.comparison[i][s] \in DOMAIN CalculatedEnv(d[s], s, c.calculated)
  PROVE  Compiles(d[s], s, c)
<1> DEFINE env == CalculatedEnv(d[s], s, c.calculated)
           refs == References(c)
<1>1. ToSet(refs) = ToSet(c.comparison) \cup ToSet(c.primary)
  <2>1. ToSet(c.groups) = {} /\ ToSet(AggRefs(c.aggregates)) = {}
    BY EmptyList DEF AggRefs, ToSet
  <2> QED BY <2>1, ReferencesAre
<1>2. ASSUME NEW i \in DOMAIN c.primary PROVE c.primary[i][s] \in DOMAIN env
  <2>1. i \in DOMAIN keys /\ c.primary[i][s] = ColumnOf(d[s], keys[i]).name
    BY SidesAre DEF ColumnConfigs, Reference
  <2>2. Has(d[s], keys[i])
    BY <2>1, SidesAre DEF MissingColumn
  <2>3. PICK j \in DOMAIN d[s].columns : ColumnOf(d[s], keys[i]) = d[s].columns[j]
    BY <2>2, ColumnOfKey
  <2>4. d[s].columns[j].name \in DOMAIN TableEnv(d[s])
    BY TableEnvOf
  <2> QED BY <2>1, <2>3, <2>4
<1>3. DOMAIN env # {}
  <2>1. 1 \in DOMAIN d[s].columns
    BY TableOf
  <2>2. d[s].columns[1].name \in DOMAIN TableEnv(d[s])
    BY <2>1, TableEnvOf
  <2> QED BY <2>2
<1> HIDE DEF env, refs
<1>4. \A r \in ToSet(refs) : r[s] \in DOMAIN env
  BY <1>1, <1>2 DEF ToSet, env
<1>5. \A i \in DOMAIN refs : refs[i][s] \in DOMAIN env
  BY <1>4 DEF ToSet
<1> QED BY <1>3, <1>5 DEF Compiles, env, refs

\* What the source's query of a configuration reads in the columns it compares.
ReadBy(d, c) == UNION {Query(d.source, "source", c)[i].expr.reads : i \in 1..Len(c.comparison)}

\* It is what its references read.
LEMMA ReadByRefs ==
  ASSUME NEW d, NEW c \in ConfigSet(d)
  PROVE  ReadBy(d, c) = UNION {CalculatedEnv(d.source, "source", c.calculated)
                                 [c.comparison[i].source].reads : i \in 1..Len(c.comparison)}
<1>1. \A i \in 1..Len(c.comparison) :
        Query(d.source, "source", c)[i].expr.reads
          = CalculatedEnv(d.source, "source", c.calculated)[c.comparison[i]["source"]].reads
  BY ComparedReads
<1> QED BY <1>1 DEF ReadBy

\* A name that is no key of a table stands for itself, and a key for its column.
LEMMA NamesStand ==
  ASSUME NEW d \in Databases, NEW s \in Sides
  PROVE  /\ \A k \in KeysOf(d[s]) : NameIn(d[s], k) = ColumnOf(d[s], k).name
         /\ \A n : n \notin ColumnName => NameIn(d[s], n) = n
<1>1. \A key : key \in KeysOf(d[s]) <=> Has(d[s], key)
  BY KeysAre
<1>2. KeysOf(d[s]) \subseteq ColumnName
  BY KeysAre
<1> QED BY <1>1, <1>2 DEF NameIn

\* What a configuration is to compare.
AskedOf(c) ==
  IF Hashed THEN SupportedOf(db, AskedKeys(db.source, c.columns, FALSE))
            ELSE SupportedOf(db, AskedKeys(db.source, args.columns, args.exclude)) \ ToSet(PrimaryKeys)

\* A hash or a concatenation compiles if there are columns to read, and only then, and it
\* reads all of them.
LEMMA HashReads ==
  ASSUME Given, Aligned, Hashed, NEW c \in ConfigSet(db), RowBuilt(db, args, PrimaryKeys, c)
  PROVE  /\ AskedOf(c) # {} => \A s \in Sides : Compiles(db[s], s, c)
         /\ Compiles(db["source"], "source", c) => ReadBy(db, c) = AskedOf(c)
<1> DEFINE all == <<args.method, "all">>
           asked == SupportedOf(db, AskedKeys(db.source, c.columns, FALSE))
           Env(s) == CalculatedEnv(db[s], s, c.calculated)
<1>1. /\ c.primary = ColumnConfigs(db, PrimaryKeys) /\ ~MissingColumn(db, PrimaryKeys)
      /\ c.groups = <<>> /\ c.aggregates = <<>> /\ ~DependentAliasesRaise(db, c.columns)
      /\ c.calculated = DependentAliases(db, args.method, c.columns, args.upper)
      /\ c.comparison = ComparisonConfigs(db, <<all>>)
  BY DEF RowBuilt, RowMade, Hashed
<1>2. db \in Databases /\ AlignedIn(db) /\ args.method \in {"hash", "concat"}
  BY DEF Given, Aligned, AlignedIn, Hashed
<1>3. all \notin ColumnName
  <2>1. args.method \in Reserved
    BY <1>2 DEF Reserved
  <2> QED BY <2>1 DEF ColumnName
<1>4. \A s \in Sides : NameIn(db[s], all) = all
  BY <1>2, <1>3, NamesStand
<1>5. /\ Len(c.comparison) = 1 /\ DOMAIN c.comparison = {1}
      /\ \A s \in Sides : c.comparison[1][s] = all
  <2> HIDE DEF all
  <2>1. DOMAIN <<all>> = {1} /\ <<all>>[1] = all
    OBVIOUS
  <2>2. c.comparison = [i \in {1} |-> Reference(NameIn(db.source, all), NameIn(db.target, all),
                                                all, CompFieldCast(db, all))]
    BY <1>1, <2>1 DEF ComparisonConfigs
  <2>3. c.comparison[1].source = all /\ c.comparison[1].target = all
    BY <1>4, <2>2, SidesAre DEF Reference
  <2>4. DOMAIN c.comparison = 1..1
    BY <2>2
  <2>5. c.comparison \in Seq(GoodRefs(db))
    BY DEF ConfigSet
  <2>6. Len(c.comparison) = 1
    <3> DEFINE x == c.comparison
    <3>0. DOMAIN x = 1..1 /\ x \in Seq(GoodRefs(db))
      BY <2>4, <2>5
    <3>7. \A K : \A r \in Seq(K) : DOMAIN r = 1..Len(r) /\ Len(r) \in Nat
      OBVIOUS
    <3> HIDE DEF x
    <3>8. DOMAIN x = 1..Len(x) /\ Len(x) \in Nat
      BY <3>0, <3>7
    <3>1. DOMAIN x = 1..1 /\ DOMAIN x = 1..Len(x) /\ Len(x) \in Nat
      BY <3>0, <3>8
    <3>2. 1..Len(x) = 1..1
      BY <3>1
    <3>3. 1 \in 1..Len(x) /\ (Len(x) # 0 => Len(x) \in 1..1)
      BY <3>1, <3>2
    <3>4. Len(x) = 1
      BY <3>1, <3>3
    <3> QED BY <3>4 DEF x
  <2> QED BY <2>2, <2>3, <2>6, SidesAre
<1>6. ASSUME NEW s \in Sides
      PROVE  /\ asked # {} => DOMAIN TableEnv(db[s]) \cup {all} \subseteq DOMAIN Env(s)
                              /\ Env(s)[all].reads = asked
             /\ asked = {} => DOMAIN Env(s) = {}
  <2> DEFINE method == args.method
             upper == args.upper
             request == c.columns
             env == RowEnv(db, s, method, request, upper)
  <2>1. Env(s) = env
    BY <1>1 DEF RowEnv
  <2>2. method \in {"hash", "concat"} /\ ~DependentAliasesRaise(db, request)
    BY <1>1, <1>2
  <2>3. asked = SupportedOf(db, AskedKeys(db.source, request, FALSE)) /\ all = <<method, "all">>
    OBVIOUS
  <2> HIDE DEF Env, method, upper, request, asked, all
  <2>4. RowReads(db, s, method, request, env)
    BY <1>2, <2>2, RowEnvIs
  <2> HIDE DEF env
  <2> QED BY <2>1, <2>3, <2>4 DEF RowReads
<1>7. AskedOf(c) = asked
  BY DEF AskedOf
<1> HIDE DEF asked, all
<1>8. ASSUME asked # {}, NEW s \in Sides PROVE Compiles(db[s], s, c)
  <2>1. DOMAIN TableEnv(db[s]) \subseteq DOMAIN Env(s) /\ all \in DOMAIN Env(s)
    BY <1>6, <1>8
  <2>2. \A i \in DOMAIN c.comparison : c.comparison[i][s] \in DOMAIN Env(s)
    BY <1>5, <2>1
  <2> QED BY <1>1, <1>2, <2>1, <2>2, BuiltCompiles
<1>9. ASSUME Compiles(db["source"], "source", c) PROVE ReadBy(db, c) = asked
  <2>1. DOMAIN Env("source") # {}
    BY <1>9 DEF Compiles
  <2>2. Env("source")[all].reads = asked
    BY <1>6, <2>1, SidesAre
  <2>3. c.comparison[1].source = all
    BY <1>5, SidesAre
  <2>4. ReadBy(db, c) = UNION {Env("source")[c.comparison[i].source].reads : i \in 1..1}
    BY <1>5, ReadByRefs
  <2>5. \A i \in 1..1 : i = 1
    OBVIOUS
  <2> HIDE DEF Env
  <2> QED BY <2>2, <2>3, <2>4, <2>5
<1> QED BY <1>7, <1>8, <1>9

\* If the columns come in the same order, both tables have the same keys.
LEMMA SameKeysOfSides == Aligned => KeysOf(db.target) = KeysOf(db.source) /\ SourceKeys = KeysOf(db.source)
BY DEF Aligned, KeysOf, SourceKeys

\* What a name stands for is in a table that has the columns of the side.
LEMMA NameInTable ==
  ASSUME NEW d \in Databases, NEW s \in Sides, NEW k \in KeysOf(d[s])
  PROVE  NameIn(d[s], k) = ColumnOf(d[s], k).name /\ NameIn(d[s], k) \in DOMAIN TableEnv(d[s])
<1>1. NameIn(d[s], k) = ColumnOf(d[s], k).name
  BY NamesStand
<1>2. PICK i \in DOMAIN d[s].columns : ColumnOf(d[s], k) = d[s].columns[i]
  <2>1. Has(d[s], k)
    BY KeysAre
  <2> QED BY <2>1, ColumnOfKey
<1>3. d[s].columns[i].name \in DOMAIN TableEnv(d[s])
  BY TableEnvOf
<1> QED BY <1>1, <1>2, <1>3

\* The names of compared fields read their columns, with the padding or without.
LEMMA FieldReads ==
  ASSUME NEW d \in Databases, NEW s \in Sides, NEW K, K \subseteq KeysOf(d.source),
         K \subseteq KeysOf(d.target), NEW fields, fields = {Trimmed(d, k) : k \in K},
         NEW key \in KeysOf(d[s]), NEW name,
         name = IF key \in K THEN <<"rstrip">> \o key ELSE key
  PROVE  ReadsOne(CalculatedEnv(d[s], s, fields), NameIn(d[s], name), key)
<1> DEFINE env == CalculatedEnv(d[s], s, fields)
<1>6. TrimmedReads(d, s, K, CalculatedEnv(d[s], s, fields))
  BY TrimmedEnv
<1>1. /\ DOMAIN TableEnv(d[s]) \subseteq DOMAIN env
      /\ \A k \in KeysOf(d[s]) : env[ColumnOf(d[s], k).name].reads = {k}
      /\ \A k \in K : ReadsOne(env, <<"rstrip">> \o k, k)
  BY <1>6 DEF TrimmedReads
<1>2. key \in ColumnName
  BY KeysAre
<1> HIDE DEF env
<1>5. SUFFICES ReadsOne(env, NameIn(d[s], name), key)
  BY DEF env
<1>3. CASE key \in K
  <2>1. name = <<"rstrip">> \o key /\ name \notin ColumnName
    BY <1>2, <1>3, RstripName
  <2>2. NameIn(d[s], name) = name
    BY <2>1, NamesStand
  <2> QED BY <1>1, <1>3, <2>1, <2>2
<1>4. CASE key \notin K
  <2>1. NameIn(d[s], name) = ColumnOf(d[s], key).name /\ NameIn(d[s], name) \in DOMAIN TableEnv(d[s])
    BY <1>4, NameInTable
  <2> QED BY <1>1, <2>1 DEF ReadsOne
<1> QED BY <1>3, <1>4

\* Compared fields compile, and read all columns they are to compare.
LEMMA FieldsReads ==
  ASSUME Given, Aligned, ~Hashed, NEW c \in ConfigSet(db), RowBuilt(db, args, PrimaryKeys, c)
  PROVE  (\A s \in Sides : Compiles(db[s], s, c)) /\ ReadBy(db, c) = AskedOf(c)
<1> DEFINE names == CompFields(db, args.columns, args.exclude, PrimaryKeys)
           K == IF OnTeradata(db) THEN {x \in ToSet(names) : Padded(db, x)} ELSE {}
           compared == IF OnTeradata(db) THEN WithRstrip(db, names) ELSE names
           Env(s) == CalculatedEnv(db[s], s, c.calculated)
<1>1. /\ c.primary = ColumnConfigs(db, PrimaryKeys) /\ ~MissingColumn(db, PrimaryKeys)
      /\ c.groups = <<>> /\ c.aggregates = <<>>
      /\ c.calculated = IF OnTeradata(db) THEN RstripFields(db, names) ELSE {}
      /\ c.comparison = ComparisonConfigs(db, compared)
  BY DEF RowBuilt, FieldsMade, Hashed
<1>2. db \in Databases
  BY DEF Given
<1>3. names \in Seq(ColumnName) /\ ToSet(names) \subseteq KeysOf(db.source)
  BY <1>2, CompFieldKeys
<1>4. ToSet(names) \subseteq KeysOf(db.target)
  BY <1>3, SameKeysOfSides
<1>5. ToSet(names) = AskedOf(c)
  BY <1>2, CompFieldsAre DEF AskedOf, CompFieldsOf
<1>6. c.calculated = {Trimmed(db, k) : k \in K}
  BY <1>1 DEF RstripFields, Trimmed
<1>7. DOMAIN names = 1..Len(names) /\ Len(names) \in Nat
  BY <1>3
<1>8. /\ DOMAIN compared = DOMAIN names
      /\ \A i \in DOMAIN names :
           compared[i] = IF names[i] \in K THEN <<"rstrip">> \o names[i] ELSE names[i]
  <2>1. \A i \in DOMAIN names : names[i] \in ToSet(names)
    BY DEF ToSet
  <2> HIDE DEF names
  <2> QED BY <2>1 DEF WithRstrip
<1> HIDE DEF names, compared
<1>9. K \subseteq KeysOf(db.source) /\ K \subseteq KeysOf(db.target)
  BY <1>3, <1>4
<1>10. ASSUME NEW s \in Sides, NEW i \in DOMAIN names
       PROVE  ReadsOne(Env(s), c.comparison[i][s], names[i])
  <2> DEFINE n == compared[i]
             fields == c.calculated
             key == names[i]
  <2>1. c.comparison[i][s] = NameIn(db[s], n)
    BY <1>1, <1>8, SidesAre DEF ComparisonConfigs, Reference
  <2>2. names[i] \in KeysOf(db[s])
    BY <1>3, <1>4, SidesAre DEF ToSet
  <2>3. n = IF key \in K THEN <<"rstrip">> \o key ELSE key
    BY <1>8
  <2>4. fields = {Trimmed(db, k) : k \in K}
    BY <1>6
  <2> HIDE DEF K, n, fields, key
  <2>5. key \in KeysOf(db[s])
    BY <2>2 DEF key
  <2>6. ReadsOne(CalculatedEnv(db[s], s, fields), NameIn(db[s], n), key)
    BY <1>2, <1>9, <2>3, <2>4, <2>5, FieldReads
  <2> QED BY <2>1, <2>6 DEF fields, key
<1>11. DOMAIN c.comparison = DOMAIN names /\ Len(c.comparison) = Len(names)
  BY <1>1, <1>7, <1>8 DEF ComparisonConfigs
<1>12. ASSUME NEW s \in Sides PROVE Compiles(db[s], s, c)
  <2> DEFINE fields == c.calculated
  <2>1. DOMAIN TableEnv(db[s]) \subseteq DOMAIN Env(s)
    <3>1. fields = {Trimmed(db, k) : k \in K}
      BY <1>6
    <3> HIDE DEF fields, K
    <3>2. DOMAIN TableEnv(db[s]) \subseteq DOMAIN CalculatedEnv(db[s], s, fields)
      BY <1>2, <1>9, <3>1, TrimmedEnv DEF TrimmedReads
    <3> QED BY <3>2 DEF fields
  <2>2. \A i \in DOMAIN c.comparison : c.comparison[i][s] \in DOMAIN Env(s)
    BY <1>10, <1>11 DEF ReadsOne
  <2> QED BY <1>1, <1>2, <2>1, <2>2, BuiltCompiles
<1>13. ReadBy(db, c) = ToSet(names)
  <2>1. \A i \in 1..Len(c.comparison) : Env("source")[c.comparison[i].source].reads = {names[i]}
    BY <1>7, <1>10, <1>11, SidesAre DEF ReadsOne
  <2>2. ReadBy(db, c) = UNION {Env("source")[c.comparison[i].source].reads : i \in 1..Len(c.comparison)}
    BY ReadByRefs
  <2> DEFINE S == 1..Len(c.comparison)
             Q(i) == Env("source")[c.comparison[i].source].reads
  <2>3. (\A i \in S : Q(i) = {names[i]}) /\ ReadBy(db, c) = UNION {Q(i) : i \in S}
    BY <2>1, <2>2
  <2> HIDE DEF Q, S
  <2>4. UNION {Q(i) : i \in S} = {names[i] : i \in S}
    BY <2>3
  <2> QED BY <1>7, <1>11, <2>3, <2>4 DEF ToSet, S
<1> QED BY <1>5, <1>12, <1>13

\* The number of the piece that holds the p-th element of a list.
PieceOf(m, p) == (p - 1) \div m + 1

\* The elements of the n-th piece.
PieceOfList(r, m, n) == {r[p] : p \in {q \in 1..Len(r) : PieceOf(m, q) = n}}

\* The elements of a piece of a list are those with its number, and there are some.
LEMMA PieceHolds ==
  ASSUME NEW K, NEW r \in Seq(K), NEW m \in Nat \ {0},
         NEW n \in 1..((Len(r) + m - 1) \div m)
  PROVE  /\ Sublists(r, m)[n] \in Seq(K) /\ Sublists(r, m)[n] # <<>>
         /\ ToSet(Sublists(r, m)[n]) = PieceOfList(r, m, n)
<1> DEFINE x == n * m
           last == Min({x, Len(r)})
           first == (n - 1) * m + 1
           sub == SubSeq(r, first, last)
<1>1. Sublists(r, m)[n] = sub
  BY DEF Sublists
<1>2. /\ Len(r) \in Nat /\ n \in Nat \ {0} /\ x = (n - 1) * m + m /\ (n - 1) * m \in Nat
      /\ first <= Len(r) /\ first \in Nat \ {0}
  <2>1. Len(r) \in Nat /\ (Len(r) + m - 1) \div m \in Nat
    BY NumberOfSublists
  <2>2. first <= Len(r)
    BY <2>1, NumberOfSublists
  <2>3. n \in Nat \ {0} /\ (n - 1) * m \in Nat
    BY <2>1
  <2> QED BY <2>1, <2>2, <2>3
<1>3. last \in {x, Len(r)} /\ last <= x /\ last <= Len(r)
  <2> DEFINE y == Len(r)
  <2>1. x \in Nat /\ y \in Nat
    BY <1>2
  <2> HIDE DEF x, y
  <2>2. Min({x, y}) \in {x, y}
    BY <2>1, MinIs
  <2>3. \E z \in {x, y} : \A w \in {x, y} : z <= w
    BY <2>1
  <2>4. Min({x, y}) <= x /\ Min({x, y}) <= y
    BY <2>3 DEF Min
  <2> QED BY <2>2, <2>4 DEF y
<1> HIDE DEF x, last, first
<1>4. first <= last /\ last \in Nat
  BY <1>2, <1>3 DEF first
<1>5. /\ sub \in Seq(K) /\ Len(sub) = last - first + 1
      /\ \A j \in 1..Len(sub) : sub[j] = r[first + j - 1]
  BY <1>2, <1>3, <1>4
<1> HIDE DEF sub
<1>6. sub # <<>>
  BY <1>2, <1>4, <1>5
<1>7. ToSet(sub) = {r[p] : p \in first..last}
  <2>4. \A s \in Seq(K) : ToSet(s) = {s[j] : j \in 1..Len(s)}
    BY DEF ToSet
  <2>1. ToSet(sub) = {sub[j] : j \in 1..Len(sub)}
    BY <1>5, <2>4
  <2>2. ASSUME NEW j \in 1..Len(sub) PROVE first + j - 1 \in first..last
    BY <1>2, <1>4, <1>5
  <2>3. ASSUME NEW p \in first..last PROVE p - first + 1 \in 1..Len(sub) /\ sub[p - first + 1] = r[p]
    <3>1. p - first + 1 \in 1..Len(sub)
      BY <1>2, <1>4, <1>5
    <3>2. first + (p - first + 1) - 1 = p
      BY <1>2, <1>4
    <3> QED BY <1>5, <3>1, <3>2
  <2> DEFINE A == {sub[j] : j \in 1..Len(sub)}
             B == {r[p] : p \in first..last}
  <2>5. A \subseteq B
    BY <1>5, <2>2
  <2>6. B \subseteq A
    BY <2>3
  <2> QED BY <2>1, <2>5, <2>6
<1>8. ASSUME NEW p \in first..last PROVE p \in 1..Len(r) /\ PieceOf(m, p) = n
  <2> DEFINE j == p - first
  <2>1. j \in 0..(m - 1) /\ n - 1 \in Nat /\ p - 1 = (n - 1) * m + j /\ p \in 1..Len(r)
    BY <1>2, <1>3, <1>4 DEF first
  <2> HIDE DEF j
  <2>2. ((n - 1) * m + j) \div m = n - 1
    BY <2>1, Quotient
  <2> QED BY <1>2, <2>1, <2>2 DEF PieceOf
<1>9. ASSUME NEW p \in 1..Len(r), PieceOf(m, p) = n PROVE p \in first..last
  <2> DEFINE q == (p - 1) \div m
  <2>1. q \in Nat /\ q * m <= p - 1 /\ p - 1 < q * m + m
    <3>1. p - 1 \in Nat
      BY <1>2
    <3> HIDE DEF q
    <3>2. \A i \in Nat : i \div m \in Nat /\ (i \div m) * m <= i /\ i < (i \div m) * m + m
      BY Division
    <3> QED BY <3>1, <3>2 DEF q
  <2>2. q = n - 1
    BY <1>2, <1>9, <2>1 DEF PieceOf
  <2> HIDE DEF q
  <2>3. first <= p /\ p <= x /\ p <= Len(r)
    BY <1>2, <2>1, <2>2 DEF first
  <2> QED BY <1>2, <1>3, <1>4, <2>3
<1>10. {q \in 1..Len(r) : PieceOf(m, q) = n} = first..last
  BY <1>8, <1>9
<1> QED BY <1>1, <1>5, <1>6, <1>7, <1>10 DEF PieceOfList

\* A list without repetitions is cut into pieces: each of its elements is in one of them.
LEMMA PiecesApart ==
  ASSUME NEW K, NEW r \in Seq(K), IsInjective(r), NEW m \in Nat \ {0}
  PROVE  LET k == (Len(r) + m - 1) \div m
             pieces == Sublists(r, m)
         IN  /\ k \in Nat /\ DOMAIN pieces = 1..k
             /\ \A n \in 1..k : pieces[n] \in Seq(K) /\ pieces[n] # <<>> /\ ToSet(pieces[n]) \subseteq ToSet(r)
             /\ \A x \in ToSet(r) : \E n \in 1..k :
                  x \in ToSet(pieces[n]) /\ \A o \in 1..k : x \in ToSet(pieces[o]) => o = n
<1> DEFINE k == (Len(r) + m - 1) \div m
           pieces == Sublists(r, m)
           P(n) == PieceOfList(r, m, n)
<1>1. k \in Nat /\ Len(r) \in Nat /\ DOMAIN r = 1..Len(r)
  BY NumberOfSublists
<1>2. DOMAIN pieces = 1..k
  BY DEF Sublists
<1>3. \A n \in 1..k : pieces[n] \in Seq(K) /\ pieces[n] # <<>> /\ ToSet(pieces[n]) = P(n)
  BY PieceHolds
<1>4. \A p \in 1..Len(r) : PieceOf(m, p) \in 1..k
  BY <1>1, NumberOfSublists DEF PieceOf
<1>5. ToSet(r) = {r[p] : p \in 1..Len(r)}
  BY <1>1 DEF ToSet
<1> HIDE DEF k, pieces
<1>6. \A n \in 1..k : ToSet(pieces[n]) \subseteq ToSet(r)
  <2>1. \A n : P(n) \subseteq ToSet(r)
    BY <1>5 DEF PieceOfList
  <2> HIDE DEF P
  <2> QED BY <1>3, <2>1
<1>7. ASSUME NEW x \in ToSet(r)
      PROVE  \E n \in 1..k : x \in ToSet(pieces[n]) /\ \A o \in 1..k : x \in ToSet(pieces[o]) => o = n
  <2>1. PICK p \in 1..Len(r) : x = r[p]
    BY <1>5
  <2> DEFINE n == PieceOf(m, p)
  <2>2. n \in 1..k /\ x \in P(n)
    BY <1>4, <2>1 DEF PieceOfList
  <2>3. ASSUME NEW o \in 1..k, x \in P(o) PROVE o = n
    <3>1. PICK q \in 1..Len(r) : x = r[q] /\ PieceOf(m, q) = o
      BY <2>3 DEF PieceOfList
    <3>2. p = q
      BY <1>1, <2>1, <3>1 DEF IsInjective
    <3> QED BY <3>1, <3>2
  <2> HIDE DEF n, P
  <2> QED BY <1>3, <2>2, <2>3
<1> QED BY <1>1, <1>2, <1>3, <1>6, <1>7 DEF k, pieces

\* The columns of --hash or --concat are a list without repetitions of those asked for, of
\* columns of the source and of names that were given.
LEMMA RequestedAre ==
  ASSUME Given, ~(args.columns.all /\ args.exclude)
  PROVE  /\ RequestedList \in Seq(Seq(STRING)) /\ IsInjective(RequestedList)
         /\ ToSet(RequestedList) \subseteq KeysOf(db.source) \cup ToSet(args.columns.list)
         /\ \A k \in KeysOf(db.source) :
              k \in ToSet(RequestedList) <=> Asks(args.columns, args.exclude, k)
<1> DEFINE K == Seq(STRING)
           keys == Keys(db.source.columns)
           list == args.columns.list
           S == ToSet(keys) \ ToSet(list)
           r == RequestedList
<1>1. /\ list \in Seq(K) /\ IsInjective(list)
      /\ args.columns.all \in BOOLEAN /\ args.exclude \in BOOLEAN
  BY ArgumentsAre DEF Given, ColumnLists
<1>2. keys \in Seq(K) /\ IsInjective(keys) /\ ToSet(keys) = KeysOf(db.source)
  <2>1. keys \in Seq(ColumnName) /\ IsInjective(keys)
    BY KeysAre, SidesAre DEF Given
  <2>2. ColumnName \subseteq K
    BY DEF ColumnName
  <2> QED BY <2>1, <2>2 DEF KeysOf
<1>3. \A c : Contains(list, c) \in BOOLEAN /\ (Contains(list, c) <=> c \in ToSet(list))
  <2>1. DOMAIN list = 1..Len(list)
    BY <1>1
  <2> HIDE DEF list
  <2> QED BY <2>1 DEF Contains, ToSet
<1>4. \A c : Asks(args.columns, args.exclude, c)
              <=> args.columns.all \/ ((c \in ToSet(list)) <=> ~args.exclude)
  BY <1>1, <1>3 DEF Asks
<1>5. CASE args.columns.all
  <2>1. r = keys
    BY <1>5 DEF RequestedList
  <2> QED BY <1>2, <1>4, <1>5, <2>1
<1>6. CASE ~args.columns.all /\ args.exclude
  <2>1. r = Keep(keys, S)
    BY <1>6 DEF RequestedList
  <2> HIDE DEF keys, S, K, r
  <2>2. r \in Seq(K) /\ ToSet(r) = ToSet(keys) \cap S /\ IsInjective(r)
    BY <1>2, <2>1, KeepIs
  <2>3. ToSet(r) = KeysOf(db.source) \ ToSet(list)
    BY <1>2, <2>2 DEF S
  <2> QED BY <1>4, <1>6, <2>2, <2>3 DEF r, K
<1>7. CASE ~args.columns.all /\ ~args.exclude
  <2>1. r = list
    BY <1>7 DEF RequestedList
  <2> QED BY <1>1, <1>4, <1>7, <2>1
<1> QED BY <1>1, <1>5, <1>6, <1>7

\* The keys of a table that a request asks for, for a configuration of its own.
AsksHere(request, key) == Asks(request, FALSE, key)

\* A request of a list asks for its elements.
LEMMA ListAsks ==
  ASSUME NEW s \in Seq(Seq(STRING)), NEW key
  PROVE  AsksHere(List(s), key) <=> key \in ToSet(s)
<1>1. DOMAIN s = 1..Len(s)
  OBVIOUS
<1>2. Contains(s, key) \in BOOLEAN /\ (Contains(s, key) <=> key \in ToSet(s))
  BY <1>1 DEF Contains, ToSet
<1> QED BY <1>2 DEF AsksHere, Asks, List

\* The columns of the source that the command was asked to compare.
Wished == AskedKeys(db.source, args.columns, args.exclude)

\* Every column the command is asked for is asked for by one of the requests, and no other is.
WishedOnce(requests) ==
  /\ \A k \in Wished : \E n \in 1..Len(requests) :
       AsksHere(requests[n], k) /\ \A o \in 1..Len(requests) : AsksHere(requests[o], k) => o = n
  /\ \A n \in 1..Len(requests) : \A k \in KeysOf(db.source) : AsksHere(requests[n], k) => k \in Wished

\* No request is for nothing.
NoneIdle(requests) ==
  \A n \in 1..Len(requests) : \E k \in KeysOf(db.source) : AsksHere(requests[n], k)

\* So it is with the requests of a hash or a concatenation; and if the columns given are columns
\* of the source and something is to be compared, each of them is for something.
LEMMA RequestsSplit ==
  ASSUME Given, Hashed, ~(args.columns.all /\ args.exclude)
  PROVE  /\ WishedOnce(Requests)
         /\ ToSet(args.columns.list) \subseteq KeysOf(db.source) /\ Wished # {} => NoneIdle(Requests)
<1> DEFINE K == Seq(STRING)
           r == RequestedList
           m == MaxConcatColumns
           k == (Len(r) + m - 1) \div m
           pieces == Sublists(r, m)
           one == IF args.exclude THEN List(r) ELSE args.columns
           keys == KeysOf(db.source)
           given == ToSet(args.columns.list)
<1>1. /\ r \in Seq(K) /\ IsInjective(r) /\ ToSet(r) \subseteq keys \cup given
      /\ \A c \in keys : c \in ToSet(r) <=> c \in Wished
  BY RequestedAre DEF Wished, AskedKeys
<1>2. m \in Nat /\ Wished \subseteq keys /\ args.exclude \in BOOLEAN
  BY LimitIs, ArgumentsAre DEF Given, Wished, AskedKeys
<1>3. CASE m # 0 /\ Len(r) > m
  <2>1. Requests = [n \in DOMAIN pieces |-> List(pieces[n])]
    BY <1>3 DEF Requests, ColumnRequests
  <2> HIDE DEF r, m, keys, given
  <2>2. m \in Nat \ {0}
    BY <1>2, <1>3
  <2>3. /\ k \in Nat /\ DOMAIN pieces = 1..k
        /\ \A n \in 1..k : /\ pieces[n] \in Seq(K) /\ pieces[n] # <<>>
                           /\ ToSet(pieces[n]) \subseteq ToSet(r)
        /\ \A x \in ToSet(r) : \E n \in 1..k :
             x \in ToSet(pieces[n]) /\ \A o \in 1..k : x \in ToSet(pieces[o]) => o = n
    <3> HIDE DEF K
    <3> QED BY <1>1, <2>2, PiecesApart
  <2> HIDE DEF k, pieces
  <2>4. Len(Requests) = k /\ \A n \in 1..k : Requests[n] = List(pieces[n])
    BY <2>1, <2>3
  <2>5. ASSUME NEW n \in 1..k, NEW c PROVE AsksHere(Requests[n], c) <=> c \in ToSet(pieces[n])
    BY <2>3, <2>4, ListAsks
  <2>6. \A c \in Wished : \E n \in 1..k :
          AsksHere(Requests[n], c) /\ \A o \in 1..k : AsksHere(Requests[o], c) => o = n
    BY <1>1, <1>2, <2>3, <2>5
  <2>7. \A n \in 1..k : \A c \in keys : AsksHere(Requests[n], c) => c \in Wished
    BY <1>1, <2>3, <2>5
  <2>8. ASSUME given \subseteq keys, NEW n \in 1..k
        PROVE  \E c \in keys : AsksHere(Requests[n], c)
    <3> DEFINE s == pieces[n]
    <3>1. s \in Seq(K) /\ s # <<>> /\ ToSet(s) \subseteq ToSet(r)
      BY <2>3
    <3>2. \A c : c \in ToSet(s) => AsksHere(Requests[n], c)
      BY <2>5
    <3> HIDE DEF s
    <3>3. 1 \in DOMAIN s
      BY <3>1
    <3>4. s[1] \in ToSet(s)
      BY <3>3 DEF ToSet
    <3> QED BY <1>1, <2>8, <3>1, <3>2, <3>4
  <2> QED BY <2>4, <2>6, <2>7, <2>8 DEF WishedOnce, NoneIdle, keys, given
<1>4. CASE ~(m # 0 /\ Len(r) > m)
  <2>1. Requests = <<one>>
    BY <1>4 DEF Requests, ColumnRequests
  <2>2. ASSUME NEW c \in keys PROVE AsksHere(one, c) <=> c \in Wished
    <3>1. CASE args.exclude
      <4>1. one = List(r)
        BY <3>1
      <4> HIDE DEF r, one
      <4> QED BY <1>1, <4>1, ListAsks
    <3>2. CASE ~args.exclude
      <4>1. one = args.columns /\ args.exclude = FALSE
        BY <1>2, <3>2
      <4> HIDE DEF one
      <4> QED BY <4>1 DEF AsksHere, Wished, AskedKeys
    <3> QED BY <3>1, <3>2
  <2> HIDE DEF one, keys
  <2>3. Len(Requests) = 1 /\ Requests[1] = one /\ \A n \in 1..1 : n = 1
    BY <2>1
  <2>4. WishedOnce(Requests)
    BY <1>2, <2>2, <2>3 DEF WishedOnce, keys
  <2>5. Wished # {} => NoneIdle(Requests)
    BY <1>2, <2>2, <2>3 DEF NoneIdle, keys
  <2> QED BY <2>4, <2>5
<1> QED BY <1>3, <1>4

\* The tables and the arguments are not changed, nor is what is made of them alone.
LEMMA Fixed ==
  ASSUME UNCHANGED <<db, args>>
  PROVE  /\ Row' <=> Row
         /\ Hashed' <=> Hashed
         /\ PrimaryKeys' = PrimaryKeys
         /\ Requests' = Requests
         /\ Aligned' <=> Aligned
         /\ WellFormed' <=> WellFormed
<1>1. db' = db /\ args' = args
  OBVIOUS
<1>2. (Row' <=> Row) /\ (Hashed' <=> Hashed) /\ PrimaryKeys' = PrimaryKeys
  BY <1>1 DEF Row, Hashed, PrimaryKeys
<1>3. (Aligned' <=> Aligned) /\ SourceKeys' = SourceKeys
  BY <1>1 DEF Aligned, SourceKeys
<1>4. RequestedList' = RequestedList
  BY <1>1 DEF RequestedList
<1>5. MaxConcatColumns' = MaxConcatColumns
  <2> DEFINE limits == {MaxConcatDefault[db[s].client] : s \in Sides} \ {0}
  <2>1. limits' = limits
    BY <1>1
  <2>2. MaxConcatColumns = IF args.maxConcat # 0 THEN args.maxConcat
                           ELSE IF limits = {} THEN 0 ELSE Min(limits)
    BY DEF MaxConcatColumns
  <2>3. MaxConcatColumns' = IF args'.maxConcat # 0 THEN args'.maxConcat
                            ELSE IF limits' = {} THEN 0 ELSE Min(limits')
    BY DEF MaxConcatColumns
  <2> HIDE DEF limits
  <2> QED BY <1>1, <2>1, <2>2, <2>3
<1>6. ColumnRequests' = ColumnRequests
  <2> DEFINE Of(r, m, a) == IF m # 0 /\ Len(r) > m
                              THEN LET chunks == Sublists(r, m)
                                   IN  [n \in DOMAIN chunks |-> List(chunks[n])]
                              ELSE << IF a.exclude THEN List(r) ELSE a.columns >>
  <2>1. ColumnRequests = Of(RequestedList, MaxConcatColumns, args)
    BY DEF ColumnRequests
  <2>2. ColumnRequests' = Of(RequestedList', MaxConcatColumns', args')
    BY DEF ColumnRequests
  <2> HIDE DEF Of
  <2> QED BY <1>1, <1>4, <1>5, <2>1, <2>2
<1>7. Requests' = Requests
  BY <1>1, <1>2, <1>6 DEF Requests
<1>8. \A k : Supported(k)' <=> Supported(k)
  BY <1>1 DEF Supported
<1>9. RequestedColumns' = RequestedColumns
  BY <1>1, <1>8 DEF RequestedColumns
<1>10. WellFormed' <=> WellFormed
  BY <1>1, <1>2, <1>3, <1>8, <1>9 DEF WellFormed
<1> QED BY <1>2, <1>3, <1>7, <1>10

\* The columns that are to be compared, of those that were asked for.
LEMMA RequestedIs == Given => RequestedColumns = SupportedOf(db, Wished)
<1> SUFFICES ASSUME Given PROVE RequestedColumns = SupportedOf(db, Wished)
  OBVIOUS
<1> DEFINE l == Listed(db.source.columns, args.columns, args.exclude)
<1>1. ToSet(Keys(l)) = Wished
  BY ListedAre, SidesAre DEF Given, Wished
<1>2. RequestedColumns = {k \in ToSet(Keys(l)) : Supported(k)}
  BY DEF RequestedColumns
<1> HIDE DEF l
<1> QED BY <1>1, <1>2 DEF SupportedOf, Supported

\* What it means that nothing is wrong with what was asked for.
LEMMA WellFormedIs ==
  ASSUME Given, Aligned, WellFormed
  PROVE  /\ PrimaryKeys # <<>> /\ ~MissingColumn(db, PrimaryKeys)
         /\ ~(args.columns.all /\ args.exclude)
         /\ ToSet(args.columns.list) \subseteq KeysOf(db.source)
         /\ \A S \in SUBSET KeysOf(db.source) : SupportedOf(db, S) = S
         /\ Hashed => Wished # {}
         /\ ~Hashed => SupportedOf(db, Wished) \ ToSet(PrimaryKeys) # {}
<1>1. SourceKeys = KeysOf(db.source) /\ KeysOf(db.target) = KeysOf(db.source)
  BY SameKeysOfSides
<1>2. /\ PrimaryKeys # <<>> /\ ToSet(PrimaryKeys) \subseteq KeysOf(db.source)
      /\ ~(args.columns.all /\ args.exclude)
      /\ ToSet(args.columns.list) \subseteq KeysOf(db.source)
      /\ \A k \in KeysOf(db.source) : Supported(k)
      /\ RequestedColumns \ (IF Hashed THEN {} ELSE ToSet(PrimaryKeys)) # {}
  BY <1>1 DEF WellFormed
<1>3. ~MissingColumn(db, PrimaryKeys)
  <2>1. \A s \in Sides : \A k \in KeysOf(db[s]) : Has(db[s], k)
    BY KeysAre DEF Given
  <2>2. \A k \in ToSet(PrimaryKeys) : Has(db.source, k) /\ Has(db.target, k)
    BY <1>1, <1>2, <2>1, SidesAre
  <2>3. \A i \in DOMAIN PrimaryKeys : PrimaryKeys[i] \in ToSet(PrimaryKeys)
    BY DEF ToSet
  <2> QED BY <2>2, <2>3 DEF MissingColumn
<1>4. ASSUME NEW S \in SUBSET KeysOf(db.source) PROVE SupportedOf(db, S) = S
  BY <1>2 DEF SupportedOf, Supported
<1>5. RequestedColumns = SupportedOf(db, Wished) /\ SupportedOf(db, Wished) \subseteq Wished
  BY RequestedIs DEF SupportedOf
<1> QED BY <1>2, <1>3, <1>4, <1>5

\* No configuration has begun.
LEMMA ComparedInit == Init => Compared
BY DEF Init, Compared, Building

\* An exception, if something is wrong with what was asked for, ends the command.
LEMMA ComparedRaise ==
  ASSUME Compared, Row, Raise, Aligned => ~WellFormed
  PROVE  Compared'
<1>1. /\ stage' = "raised"
      /\ UNCHANGED <<db, args, pending, config, unaggregated, managers, queries>>
  BY DEF Raise
<1>2. (Aligned' => ~WellFormed') /\ PrimaryKeys' = PrimaryKeys
  BY <1>1, Fixed
<1>3. \A n \in DOMAIN managers : RowBuilt(db, args, PrimaryKeys, managers[n])
  BY DEF Compared
<1> QED BY <1>1, <1>2, <1>3 DEF Compared

\* The requests are a list of lists of columns.
LEMMA RequestsAre == Given => Requests \in Seq(ColumnLists) /\ Len(Requests) \in Nat
<1> SUFFICES ASSUME Given PROVE Requests \in Seq(ColumnLists)
  OBVIOUS
<1>1. ColumnRequests \in Seq(ColumnLists)
  BY RequestsAreLists
<1>2. args.columns \in ColumnLists
  BY ArgumentsAre DEF Given
<1> QED BY <1>1, <1>2 DEF Requests

\* The lists of columns that wait are the requests.
LEMMA ComparedPreBuild == CInv /\ Row /\ PreBuild => Compared'
<1> SUFFICES ASSUME CInv, Row, PreBuild PROVE Compared'
  OBVIOUS
<1>1. Given /\ Compared /\ managers = <<>> /\ stage = "start"
  BY DEF CInv, NInv, QInv, Compared, PreBuild
<1>2. CASE Hashed /\ args.columns.all /\ args.exclude
  <2>1. Raise /\ ~WellFormed
    BY <1>2 DEF PreBuild, WellFormed
  <2> QED BY <1>1, <2>1, ComparedRaise
<1>3. CASE ~(Hashed /\ args.columns.all /\ args.exclude)
  <2>1. /\ pending' = Requests /\ stage' = "begin"
        /\ UNCHANGED <<db, args, config, unaggregated, managers, queries>>
    BY <1>3 DEF PreBuild, Requests
  <2>2. Requests' = Requests /\ ~(Hashed' /\ args'.columns.all /\ args'.exclude)
    BY <1>3, <2>1, Fixed
  <2>3. Len(Requests) \in Nat
    BY <1>1, RequestsAre
  <2>4. Progress(Requests)'
    <3> DEFINE R == Requests
    <3>1. managers' = <<>> /\ Len(<<>>) = 0 /\ pending' = R /\ Requests' = R /\ stage' = "begin"
      BY <1>1, <2>1, <2>2
    <3>2. Len(R) \in Nat
      BY <2>3
    <3> HIDE DEF R
    <3> QED BY <3>1, <3>2 DEF Progress, Building
  <2> QED BY <1>1, <2>1, <2>2, <2>4 DEF Compared
<1> QED BY <1>2, <1>3

\* A new ConfigManager takes the next request and compares nothing yet.
LEMMA ComparedNewConfigManager == CInv /\ Row /\ NewConfigManager => Compared'
<1> SUFFICES ASSUME CInv, Row, NewConfigManager PROVE Compared'
  OBVIOUS
<1> DEFINE e == EmptyConfig
           R == Requests
           p == pending
           done == Len(managers)
<1>1. /\ stage = "begin" /\ p # <<>> /\ pending' = Tail(p) /\ stage' = "calculated fields"
      /\ config' = [e EXCEPT !.columns = Head(p), !.aggregates = <<>>]
      /\ UNCHANGED <<db, args, managers, queries>>
  BY DEF NewConfigManager
<1>2. e \in ConfigSet(db) /\ e.calculated = {}
  BY EmptyIsGood DEF EmptyConfig
<1> HIDE DEF e
<1>3. config'.columns = Head(p) /\ config'.calculated = {}
  BY <1>1, <1>2 DEF ConfigSet
<1>4. /\ Requests' = R /\ PrimaryKeys' = PrimaryKeys
      /\ (Hashed' /\ args'.columns.all /\ args'.exclude) <=> (Hashed /\ args.columns.all /\ args.exclude)
  BY <1>1, Fixed
<1>5. p \in Seq(ColumnLists) /\ done \in Nat
  BY DEF CInv, NInv, QInv, Waiting, Built
<1>6. /\ Progress(R) /\ ~(Hashed /\ args.columns.all /\ args.exclude)
      /\ \A n \in DOMAIN managers : RowBuilt(db, args, PrimaryKeys, managers[n])
  BY <1>1 DEF CInv, Compared
<1>7. /\ done + Len(p) = Len(R) /\ \A i \in 1..Len(p) : p[i] = R[done + i]
      /\ \A i \in 1..done : managers[i].columns = R[i]
  <2>1. /\ done + 0 + Len(p) = Len(R) /\ \A i \in 1..Len(p) : p[i] = R[done + 0 + i]
        /\ \A i \in 1..done : managers[i].columns = R[i]
    BY <1>1, <1>6 DEF Progress, Building
  <2> HIDE DEF p, R, done
  <2> QED BY <1>5, <2>1
<1>8. Progress(Requests)'
  <2>1. /\ Len(Tail(p)) \in Nat /\ Len(p) = Len(Tail(p)) + 1 /\ Head(p) = p[1]
        /\ \A i \in 1..Len(Tail(p)) : Tail(p)[i] = p[i + 1] /\ i + 1 \in 1..Len(p)
    <3> HIDE DEF p
    <3>1. p # <<>> /\ p \in Seq(ColumnLists)
      BY <1>1, <1>5
    <3> QED BY <3>1
  <2> DEFINE t == Tail(p)
             h == Head(p)
  <2> HIDE DEF p, R, done, t, h
  <2>2. done + 1 + Len(t) = Len(R) /\ h = R[done + 1]
    <3>1. Len(t) \in Nat /\ Len(p) = Len(t) + 1 /\ h = p[1]
      BY <2>1 DEF t, h
    <3>2. 1 \in 1..Len(p) /\ done + 1 + Len(t) = done + Len(p)
      BY <1>5, <3>1
    <3> QED BY <1>7, <3>1, <3>2
  <2>3. ASSUME NEW i \in 1..Len(t) PROVE t[i] = R[done + 1 + i]
    <3>1. t[i] = p[i + 1] /\ i + 1 \in 1..Len(p)
      BY <2>1 DEF t
    <3>2. p[i + 1] = R[done + (i + 1)] /\ done + (i + 1) = done + 1 + i
      BY <1>5, <1>7, <3>1
    <3> QED BY <3>1, <3>2
  <2>4. /\ Len(managers') = done /\ pending' = t /\ stage' = "calculated fields" /\ Requests' = R
        /\ config'.columns = h /\ managers' = managers
    BY <1>1, <1>3, <1>4 DEF done, t, h
  <2> QED BY <1>7, <2>2, <2>3, <2>4 DEF Progress, Building
<1> QED BY <1>1, <1>3, <1>4, <1>6, <1>8 DEF Compared

\* The request of a configuration under construction is one of those of the command.
LEMMA OneOfRequests ==
  ASSUME CInv, Row, stage \in Building
  PROVE  \E n \in 1..Len(Requests) : config.columns = Requests[n]
<1> DEFINE done == Len(managers)
           left == Len(pending)
<1>1. Progress(Requests)
  BY DEF CInv, Compared, Building
<1>2. done + 1 + left = Len(Requests) /\ config.columns = Requests[done + 1]
  BY <1>1 DEF Progress
<1>3. done \in Nat /\ left \in Nat
  BY DEF CInv, NInv, QInv, Waiting, Built
<1> HIDE DEF done, left
<1>4. done + 1 \in 1..Len(Requests)
  BY <1>2, <1>3
<1> QED BY <1>2, <1>4

\* A step from one part of a configuration to the next keeps the invariant, if the parts it
\* makes are as they should be.
LEMMA ComparedStep ==
  ASSUME CInv, Row, stage \in Building, stage' \in Building \ {"calculated fields"},
         UNCHANGED <<db, args, pending, managers>>, config'.columns = config.columns,
         stage' # "built" => RowMade(db, args, config'),
         stage' = "built" => RowBuilt(db, args, PrimaryKeys, config')
  PROVE  Compared'
<1>1. /\ Requests' = Requests /\ PrimaryKeys' = PrimaryKeys
      /\ (Hashed' /\ args'.columns.all /\ args'.exclude) <=> (Hashed /\ args.columns.all /\ args.exclude)
  BY Fixed
<1>2. /\ Progress(Requests) /\ ~(Hashed /\ args.columns.all /\ args.exclude)
      /\ \A n \in DOMAIN managers : RowBuilt(db, args, PrimaryKeys, managers[n])
  BY DEF CInv, Compared, Building
<1>3. Progress(Requests)'
  BY <1>1, <1>2 DEF Progress, Building
<1> QED BY <1>1, <1>2, <1>3 DEF Compared, Building

\* It gets the hash or the concatenation of its request, unless the request is bad.
LEMMA ComparedAppendCalculatedFields == CInv /\ Row /\ AppendCalculatedFields => Compared'
<1> SUFFICES ASSUME CInv, Row, AppendCalculatedFields PROVE Compared'
  OBVIOUS
<1>1. /\ Given /\ Compared /\ stage = "calculated fields" /\ config \in ConfigSet(db)
      /\ GoodConfig(db, args, config) /\ config.calculated = {} /\ config.comparison = <<>>
      /\ db \in Databases
  BY DEF CInv, NInv, QInv, Built, Given, GoodConfig, Compared, Named, AppendCalculatedFields
<1>2. stage \in Building /\ "primary keys" \in Building
  BY <1>1 DEF Building
<1>3. CASE ~Hashed \/ Nothing
  <2>1. /\ config' = [config EXCEPT !.comparison = config.comparison \o <<>>]
        /\ stage' = "primary keys" /\ UNCHANGED <<db, args, pending, managers>>
    BY <1>3 DEF AppendCalculatedFields, Extend
  <2>2. config' = config
    BY <1>1, <2>1, PartsOf
  <2>3. RowMade(db, args, config)
    BY <1>1, <1>3 DEF RowMade, Nothing, Hashed
  <2> QED BY <1>2, <2>1, <2>2, <2>3, ComparedStep
<1>4. CASE Hashed /\ ~Nothing /\ DependentAliasesRaise(db, config.columns)
  <2>1. Raise
    BY <1>4 DEF AppendCalculatedFields
  <2>2. ASSUME Aligned, WellFormed PROVE FALSE
    <3> DEFINE asked == AskedKeys(db.source, config.columns, FALSE)
    <3>1. SupportedOf(db, asked) # asked
      BY <1>1, <1>4, <2>2, RowKeysAre DEF Aligned, AlignedIn
    <3>2. asked \in SUBSET KeysOf(db.source)
      BY DEF AskedKeys
    <3> QED BY <1>1, <2>2, <3>1, <3>2, WellFormedIs
  <2> QED BY <1>1, <2>1, <2>2, ComparedRaise
<1>5. CASE Hashed /\ ~Nothing /\ ~DependentAliasesRaise(db, config.columns)
  <2> DEFINE x == DependentAliases(db, args.method, config.columns, args.upper)
             y == ComparisonConfigs(db, << <<args.method, "all">> >>)
  <2>1. /\ config' = [config EXCEPT !.calculated = x, !.comparison = y]
        /\ stage' = "primary keys" /\ UNCHANGED <<db, args, pending, managers>>
    BY <1>5 DEF AppendCalculatedFields
  <2> HIDE DEF x, y
  <2>2. config'.columns = config.columns /\ config'.calculated = x /\ config'.comparison = y
    BY <1>1, <2>1 DEF ConfigSet
  <2>3. RowMade(db, args, config')
    BY <1>5, <2>2 DEF RowMade, Nothing, Hashed, x, y
  <2> QED BY <1>2, <2>1, <2>2, <2>3, ComparedStep
<1> QED BY <1>3, <1>4, <1>5

\* It gets the primary keys, unless there are none or one is missing.
LEMMA ComparedAppendPrimaryKeys == CInv /\ Row /\ AppendPrimaryKeys => Compared'
<1> SUFFICES ASSUME CInv, Row, AppendPrimaryKeys PROVE Compared'
  OBVIOUS
<1>1. /\ Given /\ Compared /\ stage = "primary keys" /\ config \in ConfigSet(db)
      /\ RowMade(db, args, config)
  BY DEF CInv, NInv, QInv, Built, GoodConfig, Compared, AppendPrimaryKeys
<1>2. stage \in Building /\ "comparison fields" \in Building
  BY <1>1 DEF Building
<1>3. CASE PrimaryKeys = <<>> \/ MissingColumn(db, PrimaryKeys)
  <2>1. Raise /\ (Aligned => ~WellFormed)
    BY <1>1, <1>3, WellFormedIs DEF AppendPrimaryKeys
  <2> QED BY <1>1, <2>1, ComparedRaise
<1>4. CASE ~(PrimaryKeys = <<>> \/ MissingColumn(db, PrimaryKeys))
  <2> DEFINE z == config.primary \o ColumnConfigs(db, PrimaryKeys)
  <2>1. /\ config' = [config EXCEPT !.primary = z]
        /\ stage' = "comparison fields" /\ UNCHANGED <<db, args, pending, managers>>
    BY <1>4 DEF AppendPrimaryKeys, Extend
  <2> HIDE DEF z
  <2>2. /\ config'.columns = config.columns /\ config'.calculated = config.calculated
        /\ config'.comparison = config.comparison
    BY <1>1, <2>1 DEF ConfigSet
  <2>3. RowMade(db, args, config')
    BY <1>1, <2>2 DEF RowMade
  <2> QED BY <1>2, <2>1, <2>2, <2>3, ComparedStep
<1> QED BY <1>3, <1>4

\* Under the invariant a request for nothing is a sign of something wrong.
LEMMA NoIdleRequest ==
  ASSUME CInv, Row, Hashed, ~(args.columns.all /\ args.exclude), Aligned, WellFormed,
         NEW n \in 1..Len(Requests)
  PROVE  /\ \E k \in KeysOf(db.source) : AsksHere(Requests[n], k)
         /\ Requests[n].all \/ Requests[n].list # <<>>
<1>1. Given
  BY DEF CInv, NInv, QInv
<1>2. ToSet(args.columns.list) \subseteq KeysOf(db.source) /\ Wished # {}
  BY <1>1, WellFormedIs
<1>3. NoneIdle(Requests)
  BY <1>1, <1>2, RequestsSplit
<1>4. PICK k \in KeysOf(db.source) : AsksHere(Requests[n], k)
  BY <1>3 DEF NoneIdle
<1> DEFINE r == Requests[n]
<1>5. r.all \/ (Contains(r.list, k) # FALSE)
  BY <1>4 DEF AsksHere, Asks
<1> HIDE DEF r
<1>6. ~Contains(<<>>, k)
  BY DEF Contains
<1>7. r.list = <<>> => r.all
  <2>1. Contains(<<>>, k) = FALSE
    BY <1>6 DEF Contains
  <2> QED BY <1>5, <2>1
<1> QED BY <1>4, <1>7 DEF r

\* A row validation with nothing wrong has columns to compare.
LEMMA ComparedFields ==
  ASSUME Given, Aligned, WellFormed, ~Hashed
  PROVE  LET names == CompFields(db, args.columns, args.exclude, PrimaryKeys)
         IN  /\ ToSet(names) # {} /\ ~MissingColumn(db, names)
             /\ ~CompFieldsRaise(db, args.columns, args.exclude)
<1> DEFINE names == CompFields(db, args.columns, args.exclude, PrimaryKeys)
<1>1. db \in Databases /\ Wished \in SUBSET KeysOf(db.source)
  BY DEF Given, Wished, AskedKeys
<1>2. /\ ToSet(names) = SupportedOf(db, Wished) \ ToSet(PrimaryKeys)
      /\ CompFieldsRaise(db, args.columns, args.exclude) =>
           (args.exclude /\ args.columns.all) \/ SupportedOf(db, Wished) # Wished
  <2>1. CompFieldsOf(db, Wished, args.exclude, args.columns, PrimaryKeys)
    BY <1>1, CompFieldsAre DEF Wished
  <2> QED BY <2>1 DEF CompFieldsOf
<1>3. ToSet(names) \subseteq KeysOf(db.source)
  BY <1>1, CompFieldKeys
<1> HIDE DEF names
<1>4. KeysOf(db.target) = KeysOf(db.source)
  BY SameKeysOfSides
<1>5. \A i \in DOMAIN names : Has(db.source, names[i]) /\ Has(db.target, names[i])
  <2>1. \A s \in Sides : \A k \in KeysOf(db[s]) : Has(db[s], k)
    BY <1>1, KeysAre
  <2>2. \A i \in DOMAIN names : names[i] \in KeysOf(db.source)
    BY <1>3 DEF ToSet
  <2> QED BY <1>4, <2>1, <2>2, SidesAre
<1>6. ~MissingColumn(db, names)
  BY <1>5 DEF MissingColumn
<1>7. ToSet(names) # {} /\ ~CompFieldsRaise(db, args.columns, args.exclude)
  BY <1>1, <1>2, WellFormedIs
<1> QED BY <1>6, <1>7 DEF names

\* It gets the compared fields, unless something is wrong with them.
LEMMA ComparedAppendComparisonFields == CInv /\ Row /\ AppendComparisonFields => Compared'
<1> SUFFICES ASSUME CInv, Row, AppendComparisonFields PROVE Compared'
  OBVIOUS
<1> DEFINE names == CompFields(db, args.columns, args.exclude, PrimaryKeys)
           padded == OnTeradata(db)
           x == IF padded THEN RstripFields(db, names) ELSE {}
           shown == IF padded THEN WithRstrip(db, names) ELSE names
           more == ComparisonConfigs(db, shown)
           old == config
           new == [old EXCEPT !.calculated = old.calculated \cup x,
                              !.comparison = old.comparison \o more]
           next == IF Hashed THEN old ELSE new
           raises == ~Hashed /\ \/ CompFieldsRaise(db, args.columns, args.exclude)
                                \/ padded /\ MissingColumn(db, names)
<1>1. /\ Given /\ Compared /\ stage = "comparison fields" /\ old \in ConfigSet(db)
      /\ RowMade(db, args, old) /\ old.groups = <<>> /\ old.aggregates = <<>>
      /\ old.primary = ColumnConfigs(db, PrimaryKeys) /\ ~MissingColumn(db, PrimaryKeys)
      /\ ~(Hashed /\ args.columns.all /\ args.exclude)
  BY DEF CInv, NInv, QInv, Named, Built, GoodConfig, Compared, AppendComparisonFields
<1>2. stage \in Building /\ "built" \in Building
  BY <1>1 DEF Building
<1>3. IF raises \/ next.comparison = <<>>
        THEN Raise
        ELSE /\ config' = next /\ stage' = "built"
             /\ UNCHANGED <<db, args, pending, unaggregated, managers, queries>>
  BY DEF AppendComparisonFields
<1>4. \A s, t : DOMAIN ComparisonConfigs(s, t) = DOMAIN t
  BY DEF ComparisonConfigs
<1>5. DOMAIN shown = DOMAIN names
  BY DEF WithRstrip
<1>6. names \in Seq(ColumnName)
  BY CompFieldKeys DEF CInv, NInv, QInv, Given
<1>7. ASSUME ~Hashed
      PROVE  /\ next.columns = old.columns /\ next.primary = old.primary /\ next.groups = old.groups
             /\ next.aggregates = old.aggregates /\ next.calculated = x /\ next.comparison = more
  <2>1. old.calculated = {} /\ old.comparison = <<>>
    BY <1>1, <1>7 DEF RowMade, Hashed
  <2>2. <<>> \o more = more
    <3>1. DOMAIN more = 1..Len(names) /\ Len(names) \in Nat
      BY <1>4, <1>5, <1>6
    <3> DEFINE M == {more[i] : i \in 1..Len(names)}
    <3>2. more = [i \in DOMAIN shown |-> more[i]]
      BY DEF ComparisonConfigs
    <3> HIDE DEF more, shown, names
    <3>3. more = [i \in 1..Len(names) |-> more[i]]
      BY <1>4, <3>1, <3>2
    <3>4. more \in Seq(M)
      BY <3>1, <3>3
    <3> HIDE DEF M
    <3> QED BY <3>4
  <2>3. new = [old EXCEPT !.calculated = {} \cup x, !.comparison = <<>> \o more]
    BY <2>1
  <2>4. new = [old EXCEPT !.calculated = x, !.comparison = more]
    <3> HIDE DEF x, more, new, old
    <3>1. {} \cup x = x
      OBVIOUS
    <3> QED BY <2>2, <2>3, <3>1
  <2>5. next = new
    BY <1>7
  <2> HIDE DEF x, more, new, old, next
  <2> QED BY <1>1, <2>4, <2>5 DEF ConfigSet
<1>8. CASE raises
  <2>1. Raise
    BY <1>3, <1>8
  <2>2. ~(Aligned /\ WellFormed)
    BY <1>1, <1>8, ComparedFields
  <2> QED BY <1>1, <2>1, <2>2, ComparedRaise
<1>9. CASE next.comparison = <<>>
  <2>1. Raise
    BY <1>3, <1>9
  <2>2. ASSUME Hashed, Aligned, WellFormed PROVE FALSE
    <3>1. PICK n \in 1..Len(Requests) : old.columns = Requests[n]
      BY <1>2, OneOfRequests
    <3>2. old.columns.all \/ old.columns.list # <<>>
      BY <1>1, <2>2, <3>1, NoIdleRequest
    <3>3. old.comparison = ComparisonConfigs(db, << <<args.method, "all">> >>)
      BY <1>1, <2>2, <3>2 DEF RowMade, Hashed
    <3>4. DOMAIN old.comparison = {1}
      <4>1. \A y : DOMAIN <<y>> = {1}
        OBVIOUS
      <4> QED BY <1>4, <3>3, <4>1
    <3>5. old.comparison = <<>> /\ DOMAIN <<>> = {}
      BY <1>9, <2>2
    <3> QED BY <3>4, <3>5
  <2>3. ASSUME ~Hashed, Aligned, WellFormed PROVE FALSE
    <3>1. more = <<>> /\ DOMAIN <<>> = {}
      BY <1>7, <1>9, <2>3
    <3>2. DOMAIN names = {}
      BY <1>4, <1>5, <3>1
    <3>3. ToSet(names) # {}
      BY <1>1, <2>3, ComparedFields
    <3> QED BY <3>2, <3>3 DEF ToSet
  <2> QED BY <1>1, <2>1, <2>2, <2>3, ComparedRaise
<1>10. CASE ~raises /\ next.comparison # <<>>
  <2>1. config' = next /\ stage' = "built" /\ UNCHANGED <<db, args, pending, managers>>
    BY <1>3, <1>10
  <2>2. next.columns = old.columns /\ next.primary = old.primary /\ next.groups = <<>>
        /\ next.aggregates = <<>>
    BY <1>1, <1>7
  <2>3. Hashed => RowMade(db, args, next)
    BY <1>1
  <2>4. ~Hashed => FieldsMade(db, args, PrimaryKeys, next)
    <3>1. ~Hashed => next.calculated = x /\ next.comparison = more
      BY <1>7
    <3> HIDE DEF next
    <3> QED BY <3>1 DEF FieldsMade
  <2> HIDE DEF next
  <2>5. RowBuilt(db, args, PrimaryKeys, next)
    BY <1>1, <1>10, <2>2, <2>3, <2>4 DEF RowBuilt, Hashed
  <2> QED BY <1>2, <2>1, <2>2, <2>5, ComparedStep
<1> QED BY <1>8, <1>9, <1>10

\* It is kept, and the next request is at hand.
LEMMA ComparedKeepConfigManager == CInv /\ Row /\ KeepConfigManager => Compared'
<1> SUFFICES ASSUME CInv, Row, KeepConfigManager PROVE Compared'
  OBVIOUS
<1> DEFINE R == Requests
           m == managers
           done == Len(m)
           left == Len(pending)
<1>1. /\ stage = "built" /\ managers' = Append(m, config)
      /\ stage' = IF pending = <<>> THEN "validate" ELSE "begin"
      /\ UNCHANGED <<db, args, pending, config, unaggregated, queries>>
  BY DEF KeepConfigManager
<1>2. /\ m \in Seq(ConfigSet(db)) /\ config \in ConfigSet(db) /\ pending \in Seq(ColumnLists)
  BY DEF CInv, NInv, QInv, Waiting, Built, GoodConfig
<1>3. /\ Requests' = R /\ PrimaryKeys' = PrimaryKeys
      /\ (Hashed' /\ args'.columns.all /\ args'.exclude) <=> (Hashed /\ args.columns.all /\ args.exclude)
  BY <1>1, Fixed
<1>4. /\ Progress(R) /\ ~(Hashed /\ args.columns.all /\ args.exclude)
      /\ RowBuilt(db, args, PrimaryKeys, config)
      /\ \A n \in DOMAIN m : RowBuilt(db, args, PrimaryKeys, m[n])
  BY <1>1 DEF CInv, Compared
<1>5. /\ done + 1 + left = Len(R) /\ \A i \in 1..left : pending[i] = R[done + 1 + i]
      /\ \A i \in 1..done : m[i].columns = R[i]
      /\ config.columns = R[done + 1]
  BY <1>1, <1>4 DEF Progress, Building
<1>6. done \in Nat /\ left \in Nat
  BY <1>2
<1>7. /\ Len(Append(m, config)) = done + 1 /\ DOMAIN Append(m, config) = 1..(done + 1)
      /\ Append(m, config)[done + 1] = config
      /\ \A i \in 1..done : i \in DOMAIN m /\ Append(m, config)[i] = m[i]
  <2> HIDE DEF m
  <2> QED BY <1>2
<1> HIDE DEF R, m, done, left
<1>8. \A n \in DOMAIN managers' : RowBuilt(db, args, PrimaryKeys, managers'[n])
  <2>1. \A n \in 1..(done + 1) : n = done + 1 \/ n \in 1..done
    BY <1>6
  <2> QED BY <1>1, <1>4, <1>7, <2>1
<1>9. Progress(Requests)'
  <2>1. /\ Len(managers') = done + 1 /\ (done + 1) + 0 + left = Len(R)
        /\ \A i \in 1..left : pending[i] = R[(done + 1) + 0 + i]
    BY <1>1, <1>5, <1>6, <1>7
  <2>2. \A i \in 1..(done + 1) : managers'[i].columns = R[i]
    <3>1. \A n \in 1..(done + 1) : n = done + 1 \/ n \in 1..done
      BY <1>6
    <3> QED BY <1>1, <1>5, <1>7, <3>1
  <2>3. stage' \notin Building /\ (stage' = "validate" => pending' = <<>>)
    BY <1>1 DEF Building
  <2> QED BY <1>1, <1>3, <2>1, <2>2, <2>3 DEF Progress, left
<1> QED BY <1>1, <1>3, <1>4, <1>8, <1>9 DEF Compared

\* A configuration of well-formed arguments compiles.
LEMMA BuiltCompilesToo ==
  ASSUME CInv, Row, Aligned, WellFormed, ~(Hashed /\ args.columns.all /\ args.exclude),
         NEW n \in 1..Len(Requests), NEW c \in ConfigSet(db), RowBuilt(db, args, PrimaryKeys, c),
         c.columns = Requests[n], NEW s \in Sides
  PROVE  Compiles(db[s], s, c)
<1>1. Given
  BY DEF CInv, NInv, QInv
<1>2. CASE Hashed
  <2>1. PICK k \in KeysOf(db.source) : AsksHere(c.columns, k)
    BY <1>2, NoIdleRequest
  <2> DEFINE asked == AskedKeys(db.source, c.columns, FALSE)
  <2>2. asked \in SUBSET KeysOf(db.source) /\ k \in asked
    BY <2>1 DEF AskedKeys, AsksHere
  <2>3. SupportedOf(db, asked) = asked
    BY <1>1, <2>2, WellFormedIs
  <2>4. AskedOf(c) # {}
    BY <1>2, <2>2, <2>3 DEF AskedOf
  <2> QED BY <1>1, <1>2, <2>4, HashReads
<1>3. CASE ~Hashed
  BY <1>1, <1>3, FieldsReads
<1> QED BY <1>2, <1>3

\* What is well-formed compiles.
LEMMA ComparedCompile == CInv /\ Row /\ Compile => Compared'
<1> SUFFICES ASSUME CInv, Row, Compile PROVE Compared'
  OBVIOUS
<1> DEFINE n == Len(queries) + 1
           next == managers[n]
<1>1. /\ stage = "validate" /\ Len(queries) < Len(managers) /\ Compared
      /\ managers \in Seq(ConfigSet(db)) /\ Len(queries) \in 0..Len(managers)
      /\ pending \in Seq(ColumnLists)
  BY DEF Compile, CInv, NInv, QInv, Waiting, Built, Asked
<1>2. /\ Progress(Requests) /\ ~(Hashed /\ args.columns.all /\ args.exclude)
      /\ \A i \in DOMAIN managers : RowBuilt(db, args, PrimaryKeys, managers[i])
  BY <1>1 DEF Compared
<1>3. n \in DOMAIN managers /\ n \in 1..Len(managers) /\ next \in ConfigSet(db)
      /\ RowBuilt(db, args, PrimaryKeys, next)
  <2>1. n \in DOMAIN managers /\ n \in 1..Len(managers)
    BY <1>1
  <2> HIDE DEF n
  <2> QED BY <1>1, <1>2, <2>1
<1> HIDE DEF n
<1>4. next.columns = Requests[n] /\ n \in 1..Len(Requests)
  <2>1. /\ Len(managers) + 0 + Len(pending) = Len(Requests)
        /\ \A i \in 1..Len(managers) : managers[i].columns = Requests[i]
    BY <1>1, <1>2 DEF Progress, Building
  <2>2. Len(managers) \in Nat /\ Len(pending) \in Nat
    BY <1>1
  <2>3. n \in 1..Len(Requests)
    BY <1>3, <2>1, <2>2
  <2> QED BY <1>3, <2>1, <2>3
<1>5. CASE \E s \in Sides : ~Compiles(db[s], s, next)
  <2>1. Raise
    BY <1>5 DEF Compile, n
  <2>2. Aligned => ~WellFormed
    <3> HIDE DEF next
    <3> QED BY <1>2, <1>3, <1>4, <1>5, BuiltCompilesToo
  <2> QED BY <1>1, <2>1, <2>2, ComparedRaise
<1>6. CASE ~\E s \in Sides : ~Compiles(db[s], s, next)
  <2>1. UNCHANGED <<db, args, stage, pending, config, unaggregated, managers>>
    BY <1>6 DEF Compile, n
  <2>2. /\ Requests' = Requests /\ PrimaryKeys' = PrimaryKeys
        /\ (Hashed' /\ args'.columns.all /\ args'.exclude)
             <=> (Hashed /\ args.columns.all /\ args.exclude)
    BY <2>1, Fixed
  <2>3. Progress(Requests)'
    BY <1>2, <2>1, <2>2 DEF Progress
  <2> QED BY <1>1, <1>2, <2>1, <2>2, <2>3 DEF Compared
<1> QED BY <1>5, <1>6

\* Every step keeps the invariant of rows.
LEMMA CInvInductive == CInv /\ [Next]_vars => CInv'
<1> SUFFICES ASSUME CInv, [Next]_vars PROVE Compared'
  BY NInvInductive DEF CInv
<1>1. UNCHANGED <<db, args>>
  BY DEF Next, vars, PreBuild, NewConfigManager, AppendAggregates, AppendQueryGroups,
         AppendCalculatedFields, AppendPrimaryKeys, AppendComparisonFields, KeepConfigManager,
         Compile, Done, Raise, Extend
<1>2. Row' <=> Row
  BY <1>1, Fixed
<1>3. CASE ~Row
  BY <1>2, <1>3 DEF Compared
<1>4. CASE Row
  <2>1. CASE Done \/ UNCHANGED vars
    <3>1. UNCHANGED vars
      BY <2>1 DEF Done
    <3>2. /\ Requests' = Requests /\ PrimaryKeys' = PrimaryKeys /\ (Aligned' <=> Aligned)
          /\ (WellFormed' <=> WellFormed)
          /\ (Hashed' /\ args'.columns.all /\ args'.exclude)
               <=> (Hashed /\ args.columns.all /\ args.exclude)
      BY <1>1, Fixed
    <3>3. Progress(Requests) => Progress(Requests)'
      BY <3>1, <3>2 DEF Progress, vars
    <3> QED BY <1>4, <3>1, <3>2, <3>3 DEF CInv, Compared, vars
  <2>2. stage # "aggregates"
    BY <1>4 DEF CInv, Compared
  <2>3. ~AppendAggregates /\ ~AppendQueryGroups
    BY <2>2 DEF AppendAggregates, AppendQueryGroups
  <2> QED BY <1>4, <2>1, <2>3, ComparedPreBuild, ComparedNewConfigManager,
             ComparedAppendCalculatedFields, ComparedAppendPrimaryKeys,
             ComparedAppendComparisonFields, ComparedKeepConfigManager, ComparedCompile DEF Next
<1> QED BY <1>3, <1>4

\* Of the requests of a row validation exactly one asks for a column that is to be compared.
LEMMA AskedByOne ==
  ASSUME CInv, Row, ~(Hashed /\ args.columns.all /\ args.exclude),
         NEW k \in RequestedColumns \ (IF Hashed THEN {} ELSE ToSet(PrimaryKeys)),
         \A n \in 1..Len(Requests) : n \in DOMAIN managers /\ managers[n].columns = Requests[n]
  PROVE  \E n \in 1..Len(Requests) :
           {o \in 1..Len(Requests) : k \in AskedOf(managers[o])} = {n}
<1> DEFINE m == Len(Requests)
           Of(n) == AskedOf(managers[n])
<1>1. Given
  BY DEF CInv, NInv, QInv
<1>2. RequestedColumns = SupportedOf(db, Wished)
  BY <1>1, RequestedIs
<1>3. k \in Wished /\ k \in KeysOf(db.source) /\ Reasons(db, k, k) = {}
  BY <1>2 DEF SupportedOf, Wished, AskedKeys
<1>4. CASE Hashed
  <2>1. WishedOnce(Requests)
    BY <1>1, <1>4, RequestsSplit
  <2>2. PICK n \in 1..m : /\ AsksHere(Requests[n], k)
                          /\ \A o \in 1..m : AsksHere(Requests[o], k) => o = n
    BY <1>3, <2>1 DEF WishedOnce
  <2>3. ASSUME NEW o \in 1..m PROVE k \in Of(o) <=> AsksHere(Requests[o], k)
    <3>1. Of(o) = SupportedOf(db, AskedKeys(db.source, managers[o].columns, FALSE))
      BY <1>4 DEF AskedOf
    <3>2. managers[o].columns = Requests[o]
      OBVIOUS
    <3> HIDE DEF Of
    <3> QED BY <1>3, <3>1, <3>2 DEF SupportedOf, AskedKeys, AsksHere
  <2> HIDE DEF m, Of
  <2>4. {o \in 1..m : k \in Of(o)} = {n}
    BY <2>2, <2>3
  <2> QED BY <2>4 DEF m, Of
<1>5. CASE ~Hashed
  <2>1. m = 1
    BY <1>5 DEF Requests
  <2>2. Of(1) = SupportedOf(db, Wished) \ ToSet(PrimaryKeys)
    BY <1>5 DEF AskedOf, Wished
  <2>3. k \in Of(1)
    BY <1>2, <1>5, <2>2
  <2> HIDE DEF m, Of
  <2>4. 1..m = {1}
    BY <2>1
  <2>5. {o \in 1..m : k \in Of(o)} = {1}
    BY <2>3, <2>4
  <2> QED BY <2>4, <2>5 DEF m, Of
<1> QED BY <1>4, <1>5

\* The invariant implies that every column is compared once.
LEMMA CInvCompares == CInv => RequestedColumnsAreCompared
<1> SUFFICES ASSUME CInv, Row, Aligned, Finished,
                    NEW k \in RequestedColumns \ (IF Hashed THEN {} ELSE ToSet(PrimaryKeys))
             PROVE  Cardinality(ComparedIn(k)) = 1
  BY DEF CInv, Compared, RequestedColumnsAreCompared
<1> DEFINE m == Len(Requests)
           Of(n) == AskedOf(managers[n])
           Read(n) == ReadBy(db, managers[n])
<1>1. /\ Given /\ stage = "validate" /\ Len(queries) = Len(managers)
      /\ managers \in Seq(ConfigSet(db)) /\ pending \in Seq(ColumnLists)
      /\ DOMAIN queries = 1..Len(queries)
      /\ queries = [n \in 1..Len(queries) |-> QueriesOf(db, managers[n])]
      /\ \A n \in 1..Len(queries) : Compiled(db, managers[n])
  BY DEF CInv, NInv, QInv, Finished, Waiting, Built, Asked
<1>2. /\ Progress(Requests) /\ ~(Hashed /\ args.columns.all /\ args.exclude)
      /\ \A n \in DOMAIN managers : RowBuilt(db, args, PrimaryKeys, managers[n])
  BY <1>1 DEF CInv, Compared
<1>3. Len(managers) = m /\ DOMAIN managers = 1..m /\ \A n \in 1..m : managers[n].columns = Requests[n]
  <2>1. /\ Len(managers) + 0 + Len(pending) = m /\ pending = <<>>
        /\ \A n \in 1..Len(managers) : managers[n].columns = Requests[n]
    BY <1>1, <1>2 DEF Progress, Building
  <2>2. Len(managers) \in Nat /\ Len(pending) = 0 /\ DOMAIN managers = 1..Len(managers)
    BY <1>1, <2>1
  <2> HIDE DEF m
  <2> QED BY <2>1, <2>2
<1>4. ASSUME NEW n \in 1..m
      PROVE  Read(n) = Of(n)
  <2> DEFINE c == managers[n]
  <2>1. c \in ConfigSet(db) /\ RowBuilt(db, args, PrimaryKeys, c) /\ Compiles(db["source"], "source", c)
    BY <1>1, <1>2, <1>3, SidesAre DEF Compiled
  <2> HIDE DEF c
  <2>2. ReadBy(db, c) = AskedOf(c)
    BY <1>1, <2>1, HashReads, FieldsReads
  <2> QED BY <2>2 DEF c
<1>5. ASSUME NEW n \in 1..m
      PROVE  k \in Read(n) <=> n \in ComparedIn(k)
  <2>1. n \in DOMAIN queries /\ queries[n].source = Query(db.source, "source", managers[n])
    BY <1>1, <1>3, SidesAre DEF QueriesOf
  <2> DEFINE Q == queries[n].source
             l == Len(managers[n].comparison)
  <2>2. Read(n) = UNION {Q[i].expr.reads : i \in 1..l}
    BY <2>1 DEF ReadBy
  <2>3. n \in ComparedIn(k) <=> \E i \in 1..l : k \in Q[i].expr.reads
    BY <2>1 DEF ComparedIn
  <2> HIDE DEF Q, l, Read
  <2> QED BY <2>2, <2>3
<1>6. ComparedIn(k) \subseteq 1..m
  BY <1>1, <1>3 DEF ComparedIn
<1>7. PICK n \in 1..m : {o \in 1..m : k \in Of(o)} = {n}
  BY <1>2, <1>3, AskedByOne
<1> HIDE DEF m, Of, Read
<1>8. ComparedIn(k) = {n}
  BY <1>4, <1>5, <1>6, <1>7
<1> QED BY <1>8, FS_Singleton

(* A row validation of supported columns that both tables have in the same *)
(* order gets to its queries, and each column that it was asked to compare *)
(* is read in exactly one of the configurations it is split into, for any  *)
(* tables and arguments (config_manager.py 1378-1406, cli_tools.py         *)
(* 1582-1601).                                                             *)
THEOREM AllCompared == Spec => []RequestedColumnsAreCompared
<1>1. Init => CInv
  BY QInvInit, NamedInit, ComparedInit DEF NInv, CInv
<1>2. Spec => []CInv
  BY <1>1, CInvInductive, PTL DEF Spec
<1> QED BY <1>2, CInvCompares, PTL
=============================================================================
