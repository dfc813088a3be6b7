---------------------------- MODULE MatchingProofs ----------------------------
(***************************************************************************)
(* Proofs about the comparison of schemas (SchemaValidation, in Matching): *)
(* every column is judged once, and differences of types are accepted in   *)
(* the direction that loses nothing, for any lists of columns of any       *)
(* types, exclusions and allow lists.  And about the matching of tables    *)
(* before it (FindTables): tables of the same name meet, for any catalogs. *)
(***************************************************************************)
EXTENDS Matching, ListLemmas

-----------------------------------------------------------------------------
(* The fields by name (CasefoldFields).                                    *)

\* Each name has a type, that of one of the fields called so.
LEMMA FieldsByName ==
  ASSUME NEW fields \in FieldLists
  PROVE  /\ DOMAIN CasefoldFields(fields) = Names(fields)
         /\ IsFiniteSet(Names(fields)) /\ "N/A" \notin Names(fields)
         /\ \A n \in Names(fields) :
              \E i \in DOMAIN fields : CasefoldFields(fields)[n] = fields[i][2]
<1>1. fields \in Seq((DOMAIN FoldName) \X FieldTypes)
  BY FieldListsAssumption
<1>2. DOMAIN fields = 1..Len(fields) /\ Len(fields) \in Nat
  BY <1>1
<1>3. DOMAIN CasefoldFields(fields) = Names(fields)
  BY DEF CasefoldFields, Names
<1>4. IsFiniteSet(Names(fields))
  <2> DEFINE f == [i \in 1..Len(fields) |-> FoldName[fields[i][1]]]
  <2>1. f \in Surjection(1..Len(fields), Names(fields))
    BY <1>2 DEF Surjection, Names
  <2>2. IsFiniteSet(1..Len(fields))
    BY <1>2, FS_Interval
  <2> QED BY <2>1, <2>2, FS_Surjection
<1>5. \A i \in DOMAIN fields : fields[i][1] \in DOMAIN FoldName
  BY <1>1
<1>6. "N/A" \notin Names(fields)
  BY <1>5, FoldNameAssumption DEF Names
<1>7. ASSUME NEW n \in Names(fields)
      PROVE  \E i \in DOMAIN fields : CasefoldFields(fields)[n] = fields[i][2]
  <2> DEFINE named == {i \in DOMAIN fields : FoldName[fields[i][1]] = n}
             last == CHOOSE i \in named : \A j \in named : j <= i
  <2>1. named \in SUBSET (1..Len(fields)) /\ named # {}
    BY <1>2 DEF Names
  <2>2. \E i \in named : \A j \in named : j <= i
    BY <1>2, <2>1, LastNumber
  <2>3. last \in named
    BY <2>2
  <2>4. CasefoldFields(fields)[n] = fields[last][2]
    BY DEF CasefoldFields, Names
  <2> QED BY <2>3, <2>4
<1> QED BY <1>3, <1>4, <1>6, <1>7

-----------------------------------------------------------------------------
(* The results (SchemaMatching).                                           *)

\* The result for one name that is on the sides S and T.
Judged(S, T, V, n) ==
  Result(IF n \in S THEN n ELSE "N/A", IF n \in T THEN n ELSE "N/A",
         IF n \in S \cap T THEN V[n] ELSE "fail")

AllJudged(S, T, V) == {Judged(S, T, V, n) : n \in S \cup T}

OneEach(R, S, T) ==
  /\ \A n \in S \cup T :
       \E r \in R :
         /\ {q \in R : n \in {q.source, q.target}} = {r}
         /\ r.source = (IF n \in S THEN n ELSE "N/A")
         /\ r.target = (IF n \in T THEN n ELSE "N/A")
         /\ r.status = "success" => n \in S \cap T
  /\ Cardinality(R) = Cardinality(S \cup T)

\* Results that are made for the names of both sides are one for each name.
LEMMA OneResultEach ==
  ASSUME NEW S, NEW T, NEW V, IsFiniteSet(S), IsFiniteSet(T), "N/A" \notin S \cup T, NEW R,
         R = AllJudged(S, T, V)
  PROVE  OneEach(R, S, T)
<1> DEFINE J(n) == Judged(S, T, V, n)
<1>1. \A n : /\ J(n).source = IF n \in S THEN n ELSE "N/A"
             /\ J(n).target = IF n \in T THEN n ELSE "N/A"
             /\ J(n).status = IF n \in S \cap T THEN V[n] ELSE "fail"
  BY DEF Judged, Result
<1>2. R = {J(n) : n \in S \cup T}
  BY DEF AllJudged
<1> HIDE DEF J
<1>3. \A n, m \in S \cup T : n \in {J(m).source, J(m).target} => n = m
  BY <1>1
<1>4. ASSUME NEW n \in S \cup T
      PROVE  \E r \in R :
               /\ {q \in R : n \in {q.source, q.target}} = {r}
               /\ r.source = (IF n \in S THEN n ELSE "N/A")
               /\ r.target = (IF n \in T THEN n ELSE "N/A")
               /\ r.status = "success" => n \in S \cap T
  <2>1. J(n) \in R /\ n \in {J(n).source, J(n).target}
    BY <1>1, <1>2
  <2>2. \A q \in R : n \in {q.source, q.target} => q = J(n)
    BY <1>2, <1>3
  <2>3. {q \in R : n \in {q.source, q.target}} = {J(n)}
    BY <2>1, <2>2
  <2>4. J(n).status = "success" => n \in S \cap T
    BY <1>1
  <2> QED BY <1>1, <2>1, <2>3, <2>4
<1>5. Cardinality(R) = Cardinality(S \cup T)
  <2> DEFINE f == [n \in S \cup T |-> J(n)]
  <2>1. f \in Bijection(S \cup T, R)
    <3>1. f \in [S \cup T -> R] /\ \A r \in R : \E n \in S \cup T : f[n] = r
      BY <1>2
    <3>2. \A n, m \in S \cup T : f[n] = f[m] => n = m
      <4>1. \A n \in S \cup T : n \in {J(n).source, J(n).target}
        BY <1>1
      <4> QED BY <1>3, <4>1
    <3> QED BY <3>1, <3>2 DEF Bijection, Injection, Surjection, IsInjective
  <2>2. IsFiniteSet(S \cup T) /\ ExistsBijection(S \cup T, R)
    BY <2>1, FS_Union DEF ExistsBijection
  <2> QED BY <2>2, FS_Bijection
<1> QED BY <1>4, <1>5 DEF OneEach

\* The verdicts on the names of both sides.
Verdicts(f, g, allowed, s, t) ==
  [n \in s \cap t |-> FieldStatus(CasefoldFields(f)[n], CasefoldFields(g)[n], allowed)]

\* What schema_validation_matching returns for two lists of fields.
LEMMA ResultsByName ==
  ASSUME NEW f \in FieldLists, NEW g \in FieldLists, NEW excluded, NEW allowed, NEW s, NEW t,
         s = Names(f) \ excluded, t = Names(g) \ excluded
  PROVE  SchemaMatching(f, g, excluded, allowed) = AllJudged(s, t, Verdicts(f, g, allowed, s, t))
<1> DEFINE F == Drop(CasefoldFields(f), excluded)
           G == Drop(CasefoldFields(g), excluded)
           V == Verdicts(f, g, allowed, s, t)
<1>1. DOMAIN F = s /\ DOMAIN G = t
  BY FieldsByName DEF Drop
<1>2. \A n \in s \cap t : FieldStatus(F[n], G[n], allowed) = V[n]
  BY FieldsByName DEF Drop, Verdicts
<1>3. SchemaMatching(f, g, excluded, allowed) =
        {Result(n, "N/A", "fail") : n \in DOMAIN F \ DOMAIN G}
          \cup {Result("N/A", n, "fail") : n \in DOMAIN G \ DOMAIN F}
          \cup {Result(n, n, FieldStatus(F[n], G[n], allowed)) : n \in DOMAIN F \cap DOMAIN G}
  BY DEF SchemaMatching
<1> HIDE DEF F, G, V
<1>4. /\ \A n \in s \ t : Judged(s, t, V, n) = Result(n, "N/A", "fail")
      /\ \A n \in t \ s : Judged(s, t, V, n) = Result("N/A", n, "fail")
      /\ \A n \in s \cap t : Judged(s, t, V, n) = Result(n, n, FieldStatus(F[n], G[n], allowed))
  BY <1>2 DEF Judged
<1>5. SchemaMatching(f, g, excluded, allowed) = {Judged(s, t, V, n) : n \in s \cup t}
  BY <1>1, <1>3, <1>4
<1> QED BY <1>5 DEF V, AllJudged

-----------------------------------------------------------------------------
(* The invariants of a run.                                                *)

\* The results are those of the schemas that were compared last.
LastResults ==
  /\ request \in Requests /\ validated \in Nat
  /\ IF validated = 0 THEN results = {}
     ELSE /\ schemas.source \in FieldLists /\ schemas.target \in FieldLists
          /\ results = SchemaMatching(schemas.source, schemas.target, request.excluded,
                                      AllowListMap(request.allowList))

\* The results are always those of two lists of fields, or there are none yet.
LEMMA AlwaysLastResults == Spec => []LastResults
<1>1. Init => LastResults
  BY DEF Init, LastResults
<1>2. LastResults /\ [Next]_vars => LastResults'
  <2> SUFFICES ASSUME LastResults, [Next]_vars PROVE LastResults'
    OBVIOUS
  <2>1. CASE ValidateNext
    <3>1. PICK s \in FieldLists, t \in FieldLists :
            \/ UNCHANGED <<validated, schemas, results>>
            \/ /\ schemas' = [source |-> s, target |-> t]
               /\ results' = SchemaMatching(s, t, request.excluded, AllowListMap(request.allowList))
               /\ validated' = validated + 1
      BY <2>1 DEF ValidateNext
    <3>2. request' = request
      BY <2>1 DEF ValidateNext
    <3>3. CASE UNCHANGED <<validated, schemas, results>>
      BY <3>2, <3>3 DEF LastResults
    <3>4. CASE /\ schemas' = [source |-> s, target |-> t]
               /\ results' = SchemaMatching(s, t, request.excluded, AllowListMap(request.allowList))
               /\ validated' = validated + 1
      BY <3>2, <3>4 DEF LastResults
    <3> QED BY <3>1, <3>3, <3>4
  <2>2. CASE UNCHANGED <<request, validated, schemas, results>>
    BY <2>2 DEF LastResults
  <2>3. ~ValidateNext => UNCHANGED <<request, validated, schemas, results>>
    BY DEF Next, ListTables, MatchNext, MatchingDone, Done, vars
  <2> QED BY <2>1, <2>2, <2>3
<1> QED BY <1>1, <1>2, PTL DEF Spec

\* Every column that is not excluded has exactly one result, with its namesake on the other
\* side, and fails if it has none.
THEOREM JudgedOnce == Spec => []EveryFieldJudgedOnce
<1>1. ASSUME LastResults PROVE EveryFieldJudgedOnce
  <2> DEFINE s == Names(schemas.source) \ request.excluded
             t == Names(schemas.target) \ request.excluded
  <2> SUFFICES ASSUME validated > 0 PROVE OneEach(results, s, t)
    BY DEF EveryFieldJudgedOnce, OneEach
  <2>1. /\ schemas.source \in FieldLists /\ schemas.target \in FieldLists
        /\ results = SchemaMatching(schemas.source, schemas.target, request.excluded,
                                    AllowListMap(request.allowList))
    BY <1>1 DEF LastResults
  <2>2. IsFiniteSet(s) /\ IsFiniteSet(t) /\ "N/A" \notin s \cup t
    BY <2>1, FieldsByName, FS_Subset
  <2>3. \E V : results = AllJudged(s, t, V)
    BY <2>1, ResultsByName
  <2> QED BY <2>2, <2>3, OneResultEach
<1> QED BY <1>1, AlwaysLastResults, PTL

\* A type is accepted in place of another in one direction only, unless the allow list
\* says otherwise.
LEMMA Widens ==
  ASSUME NEW s, NEW t, s.p \in Int, s.s \in Int, t.p \in Int, t.s \in Int,
         s.paren /\ s.name = "decimal" => s.p >= 0, s.paren => s.name = "decimal",
         HigherPrecision(s, t)
  PROVE  DecimalFits(s, t) /\ ~DecimalFits(t, s) /\ ~HigherPrecision(t, s)
<1>1. /\ s.paren /\ t.paren /\ s.name = "decimal" /\ s.p >= 0
      /\ PrecisionAndScale(s) = <<s.p, s.s>>
      /\ PrecisionAndScale(s)[1] <= PrecisionAndScale(t)[1]
      /\ PrecisionAndScale(s)[2] <= PrecisionAndScale(t)[2]
      /\ PrecisionAndScale(s) # PrecisionAndScale(t)
  BY DEF HigherPrecision, PrecisionAndScale
<1>2. t.name = "decimal" /\ PrecisionAndScale(t) = <<t.p, t.s>>
  BY <1>1 DEF PrecisionAndScale
<1>3. s.p <= t.p /\ s.s <= t.s /\ (s.p # t.p \/ s.s # t.s)
  BY <1>1, <1>2
<1> QED BY <1>1, <1>2, <1>3 DEF DecimalFits, HigherPrecision

\* Types that differ are accepted from the allow list, or as decimals that get wider and
\* never the other way.
THEOREM OnlyWiden == Spec => []AcceptedTypesOnlyWiden
<1>1. ASSUME LastResults PROVE AcceptedTypesOnlyWiden
  <2> DEFINE S == CasefoldFields(schemas.source)
             T == CasefoldFields(schemas.target)
             allowed == AllowListMap(request.allowList)
  <2> SUFFICES ASSUME NEW r \in results, r.status = "success", S[r.source] # T[r.target],
                      <<S[r.source], T[r.target]>> \notin allowed,
                      S[r.source].paren => S[r.source].name = "decimal"
               PROVE  /\ DecimalFits(S[r.source], T[r.target])
                      /\ ~DecimalFits(T[r.target], S[r.source])
                      /\ FieldStatus(T[r.target], S[r.source], {}) = "fail"
    BY DEF AcceptedTypesOnlyWiden
  <2> DEFINE s == Names(schemas.source) \ request.excluded
             t == Names(schemas.target) \ request.excluded
             V == Verdicts(schemas.source, schemas.target, allowed, s, t)
  <2>1. /\ schemas.source \in FieldLists /\ schemas.target \in FieldLists
        /\ results = SchemaMatching(schemas.source, schemas.target, request.excluded, allowed)
    BY <1>1 DEF LastResults
  <2>2. results = AllJudged(s, t, V)
    BY <2>1, ResultsByName
  <2> HIDE DEF V
  <2>3. PICK n \in s \cap t : /\ r.source = n /\ r.target = n
                              /\ V[n] = "success"
    BY <2>2 DEF AllJudged, Judged, Result
  <2>4. FieldStatus(S[n], T[n], allowed) = "success"
    BY <2>3 DEF V, Verdicts
  <2>5. HigherPrecision(S[n], T[n])
    BY <2>3, <2>4 DEF FieldStatus
  <2>6. ASSUME NEW f \in FieldLists, NEW m \in Names(f)
        PROVE  LET ty == CasefoldFields(f)[m]
               IN  /\ ty.p \in Int /\ ty.s \in Int
                   /\ ty.paren /\ ty.name = "decimal" => ty.p >= 0
    <3>1. PICK i \in DOMAIN f : CasefoldFields(f)[m] = f[i][2]
      BY <2>6, FieldsByName
    <3>2. f \in Seq((DOMAIN FoldName) \X FieldTypes)
      BY FieldListsAssumption
    <3>3. f[i] \in (DOMAIN FoldName) \X FieldTypes
      BY <3>2
    <3>4. f[i][2] \in FieldTypes
      BY <3>3
    <3> QED BY <3>1, <3>4, FieldListsAssumption DEF FieldTypes
  <2>7. n \in Names(schemas.source) /\ n \in Names(schemas.target)
    OBVIOUS
  <2>8. /\ S[n].p \in Int /\ S[n].s \in Int /\ T[n].p \in Int /\ T[n].s \in Int
        /\ S[n].paren /\ S[n].name = "decimal" => S[n].p >= 0
    BY <2>1, <2>6, <2>7
  <2>9. /\ DecimalFits(S[n], T[n]) /\ ~DecimalFits(T[n], S[n]) /\ ~HigherPrecision(T[n], S[n])
    <3> HIDE DEF S, T
    <3> QED BY <2>3, <2>5, <2>8, Widens
  <2> QED BY <2>3, <2>9 DEF FieldStatus
<1> QED BY <1>1, AlwaysLastResults, PTL

-----------------------------------------------------------------------------
(* The lists and maps of tables, element by element.                       *)

Entries == [key : Keys, table : Keys]

\* One turn of the loop that folds the keys of a table map.
MapStep(map, t) ==
  IF Casefold(t) = t \/ HasKey(map, Casefold(t)) THEN map
  ELSE Append(Keep(map, {e \in ToSet(map) : e.key # t}), Entry(Casefold(t), t))

\* Folding a key twice is folding it once.
LEMMA CasefoldType ==
  ASSUME NEW t \in Keys
  PROVE  Casefold(t) \in Keys /\ Casefold(Casefold(t)) = Casefold(t)
BY FoldAssumption DEF Keys, Casefold

\* Folding one key leaves a list of entries.
LEMMA MapStepType ==
  ASSUME NEW map \in Seq(Entries), NEW t \in Keys
  PROVE  MapStep(map, t) \in Seq(Entries)
<1>1. Keep(map, {e \in ToSet(map) : e.key # t}) \in Seq(Entries)
  BY KeepIs
<1>2. Entry(Casefold(t), t) \in Entries
  BY CasefoldType DEF Entry, Entries
<1> DEFINE kept == Keep(map, {e \in ToSet(map) : e.key # t})
           e == Entry(Casefold(t), t)
<1> HIDE DEF kept, e
<1>3. Append(kept, e) \in Seq(Entries)
  BY <1>1, <1>2 DEF kept, e
<1> QED BY <1>3 DEF MapStep, kept, e

\* v has the table map after each turn.
MapSteps(v, tables) ==
  /\ v \in [0..Len(tables) -> Seq(Entries)]
  /\ v[0] = [i \in DOMAIN tables |-> Entry(tables[i], tables[i])]
  /\ \A i \in 1..Len(tables) : v[i] = MapStep(v[i - 1], tables[i])
  /\ TableMap(tables) = v[Len(tables)]

\* The table map is made table by table.
LEMMA TableMapOf ==
  ASSUME NEW tables \in Seq(Keys)
  PROVE  \E v : MapSteps(v, tables)
<1> DEFINE n == Len(tables)
           T == Seq(Entries)
           base == [i \in DOMAIN tables |-> Entry(tables[i], tables[i])]
           B(x, i) == MapStep(x, tables[i])
           step == [p \in T \X (1..n) |-> B(p[1], p[2])]
           Goes(f) == f = [u \in SUBSET (1..n) |->
                            IF u = {} THEN base ELSE B(f[u \ {Max(u)}], Max(u))]
           f == CHOOSE f : Goes(f)
<1>1. n \in Nat /\ DOMAIN tables = 1..n /\ \A i \in 1..n : tables[i] \in Keys
  OBVIOUS
<1>2. base \in T
  BY <1>1 DEF Entries, Entry
<1>3. \A x \in T, i \in 1..n : B(x, i) \in T
  BY <1>1, MapStepType
<1>4. TableMap(tables) = f[1..n]
  <2>1. TableMap(tables) =
          (CHOOSE h : h = [u \in SUBSET (DOMAIN tables) |->
             IF u = {} THEN base ELSE B(h[u \ {Max(u)}], Max(u))])[DOMAIN tables]
    BY DEF TableMap, FoldLeft, MapThenFoldSet, B, MapStep, base
  <2> QED BY <1>1, <2>1
<1> HIDE DEF n, T, base, B
<1>5. step \in [T \X (1..n) -> T] /\ \A x \in T, i \in 1..n : step[<<x, i>>] = B(x, i)
  BY <1>3
<1> HIDE DEF step
<1>6. \A u \in SUBSET (1..n) : u # {} => u \ {Max(u)} \in SUBSET (1..n) /\ Max(u) \in 1..n
  BY <1>1, LastNumber
<1>7. \E h : Goes(h)
  <2>1. PICK h \in [SUBSET (1..n) -> T] : FoldOf(h, n, base, step)
    BY <1>1, <1>2, <1>5, FoldExists
  <2>2. ASSUME NEW u \in SUBSET (1..n)
        PROVE  h[u] = IF u = {} THEN base ELSE B(h[u \ {Max(u)}], Max(u))
    <3>1. h[u] = IF u = {} THEN base ELSE step[<<h[u \ {Max(u)}], Max(u)>>]
      BY <2>1 DEF FoldOf
    <3>2. u # {} => h[u \ {Max(u)}] \in T /\ Max(u) \in 1..n
      BY <2>1, <1>6
    <3> QED BY <1>5, <3>1, <3>2
  <2>3. h = [u \in SUBSET (1..n) |-> h[u]]
    BY <2>1
  <2> QED BY <2>2, <2>3
<1>8. Goes(f)
  BY <1>7
<1> HIDE DEF f
<1>9. f[{}] = base
  BY <1>8
<1>10. \A u \in SUBSET (1..n) :
         u # {} /\ f[u \ {Max(u)}] \in T => f[u] = step[<<f[u \ {Max(u)}], Max(u)>>]
  BY <1>5, <1>6, <1>8
<1> HIDE DEF Goes
<1>11. GoesBy(f, T, n, base, step)
  BY <1>9, <1>10 DEF GoesBy
<1>12. PICK v : StepsTo(v, f[1..n], T, n, base, step)
  BY <1>1, <1>2, <1>5, <1>11, FoldThrough
<1>13. ASSUME NEW i \in 1..n PROVE v[i] = B(v[i - 1], i)
  <2>1. v[i - 1] \in T
    BY <1>1, <1>12 DEF StepsTo
  <2> QED BY <1>5, <1>12, <2>1 DEF StepsTo
<1>14. MapSteps(v, tables)
  BY <1>1, <1>4, <1>12, <1>13 DEF n, T, base, B, StepsTo, MapSteps
<1> QED BY <1>14

\* What a closest match over the entries K can be.
ClosestScores(search, K, cutoff) == {cutoff} \cup {Similarity(search, e.key) : e \in K}
Matches(search, K, cutoff) ==
  [key : {<<>>} \cup {e.key : e \in K}, score : ClosestScores(search, K, cutoff)]

\* v has the best of the first keys, for each number of them.
ClosestSteps(v, search, K, map, cutoff) ==
  /\ v \in [0..Len(map) -> Matches(search, K, cutoff)]
  /\ v[0] = [NoMatch EXCEPT !.score = cutoff]
  /\ \A i \in 1..Len(map) :
       v[i] = IF Similarity(search, map[i].key) >= v[i - 1].score
                THEN [key |-> map[i].key, score |-> Similarity(search, map[i].key)]
                ELSE v[i - 1]
  /\ ClosestMatch(search, map, cutoff) = v[Len(map)]

\* The closest match is looked for key by key.
LEMMA ClosestOf ==
  ASSUME NEW search, NEW K, NEW map \in Seq(K), NEW cutoff
  PROVE  \E v : ClosestSteps(v, search, K, map, cutoff)
<1> DEFINE n == Len(map)
           T == Matches(search, K, cutoff)
           base == [NoMatch EXCEPT !.score = cutoff]
           B(x, i) == IF Similarity(search, map[i].key) >= x.score
                        THEN [key |-> map[i].key, score |-> Similarity(search, map[i].key)]
                        ELSE x
           step == [p \in T \X (1..n) |-> B(p[1], p[2])]
           Goes(f) == f = [u \in SUBSET (1..n) |->
                            IF u = {} THEN base ELSE B(f[u \ {Max(u)}], Max(u))]
           f == CHOOSE f : Goes(f)
<1>1. n \in Nat /\ DOMAIN map = 1..n /\ \A i \in 1..n : map[i] \in K
  OBVIOUS
<1>2. base \in T
  BY DEF NoMatch, Matches, ClosestScores
<1>3. \A x \in T, i \in 1..n : B(x, i) \in T
  BY <1>1 DEF Matches, ClosestScores
<1>4. ClosestMatch(search, map, cutoff) = f[1..n]
  <2>1. ClosestMatch(search, map, cutoff) =
          (CHOOSE h : h = [u \in SUBSET (DOMAIN map) |->
             IF u = {} THEN base ELSE B(h[u \ {Max(u)}], Max(u))])[DOMAIN map]
    BY DEF ClosestMatch, FoldLeft, MapThenFoldSet, B, base
  <2> QED BY <1>1, <2>1
<1> HIDE DEF n, T, base, B
<1>5. step \in [T \X (1..n) -> T] /\ \A x \in T, i \in 1..n : step[<<x, i>>] = B(x, i)
  BY <1>3
<1> HIDE DEF step
<1>6. \A u \in SUBSET (1..n) : u # {} => u \ {Max(u)} \in SUBSET (1..n) /\ Max(u) \in 1..n
  BY <1>1, LastNumber
<1>7. \E h : Goes(h)
  <2>1. PICK h \in [SUBSET (1..n) -> T] : FoldOf(h, n, base, step)
    BY <1>1, <1>2, <1>5, FoldExists
  <2>2. ASSUME NEW u \in SUBSET (1..n)
        PROVE  h[u] = IF u = {} THEN base ELSE B(h[u \ {Max(u)}], Max(u))
    <3>1. h[u] = IF u = {} THEN base ELSE step[<<h[u \ {Max(u)}], Max(u)>>]
      BY <2>1 DEF FoldOf
    <3>2. u # {} => h[u \ {Max(u)}] \in T /\ Max(u) \in 1..n
      BY <2>1, <1>6
    <3> QED BY <1>5, <3>1, <3>2
  <2>3. h = [u \in SUBSET (1..n) |-> h[u]]
    BY <2>1
  <2> QED BY <2>2, <2>3
<1>8. Goes(f)
  BY <1>7
<1> HIDE DEF f
<1>9. f[{}] = base
  BY <1>8
<1>10. \A u \in SUBSET (1..n) :
         u # {} /\ f[u \ {Max(u)}] \in T => f[u] = step[<<f[u \ {Max(u)}], Max(u)>>]
  BY <1>5, <1>6, <1>8
<1> HIDE DEF Goes
<1>11. GoesBy(f, T, n, base, step)
  BY <1>9, <1>10 DEF GoesBy
<1>12. PICK v : StepsTo(v, f[1..n], T, n, base, step)
  BY <1>1, <1>2, <1>5, <1>11, FoldThrough
<1>13. ASSUME NEW i \in 1..n PROVE v[i] = B(v[i - 1], i)
  <2>1. v[i - 1] \in T
    BY <1>1, <1>12 DEF StepsTo
  <2> QED BY <1>5, <1>12, <2>1 DEF StepsTo
<1>14. ClosestSteps(v, search, K, map, cutoff)
  BY <1>1, <1>4, <1>12, <1>13 DEF n, T, base, B, StepsTo, ClosestSteps
<1> QED BY <1>14

\* What a table map has for some tables, once the first n of them have been folded: an entry
\* for each, under its own name or that in small letters, and under the latter unless
\* another table has taken it.
Mapped(E, tables, n) ==
  /\ E \subseteq Entries
  /\ \A e, f \in E : e.key = f.key \/ e.table = f.table => e = f
  /\ \A e \in E : e.table \in ToSet(tables) /\ e.key \in {e.table, Casefold(e.table)}
  /\ \A t \in ToSet(tables) : \E e \in E : e.table = t
  /\ \A j \in 1..n : \A e \in E :
       e.table = tables[j] =>
         \/ e.key = Casefold(e.table)
         \/ \E u \in ToSet(tables) : u # e.table /\ Casefold(u) = Casefold(e.table)

\* Folding one more key keeps what has been said of the map.
LEMMA MapStepKeeps ==
  ASSUME NEW tables \in Seq(Keys), IsInjective(tables), NEW n \in 1..Len(tables),
         NEW map \in Seq(Entries), IsInjective(map), Mapped(ToSet(map), tables, n - 1)
  PROVE  /\ IsInjective(MapStep(map, tables[n]))
         /\ Mapped(ToSet(MapStep(map, tables[n])), tables, n)
<1> DEFINE t == tables[n]
           E == ToSet(map)
           next == MapStep(map, t)
           new == Entry(Casefold(t), t)
           kept == Keep(map, {e \in E : e.key # t})
<1>1. /\ t \in Keys /\ t \in ToSet(tables) /\ Casefold(t) \in Keys
      /\ Casefold(Casefold(t)) = Casefold(t)
  <2>1. t \in Keys /\ t \in ToSet(tables)
    BY DEF ToSet
  <2> QED BY <2>1, CasefoldType
<1>2. \A j \in 1..n : j \in 1..(n - 1) \/ tables[j] = t
  OBVIOUS
<1>3. \A j \in 1..(n - 1) : tables[j] # t
  <2>1. \A j \in 1..(n - 1) : j \in 1..Len(tables) /\ j # n
    OBVIOUS
  <2> QED BY <2>1 DEF IsInjective
<1>4. \A e \in E : e \in Entries /\ e.table \in Keys /\ Casefold(e.key) = Casefold(e.table)
  <2>1. ASSUME NEW e \in E
        PROVE  e \in Entries /\ e.table \in Keys /\ Casefold(e.key) = Casefold(e.table)
    <3>1. e \in Entries /\ e.table \in Keys /\ e.key \in {e.table, Casefold(e.table)}
      BY DEF Mapped, Entries
    <3> QED BY <3>1, CasefoldType
  <2> QED BY <2>1
<1>5. CASE Casefold(t) = t \/ HasKey(map, Casefold(t))
  <2>1. next = map
    BY <1>5 DEF MapStep
  <2>2. ASSUME NEW e \in E, e.table = t
        PROVE  \/ e.key = Casefold(t)
               \/ \E u \in ToSet(tables) : u # t /\ Casefold(u) = Casefold(t)
    <3>1. CASE Casefold(t) = t
      BY <2>2, <3>1 DEF Mapped
    <3>2. CASE HasKey(map, Casefold(t))
      <4>1. PICK f \in E : f.key = Casefold(t)
        BY <3>2 DEF HasKey, ToSet
      <4>2. Casefold(f.table) = Casefold(t) /\ f.table \in ToSet(tables)
        BY <1>1, <1>4, <4>1 DEF Mapped
      <4>3. f.table = t => f = e
        BY <2>2 DEF Mapped
      <4> QED BY <4>1, <4>2, <4>3
    <3> QED BY <1>5, <3>1, <3>2
  <2>3. Mapped(E, tables, n)
    BY <1>2, <2>2 DEF Mapped
  <2> QED BY <2>1, <2>3
<1>6. CASE ~(Casefold(t) = t \/ HasKey(map, Casefold(t)))
  <2>1. next = Append(kept, new)
    BY <1>6 DEF MapStep
  <2>2. kept \in Seq(Entries) /\ ToSet(kept) = E \cap {e \in E : e.key # t} /\ IsInjective(kept)
    BY KeepIs
  <2>3. \A e \in E : e.key # Casefold(t)
    BY <1>6 DEF HasKey, ToSet
  <2>4. \A e \in E : e.key = t <=> e.table = t
    <3>1. ASSUME NEW e \in E, e.key = t PROVE e.table = t
      <4>1. Casefold(e.table) = Casefold(t) /\ e.key \in {e.table, Casefold(e.table)}
        BY <1>4, <3>1 DEF Mapped
      <4> QED BY <1>6, <3>1, <4>1
    <3>2. ASSUME NEW e \in E, e.table = t PROVE e.key = t
      BY <2>3, <3>2 DEF Mapped
    <3> QED BY <3>1, <3>2
  <2>5. new.key = Casefold(t) /\ new.table = t /\ new \in Entries
    BY <1>1 DEF Entry, Entries
  <2>6. new \notin ToSet(kept)
    BY <2>2, <2>3, <2>5
  <2> DEFINE N == {e \in E : e.table # t} \cup {new}
  <2> HIDE DEF new, kept, next, E, t
  <2>7. ToSet(next) = N /\ IsInjective(next)
    <3>1. ToSet(Append(kept, new)) = ToSet(kept) \cup {new}
      BY <2>2, <2>5, AppendElements
    <3>2. IsInjective(kept) /\ new \notin ToSet(kept) => IsInjective(Append(kept, new))
      BY <2>2, <2>5, AppendElements
    <3>3. ToSet(kept) = {e \in E : e.table # t}
      BY <2>2, <2>4
    <3> QED BY <2>1, <2>2, <2>6, <3>1, <3>2, <3>3
  <2>8. Mapped(E, tables, n - 1)
    BY DEF E
  <2>9. \A e, f \in N : e.key = f.key \/ e.table = f.table => e = f
    BY <2>3, <2>5, <2>8 DEF Mapped
  <2>10. \A e \in N : /\ e \in Entries /\ e.table \in ToSet(tables)
                       /\ e.key \in {e.table, Casefold(e.table)}
    BY <1>1, <2>5, <2>8 DEF Mapped
  <2>11. \A u \in ToSet(tables) : \E e \in N : e.table = u
    BY <2>5, <2>8 DEF Mapped
  <2>12. ASSUME NEW j \in 1..n, NEW e \in N, e.table = tables[j]
         PROVE  \/ e.key = Casefold(e.table)
                \/ \E u \in ToSet(tables) : u # e.table /\ Casefold(u) = Casefold(e.table)
    <3>1. CASE e = new
      BY <2>5, <3>1
    <3>2. CASE e # new
      BY <1>2, <2>8, <2>12, <3>2 DEF Mapped
    <3> QED BY <3>1, <3>2
  <2>13. Mapped(N, tables, n)
    BY <2>9, <2>10, <2>11, <2>12 DEF Mapped
  <2> QED BY <2>7, <2>13 DEF next, t
<1> QED BY <1>5, <1>6

\* What the table map of some tables has.
LEMMA TableMapIs ==
  ASSUME NEW tables \in Seq(Keys), IsInjective(tables), NEW map, map = TableMap(tables)
  PROVE  map \in Seq(Entries) /\ IsInjective(map) /\ Mapped(ToSet(map), tables, Len(tables))
<1>1. PICK v : MapSteps(v, tables)
  BY TableMapOf
<1> DEFINE n == Len(tables)
           Good == {i \in 0..n : IsInjective(v[i]) /\ Mapped(ToSet(v[i]), tables, i)}
<1>2. /\ n \in Nat /\ v \in [0..n -> Seq(Entries)] /\ map = v[n]
      /\ v[0] = [i \in 1..n |-> Entry(tables[i], tables[i])]
      /\ \A i \in 1..n : v[i] = MapStep(v[i - 1], tables[i])
  BY <1>1 DEF MapSteps
<1>3. \A i \in 1..n : tables[i] \in Keys
  OBVIOUS
<1> HIDE DEF n
<1>4. 0 \in Good
  <2> DEFINE E == {Entry(tables[i], tables[i]) : i \in 1..n}
  <2>1. ToSet(v[0]) = E /\ ToSet(tables) = {tables[i] : i \in 1..n}
    <3>1. DOMAIN v[0] = 1..n /\ \A i \in 1..n : v[0][i] = Entry(tables[i], tables[i])
      BY <1>2
    <3>2. DOMAIN tables = 1..n
      BY DEF n
    <3> QED BY <3>1, <3>2 DEF ToSet
  <2>2. \A e \in E : e.key = e.table /\ e = Entry(e.table, e.table) /\ e.table \in ToSet(tables)
                     /\ e \in Entries
    BY <1>3, <2>1 DEF Entry, Entries
  <2>3. \A i, j \in 1..n : tables[i] = tables[j] => i = j
    BY DEF IsInjective, n
  <2>4. IsInjective(v[0])
    <3>1. DOMAIN v[0] = 1..n /\ \A i \in 1..n : v[0][i].table = tables[i]
      BY <1>2 DEF Entry
    <3> QED BY <2>3, <3>1 DEF IsInjective
  <2>5. \A t \in ToSet(tables) : \E e \in E : e.table = t
    <3>1. ASSUME NEW t \in ToSet(tables) PROVE \E e \in E : e.table = t
      <4>1. PICK i \in 1..n : t = tables[i]
        BY <2>1
      <4>2. Entry(t, t) \in E /\ Entry(t, t).table = t
        BY <4>1 DEF Entry
      <4> QED BY <4>2
    <3> QED BY <3>1
  <2>6. 1..0 = {} /\ 0 \in 0..n
    BY <1>2
  <2>7. Mapped(E, tables, 0)
    <3> HIDE DEF E
    <3> QED BY <2>2, <2>5, <2>6 DEF Mapped
  <2> QED BY <2>1, <2>4, <2>6, <2>7
<1>5. \A i \in 1..n : i - 1 \in Good => i \in Good
  <2>1. ASSUME NEW i \in 1..n, i - 1 \in Good PROVE i \in Good
    <3>1. v[i - 1] \in Seq(Entries) /\ i \in 0..n
      BY <1>2
    <3>2. IsInjective(v[i - 1]) /\ Mapped(ToSet(v[i - 1]), tables, i - 1)
      BY <2>1
    <3> QED BY <1>2, <3>1, <3>2, MapStepKeeps DEF n
  <2> QED BY <2>1
<1> HIDE DEF Good
<1>6. n \in Good
  <2>1. n \in 0..n
    BY <1>2
  <2>2. \A i \in 0..n : i \in Good
    BY <1>2, <1>4, <1>5, UpTo
  <2> QED BY <2>1, <2>2
<1>7. map \in Seq(Entries)
  BY <1>2
<1> QED BY <1>2, <1>6, <1>7 DEF Good, n

\* With the highest score as the cutoff, the closest match is the key itself.
LEMMA ClosestExact ==
  ASSUME NEW search \in Keys, NEW map \in Seq(Entries)
  PROVE  ClosestMatch(search, map, Same).key = IF HasKey(map, search) THEN search ELSE <<>>
<1> DEFINE n == Len(map)
           Best(i) == IF \E j \in 1..i : map[j].key = search THEN search ELSE <<>>
<1>1. PICK v : ClosestSteps(v, search, Entries, map, Same)
  BY ClosestOf
<1>2. /\ n \in Nat /\ DOMAIN map = 1..n /\ v[0] = [NoMatch EXCEPT !.score = Same]
      /\ \A i \in 1..n :
           v[i] = IF Similarity(search, map[i].key) >= v[i - 1].score
                    THEN [key |-> map[i].key, score |-> Similarity(search, map[i].key)]
                    ELSE v[i - 1]
      /\ ClosestMatch(search, map, Same) = v[n]
  BY <1>1 DEF ClosestSteps
<1>3. \A i \in 1..n : map[i].key \in Keys
  <2>1. \A i \in 1..n : map[i] \in Entries
    OBVIOUS
  <2> QED BY <2>1 DEF Entries
<1> HIDE DEF n
<1> DEFINE Good == {i \in 0..n : v[i].score = Same /\ v[i].key = Best(i)}
<1>4. 0 \in Good
  <2>1. v[0].score = Same /\ v[0].key = <<>>
    BY <1>2 DEF NoMatch
  <2>2. 1..0 = {} /\ 0 \in 0..n
    BY <1>2
  <2> QED BY <2>1, <2>2
<1>5. \A i \in 1..n : i - 1 \in Good => i \in Good
  <2>1. ASSUME NEW i \in 1..n, i - 1 \in Good PROVE i \in Good
    <3> DEFINE k == map[i].key
    <3>1. i \in 0..n /\ \A j \in 1..i : j \in 1..(i - 1) \/ j = i
      BY <1>2
    <3>2. \A j \in 1..(i - 1) : j \in 1..i
      BY <1>2
    <3>3. i \in 1..i
      BY <1>2
    <3>4. v[i - 1].score = Same /\ v[i - 1].key = Best(i - 1)
      BY <2>1
    <3>5. /\ Same \in Nat /\ Similarity(search, k) \in 0..Same
          /\ Similarity(search, k) = Same <=> search = k
      BY <1>3, SimilarityAssumption
    <3>6. Similarity(search, k) >= Same <=> search = k
      BY <3>5
    <3>7. v[i] = IF search = k THEN [key |-> k, score |-> Similarity(search, k)] ELSE v[i - 1]
      BY <1>2, <3>4, <3>6
    <3>8. v[i].score = Same /\ v[i].key = IF search = k THEN search ELSE Best(i - 1)
      BY <3>4, <3>5, <3>7
    <3>9. Best(i) = IF search = k THEN search ELSE Best(i - 1)
      BY <3>1, <3>2, <3>3
    <3> QED BY <3>1, <3>8, <3>9
  <2> QED BY <2>1
<1>6. n \in Good
  <2> HIDE DEF Good
  <2>1. n \in 0..n
    BY <1>2
  <2>2. \A i \in 0..n : i \in Good
    BY <1>2, <1>4, <1>5, UpTo
  <2> QED BY <2>1, <2>2
<1> QED BY <1>2, <1>6 DEF HasKey

\* The closest match is a key of the map, or there is none.
LEMMA ClosestIsAKey ==
  ASSUME NEW search, NEW map \in Seq(Entries), NEW cutoff
  PROVE  LET key == ClosestMatch(search, map, cutoff).key
         IN  key = <<>> \/ (HasKey(map, key) /\ At(map, key) \in Keys)
<1> DEFINE E == ToSet(map)
           key == ClosestMatch(search, map, cutoff).key
<1>1. map \in Seq(E) /\ Len(map) \in Nat
  BY DEF ToSet
<1>2. PICK v : ClosestSteps(v, search, E, map, cutoff)
  BY <1>1, ClosestOf
<1>3. v[Len(map)] \in Matches(search, E, cutoff) /\ ClosestMatch(search, map, cutoff) = v[Len(map)]
  <2>1. Len(map) \in 0..Len(map)
    BY <1>1
  <2> QED BY <1>2, <2>1 DEF ClosestSteps
<1>4. key \in {<<>>} \cup {e.key : e \in E}
  BY <1>3 DEF Matches
<1> HIDE DEF key
<1>5. ASSUME HasKey(map, key) PROVE At(map, key) \in Keys
  <2>1. \A i \in DOMAIN map : map[i] \in Entries
    OBVIOUS
  <2> QED BY <1>5, <2>1 DEF HasKey, At, Entries
<1>6. key = <<>> \/ HasKey(map, key)
  BY <1>4 DEF HasKey, ToSet
<1> QED BY <1>5, <1>6 DEF key

\* The tables listed: those of the catalog whose schema is allowed and can be listed.
LEMMA ListedIs ==
  ASSUME NEW tables \in Seq(Keys), IsInjective(tables), NEW allowed, NEW us, NEW s,
         s = GetAllTables(tables, allowed, us)
  PROVE  /\ s \in Seq(Keys) /\ IsInjective(s)
         /\ ToSet(s) = {t \in ToSet(tables) : t[1] \notin us /\ (allowed # {} => t[1] \in allowed)}
<1> DEFINE S == {t \in Keys : t[1] \notin us /\ (allowed # {} => t[1] \in allowed)}
<1>1. s = Keep(tables, S)
  BY DEF GetAllTables
<1>2. ToSet(tables) \subseteq Keys
  BY DEF ToSet
<1>3. S \cap ToSet(tables) =
        {t \in ToSet(tables) : t[1] \notin us /\ (allowed # {} => t[1] \in allowed)}
  BY <1>2
<1> HIDE DEF S
<1> QED BY <1>1, <1>3, KeepIs

-----------------------------------------------------------------------------
(* The tables matched.                                                     *)

Pairs == [source : Keys, target : Keys]

\* Each table of the source is still to match or has been, once.
EachSourceOnce ==
  /\ sources \in Seq(Entries) /\ configs \in Seq(Pairs)
  /\ \A i, j \in DOMAIN sources : sources[i].table = sources[j].table => i = j
  /\ \A i, j \in DOMAIN configs : configs[i].source = configs[j].source => i = j
  /\ \A i \in DOMAIN sources, j \in DOMAIN configs : sources[i].table # configs[j].source

\* What only equal names give: the listed tables of the source are matched with their
\* namesakes or still to match.
NamesakesSoFar ==
  ExactOnly /\ CaseDistinct("target") =>
    /\ \A i \in DOMAIN configs : Namesakes(configs[i].source, configs[i].target)
    /\ \A s \in Listable("source", request.allowed), t \in Listable("target", {}) :
         Namesakes(s, t) =>
           \/ \E i \in DOMAIN sources : sources[i].table = s
           \/ \E i \in DOMAIN configs : configs[i] = [source |-> s, target |-> t]

\* The state of the matching at any time.
MatchedSoFar ==
  /\ catalog \in Catalogs /\ request \in Requests
  /\ stage = "list" => configs = <<>>
  /\ stage # "list" =>
       /\ targets = TableMap(GetAllTables(catalog.target, {}, unlisted.target))
       /\ EachSourceOnce /\ NamesakesSoFar
  /\ stage \in {"validate", "raised"} => sources = <<>>

\* The key by which a table of the source is looked for.
LEMMA LookupType ==
  ASSUME request \in Requests, NEW t \in Keys
  PROVE  /\ LookupKey(t, request.schemaMap) \in Keys
         /\ Casefold(LookupKey(t, request.schemaMap)) = LookupKey(t, request.schemaMap)
<1>1. MappedSchema(request.schemaMap, t[1]) \in DOMAIN Fold /\ t[2] \in DOMAIN Fold
  BY RequestsAssumption DEF MappedSchema, Keys
<1>2. <<MappedSchema(request.schemaMap, t[1]), t[2]>> \in Keys
  BY <1>1 DEF Keys
<1> QED BY <1>2, CasefoldType DEF LookupKey

\* The catalog lists tables.
LEMMA CatalogType ==
  ASSUME catalog \in Catalogs, NEW side \in {"source", "target"}
  PROVE  catalog[side] \in Seq(Keys) /\ IsInjective(catalog[side])
BY CatalogsAssumption

\* What the table map of the target has.
LEMMA TargetsAre ==
  ASSUME catalog \in Catalogs,
         targets = TableMap(GetAllTables(catalog.target, {}, unlisted.target))
  PROVE  /\ targets \in Seq(Entries)
         /\ \A i, j \in DOMAIN targets : targets[i].key = targets[j].key => i = j
         /\ \A i \in DOMAIN targets :
              /\ targets[i].table \in Keys
              /\ targets[i].key \in {targets[i].table, Casefold(targets[i].table)}
         /\ CaseDistinct("target") =>
              \A t \in Listable("target", {}) :
                \E i \in DOMAIN targets : targets[i] = Entry(Casefold(t), t)
<1> DEFINE tables == GetAllTables(catalog.target, {}, unlisted.target)
           E == ToSet(targets)
<1>1. /\ tables \in Seq(Keys) /\ IsInjective(tables) /\ ToSet(tables) = Listable("target", {})
  <2>1. catalog["target"] \in Seq(Keys) /\ IsInjective(catalog["target"])
    BY CatalogType
  <2> QED BY <2>1, ListedIs DEF Listable
<1> HIDE DEF tables
<1>2. targets \in Seq(Entries) /\ IsInjective(targets) /\ Mapped(E, tables, Len(tables))
  BY <1>1, TableMapIs DEF tables
<1>3. \A i, j \in DOMAIN targets : targets[i].key = targets[j].key => i = j
  <2>1. \A i \in DOMAIN targets : targets[i] \in E
    BY DEF ToSet
  <2>2. \A e, f \in E : e.key = f.key => e = f
    BY <1>2 DEF Mapped
  <2> QED BY <1>2, <2>1, <2>2 DEF IsInjective
<1>4. \A i \in DOMAIN targets :
        /\ targets[i].table \in Keys
        /\ targets[i].key \in {targets[i].table, Casefold(targets[i].table)}
  <2>1. \A i \in DOMAIN targets : targets[i] \in E
    BY DEF ToSet
  <2>2. \A e \in E : e.table \in Keys /\ e.key \in {e.table, Casefold(e.table)}
    BY <1>2 DEF Mapped, Entries
  <2> QED BY <2>1, <2>2
<1>5. ASSUME CaseDistinct("target"), NEW t \in Listable("target", {})
      PROVE  \E i \in DOMAIN targets : targets[i] = Entry(Casefold(t), t)
  <2>1. PICK e \in E : e.table = t
    BY <1>1, <1>2 DEF Mapped
  <2>2. PICK i \in DOMAIN targets : e = targets[i]
    BY DEF ToSet
  <2>3. PICK j \in 1..Len(tables) : t = tables[j]
    <3>1. DOMAIN tables = 1..Len(tables)
      BY <1>1
    <3> QED BY <1>1, <3>1 DEF ToSet
  <2>4. \A u \in ToSet(tables) : u # t => Casefold(u) # Casefold(t)
    BY <1>1, <1>5 DEF CaseDistinct, Listable
  <2>5. e.key = Casefold(t)
    BY <1>2, <2>1, <2>3, <2>4 DEF Mapped
  <2>6. e \in Entries
    BY <1>2 DEF Mapped
  <2>7. e = [key |-> e.key, table |-> e.table]
    BY <2>6 DEF Entries
  <2> QED BY <2>1, <2>2, <2>5, <2>7 DEF Entry
<1> QED BY <1>2, <1>3, <1>4, <1>5

\* Listing starts the matching: nothing is matched, and every table listed is to be.
LEMMA ListingStarts ==
  ASSUME MatchedSoFar, ListTables
  PROVE  MatchedSoFar'
<1>1. PICK us, ut : /\ unlisted' = [source |-> us, target |-> ut]
                    /\ sources' = TableMap(GetAllTables(catalog.source, request.allowed, us))
                    /\ targets' = TableMap(GetAllTables(catalog.target, {}, ut))
  BY DEF ListTables
<1>2. /\ stage' = "match" /\ catalog' = catalog /\ request' = request
      /\ configs' = <<>> /\ catalog \in Catalogs /\ request \in Requests
  BY DEF ListTables, MatchedSoFar
<1>3. targets' = TableMap(GetAllTables(catalog'.target, {}, unlisted'.target))
  BY <1>1, <1>2
<1> DEFINE tables == GetAllTables(catalog.source, request.allowed, us)
           E == ToSet(sources')
<1>4. /\ tables \in Seq(Keys) /\ IsInjective(tables)
      /\ ToSet(tables) = Listable("source", request.allowed)'
  <2>1. catalog["source"] \in Seq(Keys) /\ IsInjective(catalog["source"])
    BY <1>2, CatalogType
  <2> QED BY <1>1, <1>2, <2>1, ListedIs DEF Listable
<1> HIDE DEF tables
<1>5. sources' \in Seq(Entries) /\ IsInjective(sources') /\ Mapped(E, tables, Len(tables))
  BY <1>1, <1>4, TableMapIs DEF tables
<1>6. \A i, j \in DOMAIN sources' : sources'[i].table = sources'[j].table => i = j
  <2>1. \A i \in DOMAIN sources' : sources'[i] \in E
    BY DEF ToSet
  <2>2. \A e, f \in E : e.table = f.table => e = f
    BY <1>5 DEF Mapped
  <2> QED BY <1>5, <2>1, <2>2 DEF IsInjective
<1>7. \A s \in Listable("source", request.allowed)' :
        \E i \in DOMAIN sources' : sources'[i].table = s
  <2>1. \A s \in Listable("source", request.allowed)' : \E e \in E : e.table = s
    BY <1>4, <1>5 DEF Mapped
  <2> QED BY <2>1 DEF ToSet
<1>8. DOMAIN configs' = {} /\ configs' \in Seq(Pairs)
  BY <1>2
<1>9. EachSourceOnce'
  BY <1>5, <1>6, <1>8 DEF EachSourceOnce
<1>10. NamesakesSoFar'
  BY <1>7, <1>8 DEF NamesakesSoFar
<1> QED BY <1>2, <1>3, <1>9, <1>10 DEF MatchedSoFar

\* A table that is matched is so once, with a namesake if only equal names match.
LEMMA OneMatch ==
  ASSUME MatchedSoFar, MatchNext
  PROVE  MatchedSoFar'
<1> DEFINE e == Head(sources)
           L == LookupKey(e.table, request.schemaMap)
           new == MatchTable(e, targets, request.cutoff, request.schemaMap)
<1>1. /\ stage = "match" /\ stage' = "match" /\ sources # <<>> /\ sources' = Tail(sources)
      /\ configs' = configs \o new /\ catalog' = catalog /\ request' = request
      /\ targets' = targets /\ unlisted' = unlisted
  BY DEF MatchNext
<1>2. /\ catalog \in Catalogs /\ request \in Requests
      /\ targets = TableMap(GetAllTables(catalog.target, {}, unlisted.target))
      /\ EachSourceOnce /\ NamesakesSoFar
  BY <1>1 DEF MatchedSoFar
<1>3. /\ sources \in Seq(Entries) /\ Len(sources) \in Nat \ {0} /\ 1 \in DOMAIN sources
      /\ e = sources[1] /\ e \in Entries /\ e.table \in Keys
      /\ sources' \in Seq(Entries) /\ DOMAIN sources = 1..Len(sources)
      /\ DOMAIN sources' = 1..(Len(sources) - 1)
      /\ \A i \in DOMAIN sources' : i + 1 \in DOMAIN sources /\ sources'[i] = sources[i + 1]
      /\ \A i \in DOMAIN sources :
           i = 1 \/ (i - 1 \in DOMAIN sources' /\ sources[i] = sources'[i - 1])
  <2>1. sources \in Seq(Entries) /\ sources # <<>>
    BY <1>1, <1>2 DEF EachSourceOnce
  <2>2. Len(sources) \in Nat \ {0} /\ DOMAIN sources = 1..Len(sources) /\ e = sources[1]
    BY <2>1
  <2>3. /\ Tail(sources) \in Seq(Entries) /\ DOMAIN Tail(sources) = 1..(Len(sources) - 1)
        /\ \A i \in 1..(Len(sources) - 1) : Tail(sources)[i] = sources[i + 1]
    BY <2>1
  <2>4. 1 \in DOMAIN sources /\ e \in Entries /\ e.table \in Keys
    <3>1. 1 \in DOMAIN sources /\ e \in Entries
      BY <2>1, <2>2
    <3> QED BY <3>1 DEF Entries
  <2>5. /\ \A i \in 1..(Len(sources) - 1) : i + 1 \in 1..Len(sources)
        /\ \A i \in 1..Len(sources) :
             i = 1 \/ (i - 1 \in 1..(Len(sources) - 1) /\ (i - 1) + 1 = i)
    BY <2>2
  <2> QED BY <1>1, <2>1, <2>2, <2>3, <2>4, <2>5
<1>4. L \in Keys /\ Casefold(L) = L
  BY <1>2, <1>3, LookupType
<1>5. targets \in Seq(Entries)
  BY <1>2, TargetsAre
<1> HIDE DEF e, L
<1>6. new = <<>> \/ \E t \in Keys : new = << [source |-> e.table, target |-> t] >>
  <2> DEFINE key == ClosestMatch(L, targets, request.cutoff).key
  <2>1. key = <<>> \/ At(targets, key) \in Keys
    BY <1>5, ClosestIsAKey
  <2>2. new = IF key = <<>> THEN <<>> ELSE << [source |-> e.table, target |-> At(targets, key)] >>
    BY DEF MatchTable, L
  <2> HIDE DEF key, new
  <2> QED BY <2>1, <2>2
<1>7. ASSUME ExactOnly
      PROVE  new = IF HasKey(targets, L)
                     THEN << [source |-> e.table, target |-> At(targets, L)] >> ELSE <<>>
  <2>1. ClosestMatch(L, targets, request.cutoff).key = IF HasKey(targets, L) THEN L ELSE <<>>
    BY <1>4, <1>5, <1>7, ClosestExact DEF ExactOnly
  <2>2. L # <<>>
    <3>1. L = <<L[1], L[2]>>
      BY <1>4 DEF Keys
    <3>2. \A a, b : <<a, b>> # <<>>
      OBVIOUS
    <3> QED BY <3>1, <3>2
  <2>3. new = IF ClosestMatch(L, targets, request.cutoff).key = <<>> THEN <<>>
              ELSE << [source |-> e.table,
                       target |-> At(targets, ClosestMatch(L, targets, request.cutoff).key)] >>
    BY DEF MatchTable, L
  <2> QED BY <2>1, <2>2, <2>3
<1> HIDE DEF new
<1>8. /\ configs \in Seq(Pairs) /\ Len(configs) \in Nat /\ configs' \in Seq(Pairs)
      /\ DOMAIN configs = 1..Len(configs)
      /\ \A i \in 1..Len(configs) : i \in DOMAIN configs' /\ configs'[i] = configs[i]
      /\ \/ new = <<>> /\ DOMAIN configs' = 1..Len(configs)
         \/ /\ DOMAIN configs' = 1..(Len(configs) + 1) /\ Len(configs) + 1 \in DOMAIN configs'
            /\ configs'[Len(configs) + 1].source = e.table
            /\ new = << configs'[Len(configs) + 1] >>
  <2>1. configs \in Seq(Pairs)
    BY <1>2 DEF EachSourceOnce
  <2>2. Len(configs) \in Nat /\ DOMAIN configs = 1..Len(configs)
    BY <2>1
  <2>3. CASE new = <<>>
    <3>1. configs' = configs
      BY <1>1, <2>1, <2>3
    <3> QED BY <2>1, <2>2, <2>3, <3>1
  <2>4. ASSUME NEW t \in Keys, new = << [source |-> e.table, target |-> t] >>
        PROVE  /\ configs' \in Seq(Pairs)
               /\ \A i \in 1..Len(configs) : i \in DOMAIN configs' /\ configs'[i] = configs[i]
               /\ DOMAIN configs' = 1..(Len(configs) + 1) /\ Len(configs) + 1 \in DOMAIN configs'
               /\ configs'[Len(configs) + 1].source = e.table
               /\ new = << configs'[Len(configs) + 1] >>
    <3> DEFINE c == [source |-> e.table, target |-> t]
    <3>1. c \in Pairs /\ c.source = e.table
      BY <1>3, <2>4 DEF Pairs
    <3>2. new = <<c>>
      BY <2>4
    <3> HIDE DEF c
    <3>3. configs' = configs \o <<c>>
      BY <1>1, <3>2
    <3>4. /\ configs \o <<c>> \in Seq(Pairs)
          /\ DOMAIN (configs \o <<c>>) = 1..(Len(configs) + 1)
          /\ (configs \o <<c>>)[Len(configs) + 1] = c
          /\ \A i \in 1..Len(configs) : (configs \o <<c>>)[i] = configs[i]
      BY <2>1, <3>1
    <3>5. Len(configs) + 1 \in 1..(Len(configs) + 1)
          /\ \A i \in 1..Len(configs) : i \in 1..(Len(configs) + 1)
      BY <2>2
    <3> QED BY <3>1, <3>2, <3>3, <3>4, <3>5
  <2> QED BY <1>6, <2>1, <2>2, <2>3, <2>4
<1>9. \A i \in DOMAIN configs' :
        \/ i \in DOMAIN configs /\ configs'[i] = configs[i]
        \/ i = Len(configs) + 1 /\ configs'[i].source = e.table /\ new = << configs'[i] >>
  BY <1>8
<1>10. EachSourceOnce'
  <2>1. \A i, j \in DOMAIN sources' : sources'[i].table = sources'[j].table => i = j
    <3>1. ASSUME NEW i \in DOMAIN sources', NEW j \in DOMAIN sources',
                 sources'[i].table = sources'[j].table
          PROVE  i = j
      <4>1. i + 1 = j + 1
        BY <1>2, <1>3, <3>1 DEF EachSourceOnce
      <4> QED BY <1>3, <4>1
    <3> QED BY <3>1
  <2>2. \A i \in DOMAIN sources' : sources'[i].table # e.table
    <3>1. ASSUME NEW i \in DOMAIN sources', sources'[i].table = e.table PROVE FALSE
      <4>1. i + 1 = 1
        BY <1>2, <1>3, <3>1 DEF EachSourceOnce
      <4> QED BY <1>3, <4>1
    <3> QED BY <3>1
  <2>3. \A i \in DOMAIN configs : configs[i].source # e.table
    BY <1>2, <1>3 DEF EachSourceOnce
  <2>4. \A i, j \in DOMAIN configs' : configs'[i].source = configs'[j].source => i = j
    BY <1>2, <1>9, <2>3 DEF EachSourceOnce
  <2>5. \A i \in DOMAIN sources', j \in DOMAIN configs' : sources'[i].table # configs'[j].source
    BY <1>2, <1>3, <1>9, <2>2 DEF EachSourceOnce
  <2> QED BY <1>3, <1>8, <2>1, <2>4, <2>5 DEF EachSourceOnce
<1>11. ASSUME ExactOnly, CaseDistinct("target"), NEW i \in DOMAIN configs', i \notin DOMAIN configs
       PROVE  Namesakes(configs'[i].source, configs'[i].target)
  <2>1. configs'[i].source = e.table /\ new = << configs'[i] >>
    BY <1>9, <1>11
  <2>2. HasKey(targets, L) /\ configs'[i].target = At(targets, L)
    <3>1. new # <<>> /\ new[1] = configs'[i]
      BY <2>1
    <3> QED BY <1>7, <1>11, <3>1
  <2>3. PICK j \in DOMAIN targets : targets[j].key = L /\ At(targets, L) = targets[j].table
    BY <2>2 DEF HasKey, At
  <2>4. targets[j].table \in Keys /\ L \in {targets[j].table, Casefold(targets[j].table)}
    BY <1>2, <2>3, TargetsAre
  <2>5. Casefold(targets[j].table) = L
    BY <1>4, <2>4, CasefoldType
  <2> QED BY <2>1, <2>2, <2>3, <2>5 DEF Namesakes, L
<1>12. ASSUME ExactOnly, CaseDistinct("target"), NEW t \in Listable("target", {}),
              Namesakes(e.table, t)
       PROVE  \E i \in DOMAIN configs' : configs'[i] = [source |-> e.table, target |-> t]
  <2>1. L = Casefold(t)
    BY <1>12 DEF Namesakes, L
  <2>2. PICK j \in DOMAIN targets : targets[j] = Entry(Casefold(t), t)
    BY <1>2, <1>12, TargetsAre
  <2>3. targets[j].key = L /\ targets[j].table = t
    BY <2>1, <2>2 DEF Entry
  <2>4. \A i \in DOMAIN targets : targets[i].key = L => i = j
    BY <1>2, <2>3, TargetsAre
  <2>5. HasKey(targets, L) /\ At(targets, L) = t
    BY <2>3, <2>4 DEF HasKey, At
  <2>6. new = << [source |-> e.table, target |-> t] >>
    BY <1>7, <1>12, <2>5
  <2>7. new # <<>> /\ new[1] = [source |-> e.table, target |-> t]
    BY <2>6
  <2>8. \E i \in DOMAIN configs' : new = << configs'[i] >>
    BY <1>8, <2>7
  <2>9. PICK i \in DOMAIN configs' : new[1] = configs'[i]
    BY <2>8
  <2> QED BY <2>7, <2>9
<1>13. NamesakesSoFar'
  <2> SUFFICES
        ASSUME ExactOnly, CaseDistinct("target")
        PROVE  /\ \A i \in DOMAIN configs' : Namesakes(configs'[i].source, configs'[i].target)
               /\ \A s \in Listable("source", request.allowed), t \in Listable("target", {}) :
                    Namesakes(s, t) =>
                      \/ \E i \in DOMAIN sources' : sources'[i].table = s
                      \/ \E i \in DOMAIN configs' : configs'[i] = [source |-> s, target |-> t]
    BY <1>1 DEF NamesakesSoFar, ExactOnly, CaseDistinct, Listable, Namesakes
  <2>1. \A i \in DOMAIN configs' : Namesakes(configs'[i].source, configs'[i].target)
    <3>1. \A i \in DOMAIN configs : Namesakes(configs[i].source, configs[i].target)
      BY <1>2 DEF NamesakesSoFar
    <3>2. ASSUME NEW i \in DOMAIN configs'
          PROVE  Namesakes(configs'[i].source, configs'[i].target)
      <4>1. CASE i \in DOMAIN configs
        BY <1>9, <3>1, <4>1, <1>8
      <4>2. CASE i \notin DOMAIN configs
        BY <1>11, <4>2
      <4> QED BY <4>1, <4>2
    <3> QED BY <3>2
  <2>2. ASSUME NEW s \in Listable("source", request.allowed), NEW t \in Listable("target", {}),
               Namesakes(s, t)
        PROVE  \/ \E i \in DOMAIN sources' : sources'[i].table = s
               \/ \E i \in DOMAIN configs' : configs'[i] = [source |-> s, target |-> t]
    <3>1. \/ \E i \in DOMAIN sources : sources[i].table = s
          \/ \E i \in DOMAIN configs : configs[i] = [source |-> s, target |-> t]
      BY <1>2, <2>2 DEF NamesakesSoFar
    <3>2. CASE s = e.table
      BY <1>12, <2>2, <3>2
    <3>3. ASSUME NEW i \in DOMAIN sources, sources[i].table = s, s # e.table
          PROVE  \E j \in DOMAIN sources' : sources'[j].table = s
      BY <1>3, <3>3
    <3>4. ASSUME NEW i \in DOMAIN configs, configs[i] = [source |-> s, target |-> t]
          PROVE  \E j \in DOMAIN configs' : configs'[j] = [source |-> s, target |-> t]
      BY <1>8, <3>4
    <3> QED BY <3>1, <3>2, <3>3, <3>4
  <2> QED BY <2>1, <2>2
<1> QED BY <1>1, <1>2, <1>10, <1>13 DEF MatchedSoFar

\* What is matched stays so when the schemas are compared.
LEMMA MatchedStays ==
  ASSUME MatchedSoFar, stage # "list", stage' # "list",
         stage' \in {"validate", "raised"} => sources = <<>>,
         UNCHANGED <<catalog, request, sources, targets, unlisted, configs>>
  PROVE  MatchedSoFar'
<1>1. EachSourceOnce' <=> EachSourceOnce
  BY DEF EachSourceOnce
<1>2. NamesakesSoFar' <=> NamesakesSoFar
  BY DEF NamesakesSoFar, ExactOnly, CaseDistinct, Listable, Namesakes
<1> QED BY <1>1, <1>2 DEF MatchedSoFar

\* The state of the matching is always as described.
LEMMA AlwaysMatchedSoFar == Spec => []MatchedSoFar
<1>1. Init => MatchedSoFar
  BY DEF Init, MatchedSoFar
<1>2. MatchedSoFar /\ [Next]_vars => MatchedSoFar'
  <2> SUFFICES ASSUME MatchedSoFar, [Next]_vars PROVE MatchedSoFar'
    OBVIOUS
  <2>1. CASE ListTables
    BY <2>1, ListingStarts
  <2>2. CASE MatchNext
    BY <2>2, OneMatch
  <2>3. CASE MatchingDone
    BY <2>3, MatchedStays DEF MatchingDone
  <2>4. CASE ValidateNext
    <3>1. /\ stage = "validate" /\ stage' \in {"validate", "raised"}
          /\ UNCHANGED <<catalog, request, sources, targets, unlisted, configs>>
      BY <2>4 DEF ValidateNext
    <3>2. sources = <<>>
      BY <3>1 DEF MatchedSoFar
    <3> QED BY <3>1, <3>2, MatchedStays
  <2>5. CASE UNCHANGED vars
    BY <2>5 DEF vars, MatchedSoFar, EachSourceOnce, NamesakesSoFar, ExactOnly, CaseDistinct,
                Listable, Namesakes
  <2> QED BY <2>1, <2>2, <2>3, <2>4, <2>5 DEF Next, Done
<1> QED BY <1>1, <1>2, PTL DEF Spec

\* Tables that have the same name, case and mapped schema aside, are matched, and no table
\* of the source is compared twice.
THEOREM NamesakesMeet == Spec => []NamesakesAreMatched
<1>1. ASSUME MatchedSoFar PROVE NamesakesAreMatched
  <2> SUFFICES ASSUME stage \in {"validate", "raised"} PROVE NamesakesAreMatched
    BY DEF NamesakesAreMatched
  <2>1. sources = <<>> /\ EachSourceOnce /\ NamesakesSoFar
    BY <1>1 DEF MatchedSoFar
  <2>2. DOMAIN sources = {}
    BY <2>1
  <2> QED BY <2>1, <2>2 DEF NamesakesAreMatched, EachSourceOnce, NamesakesSoFar
<1> QED BY <1>1, AlwaysMatchedSoFar, PTL
=============================================================================
