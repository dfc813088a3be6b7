----------------------------- MODULE FindTables -----------------------------
(***************************************************************************)
(* find-tables and table lists of "schema.*": the tables of either side    *)
(* under keys to search them by, and the closest key of the target for     *)
(* each table of the source (find_tables.py, jellyfish_distance.py).  A    *)
(* table is <<schema, name>> as its engine spells it, and so is a key.     *)
(***************************************************************************)
EXTENDS Naturals, Sequences, FiniteSets, SequencesExt, Lists

CONSTANTS Fold,               \* str.casefold of every name in use
          Same,               \* the score of equal keys
          Similarity(_, _)    \* jaro_similarity of two keys: 0..Same

\* Folding a name twice is folding it once.
ASSUME FoldAssumption ==
  \A n \in DOMAIN Fold : Fold[n] \in DOMAIN Fold /\ Fold[Fold[n]] = Fold[n]

Keys == (DOMAIN Fold) \X (DOMAIN Fold)

\* Equal keys have the highest score, and no others do.
ASSUME SimilarityAssumption ==
  /\ Same \in Nat
  /\ \A a, b \in Keys : Similarity(a, b) \in 0..Same /\ (Similarity(a, b) = Same <=> a = b)

Casefold(key) == <<Fold[key[1]], Fold[key[2]]>>

Entry(key, table) == [key |-> key, table |-> table]

HasKey(map, key) == \E i \in DOMAIN map : map[i].key = key

At(map, key) == map[CHOOSE i \in DOMAIN map : map[i].key = key].table

-----------------------------------------------------------------------------

(* get_all_tables: a schema that cannot be listed is left out with a       *)
(* warning.  No allowed schema means all of them.                          *)
GetAllTables(tables, allowed, unlisted) ==
  Keep(tables, {t \in Keys : t[1] \notin unlisted /\ (allowed # {} => t[1] \in allowed)})

(* _get_table_map_from_obj_list: a key is lowered, which moves it to the   *)
(* end of the dictionary, unless there is such a key.                      *)
TableMap(tables) ==
  FoldLeft(LAMBDA map, t :
      IF Casefold(t) = t \/ HasKey(map, Casefold(t)) THEN map
      ELSE Append(Keep(map, {e \in ToSet(map) : e.key # t}), Entry(Casefold(t), t)),
    [i \in DOMAIN tables |-> Entry(tables[i], tables[i])], tables)

-----------------------------------------------------------------------------

NoMatch == [key |-> <<>>, score |-> 0]

(* Slip: a score has to be better than the cutoff and the best so far. *)
ClosestMatchStrict(search, map, cutoff) ==
  FoldLeft(LAMBDA best, e :
      IF Similarity(search, e.key) > best.score
        THEN [key |-> e.key, score |-> Similarity(search, e.key)] ELSE best,
    [NoMatch EXCEPT !.score = cutoff], map)

(* extract_closest_match: the last one of those with the highest score. *)
ClosestMatch(search, map, cutoff) ==
  FoldLeft(LAMBDA best, e :
      IF Similarity(search, e.key) >= best.score
        THEN [key |-> e.key, score |-> Similarity(search, e.key)] ELSE best,
    [NoMatch EXCEPT !.score = cutoff], map)

(* The schema of the target that a schema of the source is mapped to. *)
MappedSchema(schemaMap, schema) ==
  IF schema \in DOMAIN schemaMap THEN schemaMap[schema] ELSE schema

LookupKey(table, schemaMap) ==
  Casefold(<<MappedSchema(schemaMap, table[1]), table[2]>>)

(* One turn of _compare_match_tables: the configurations for one entry of  *)
(* the source, at most one.                                                *)
MatchTable(entry, targets, cutoff, schemaMap) ==
  LET best == ClosestMatch(LookupKey(entry.table, schemaMap), targets, cutoff)
  IN  IF best.key = <<>> THEN <<>>
      ELSE << [source |-> entry.table, target |-> At(targets, best.key)] >>

=============================================================================
