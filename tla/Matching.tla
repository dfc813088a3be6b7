------------------------------ MODULE Matching ------------------------------
(***************************************************************************)
(* validate schema --tables-list s.*: the tables of both sides are listed  *)
(* and matched one by one, and the schemas of the tables matched are       *)
(* compared.  find-tables is the first half of it, with a score cutoff and *)
(* a mapping of schemas.  Columns of a table may be of any type when their *)
(* schema is read.                                                         *)
(***************************************************************************)
EXTENDS FindTables, SchemaValidation

CONSTANTS Catalogs,     \* pairs of tables of the source and of the target, as sequences
          Requests,     \* the arguments: [allowed, schemaMap, cutoff, excluded, allowList]
          Unlisted,     \* sets of schemas a side may fail to list
          FieldLists    \* what the schema of a table may be

\* Each side has a table once in its lists.
ASSUME CatalogsAssumption ==
  \A c \in Catalogs : \A side \in {"source", "target"} :
    c[side] \in Seq(Keys) /\ IsInjective(c[side])

ASSUME RequestsAssumption ==
  \A q \in Requests : \A n \in DOMAIN q.schemaMap : q.schemaMap[n] \in DOMAIN Fold

\* Names and types; the precision of a decimal is not negative (its scale may be).
ASSUME FieldListsAssumption ==
  \A fields \in FieldLists :
    /\ fields \in Seq((DOMAIN FoldName) \X FieldTypes)
    /\ \A i \in DOMAIN fields :
         fields[i][2].paren /\ fields[i][2].name = "decimal" => fields[i][2].p >= 0

VARIABLES catalog, request,
          stage,        \* "list", "match", "validate", "done" or "raised"
          sources,      \* the entries of the source still to match
          targets,      \* the table map of the target
          unlisted,     \* the schemas that could not be listed, by side
          configs,      \* the tables matched
          validated,    \* how many of them have been validated
          schemas,      \* what was compared last
          results       \* the results of that

vars == <<catalog, request, stage, sources, targets, unlisted, configs,
          validated, schemas, results>>

NoSchemas == [source |-> <<>>, target |-> <<>>]

Init ==
  /\ catalog \in Catalogs /\ request \in Requests
  /\ stage = "list"
  /\ sources = <<>> /\ targets = <<>>
  /\ unlisted = [source |-> {}, target |-> {}]
  /\ configs = <<>>
  /\ validated = 0 /\ schemas = NoSchemas /\ results = {}

(* get_mapped_table_configs: all schemas of the target are listed. *)
ListTables ==
  /\ stage = "list"
  /\ \E us \in Unlisted, ut \in Unlisted :
       /\ unlisted' = [source |-> us, target |-> ut]
       /\ sources' = TableMap(GetAllTables(catalog.source, request.allowed, us))
       /\ targets' = TableMap(GetAllTables(catalog.target, {}, ut))
  /\ stage' = "match"
  /\ UNCHANGED <<catalog, request, configs, validated, schemas, results>>

MatchNext ==
  /\ stage = "match" /\ sources # <<>>
  /\ configs' = configs \o MatchTable(Head(sources), targets, request.cutoff, request.schemaMap)
  /\ sources' = Tail(sources)
  /\ UNCHANGED <<catalog, request, stage, targets, unlisted, validated, schemas, results>>

MatchingDone ==
  /\ stage = "match" /\ sources = <<>>
  /\ stage' = "validate"
  /\ UNCHANGED <<catalog, request, sources, targets, unlisted, configs,
                 validated, schemas, results>>

(* SchemaValidation.execute for the next table.  The allow list is parsed  *)
(* for each of them.                                                       *)
ValidateNext ==
  /\ stage = "validate" /\ validated < Len(configs)
  /\ \E s \in FieldLists, t \in FieldLists :
       IF AllowListRaises(request.allowList)
         THEN /\ stage' = "raised"
              /\ UNCHANGED <<validated, schemas, results>>
         ELSE /\ schemas' = [source |-> s, target |-> t]
              /\ results' = SchemaMatching(s, t, request.excluded, AllowListMap(request.allowList))
              /\ validated' = validated + 1
              /\ UNCHANGED stage
  /\ UNCHANGED <<catalog, request, sources, targets, unlisted, configs>>

Done ==
  /\ stage = "raised" \/ (stage = "validate" /\ validated = Len(configs))
  /\ UNCHANGED vars

Next == ListTables \/ MatchNext \/ MatchingDone \/ ValidateNext \/ Done

Spec == Init /\ [][Next]_vars

-----------------------------------------------------------------------------

Listable(side, allowed) ==
  {t \in ToSet(catalog[side]) : t[1] \notin unlisted[side] /\ (allowed # {} => t[1] \in allowed)}

(* No two tables of a side differ in case only. *)
CaseDistinct(side) ==
  \A t, u \in ToSet(catalog[side]) : Casefold(t) = Casefold(u) => t = u

Namesakes(s, t) == LookupKey(s, request.schemaMap) = Casefold(t)

ExactOnly == request.cutoff = Same

(* No table of the source is compared twice.  When only equal names match, *)
(* tables that are matched have the same name, case and mapped schema      *)
(* aside, and every listed table of the source with a namesake listed in   *)
(* the target is matched.  Two tables of the target that differ in case    *)
(* only are left out: one of them is never found (find_tables.py 31-90).   *)
NamesakesAreMatched ==
  stage \in {"validate", "raised"} =>
    /\ \A i, j \in DOMAIN configs : configs[i].source = configs[j].source => i = j
    /\ ExactOnly /\ CaseDistinct("target") =>
         /\ \A i \in DOMAIN configs : Namesakes(configs[i].source, configs[i].target)
         /\ \A s \in Listable("source", request.allowed), t \in Listable("target", {}) :
              Namesakes(s, t) => \E i \in DOMAIN configs : configs[i] = [source |-> s, target |-> t]

Names(fields) == {FoldName[fields[i][1]] : i \in DOMAIN fields}

(* Every column of either side that is not excluded is in exactly one      *)
(* result, together with its namesake if there is one, and a column that   *)
(* only one side has fails (schema_validation.py 123-234).                 *)
EveryFieldJudgedOnce ==
  validated > 0 =>
    LET s == Names(schemas.source) \ request.excluded
        t == Names(schemas.target) \ request.excluded
    IN  /\ \A n \in s \cup t :
             \E r \in results :
               /\ {q \in results : n \in {q.source, q.target}} = {r}
               /\ r.source = (IF n \in s THEN n ELSE "N/A")
               /\ r.target = (IF n \in t THEN n ELSE "N/A")
               /\ r.status = "success" => n \in s \cap t
        /\ Cardinality(results) = Cardinality(s \cup t)

DecimalFits(s, t) == s.name = t.name /\ s.p <= t.p /\ s.s <= t.s

(* A difference of types is accepted if the allow list has it, or, for     *)
(* decimals, if the target has at least the precision and the scale, and   *)
(* never in both directions.  It is said of sources that are no types with *)
(* other arguments, such as timestamp('UTC'), which the code takes for     *)
(* decimals of precision -1 (schema_validation.py 354-407).                *)
AcceptedTypesOnlyWiden ==
  \A r \in results :
    r.status = "success" =>
      LET s == CasefoldFields(schemas.source)[r.source]
          t == CasefoldFields(schemas.target)[r.target]
          allowed == AllowListMap(request.allowList)
      IN  s # t /\ <<s, t>> \notin allowed /\ (s.paren => s.name = "decimal") =>
            /\ DecimalFits(s, t) /\ ~DecimalFits(t, s)
            /\ FieldStatus(t, s, {}) = "fail"

=============================================================================
