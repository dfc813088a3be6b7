---------------------------- MODULE QueryCompile ----------------------------
(***************************************************************************)
(* ValidationBuilder and QueryBuilder: the query of either side that a     *)
(* configuration compiles to, as the expression each of its columns is.    *)
(* An expression is a column of the table or an operation on expressions,  *)
(* and carries the keys of the columns it reads.  Filters and the limit,   *)
(* which select rows and no columns, are left out, and so is whether an    *)
(* engine accepts an expression.                                           *)
(***************************************************************************)
EXTENDS TableColumns

CONSTANT PaddedTypes        \* raw types an engine pads: is_char_type_padded

Column(key) == [op |-> "column", param |-> "none", args |-> <<>>, reads |-> {key}]

Apply(op, param, args) ==
  [op |-> op, param |-> param, args |-> args,
   reads |-> UNION {args[i].reads : i \in DOMAIN args}]

Cast(expr, type) == IF type = "none" THEN expr ELSE Apply("cast", type, <<expr>>)

(* ibis_table: the names of the columns and what they are. *)
TableEnv(side) ==
  [n \in {side.columns[i].name : i \in DOMAIN side.columns} |->
     Column(side.columns[CHOOSE i \in DOMAIN side.columns : side.columns[i].name = n].key)]

(* is_padded_char looks the name up in the raw types. *)
IsPaddedChar(side, key) == RawOf(side, key) \in PaddedTypes

-----------------------------------------------------------------------------

(* _get_calc_type: the length of a padded column is another function.      *)
CalcOp(side, field, names) ==
  IF field.op = "length" /\ \E i \in DOMAIN side.columns :
        /\ side.columns[i].name = names[1]
        /\ IsPaddedChar(side, side.columns[i].key)
    THEN "padded_char_length" ELSE field.op

(* CalculatedField.compile: concat casts what it joins. *)
CalcExpr(side, env, field, names) ==
  Apply(CalcOp(side, field, names), field.param,
        [i \in DOMAIN names |-> IF field.op = "concat" THEN Cast(env[names[i]], "string")
                                                       ELSE env[names[i]]])

AtDepth(fields, n) == {f \in fields : f.depth = n}

DepthLimit(fields) == Max({0} \cup {f.depth : f \in fields})

(* mutate: the fields of one depth, all compiled against the table below.  *)
Mutate(side, s, env, fields) ==
  LET new == {f.alias : f \in fields}
      named(a) == CHOOSE f \in fields : f.alias = a
  IN  [a \in new \cup DOMAIN env |->
        IF a \in new THEN CalcExpr(side, env, named(a), named(a)[s]) ELSE env[a]]

(* An expression of a field that names no column of its table raises; so   *)
(* does a field with no argument, when add_calc reads the first one.       *)
FieldsResolve(s, env, fields) ==
  \A f \in fields : f[s] # <<>> /\ ToSet(f[s]) \subseteq DOMAIN env

(* The table with the calculated fields of one depth; <<>> if they, or     *)
(* those of a depth below, do not compile.                                 *)
AfterDepth(side, s, env, fields) ==
  IF DOMAIN env # {} /\ FieldsResolve(s, env, fields) THEN Mutate(side, s, env, fields) ELSE <<>>

(* The table after the calculated fields of every depth. *)
CalculatedEnv(side, s, fields) ==
  LET Env[n \in 0..(DepthLimit(fields) + 1)] ==
        IF n = 0 THEN TableEnv(side)
        ELSE AfterDepth(side, s, Env[n - 1], AtDepth(fields, n - 1))
  IN  Env[DepthLimit(fields) + 1]

-----------------------------------------------------------------------------

(* add_primary_key: a padded string that is not cast is trimmed. *)
KeyExpr(side, env, name, cast) ==
  LET i == CHOOSE n \in DOMAIN side.columns : side.columns[n].name = name
      trimmed == side.columns[i].type = "string" /\ IsPaddedChar(side, side.columns[i].key)
  IN  IF cast = "none" /\ trimmed THEN Apply("rstrip", "none", <<env[name]>>)
                                  ELSE Cast(env[name], cast)

(* GroupedField.compile: moments are grouped by day. *)
GroupExpr(side, env, name, cast) ==
  LET i == CHOOSE n \in DOMAIN side.columns : side.columns[n].name = name
  IN  Cast(env[name], IF cast = "none" /\ side.columns[i].type = "timestamp"
                        THEN "date" ELSE cast)

AggregateExpr(env, agg, name) ==
  Cast(Apply(agg.type, "none", IF name = <<>> THEN <<>> ELSE <<env[name]>>), agg.ref.cast)

Output(alias, expr) == [alias |-> alias, expr |-> expr]

(* What a config refers to in the table of calculated fields. *)
References(config) ==
  config.comparison \o config.primary \o config.groups
    \o [i \in DOMAIN config.aggregates |-> config.aggregates[i].ref]

Compiles(side, s, config) ==
  LET env == CalculatedEnv(side, s, config.calculated)
      refs == References(config)
  IN  /\ DOMAIN env # {}
      /\ \A i \in DOMAIN refs : refs[i][s] = <<>> \/ refs[i][s] \in DOMAIN env

(* QueryBuilder.compile: the columns of the query, those of a projection   *)
(* for rows and of an aggregation, by its groups, for columns.             *)
Query(side, s, config) ==
  LET env == CalculatedEnv(side, s, config.calculated)
      Of(refs, Expr(_)) == [i \in DOMAIN refs |-> Output(refs[i].alias, Expr(refs[i]))]
  IN  Of(config.comparison, LAMBDA r : Cast(env[r[s]], r.cast))
        \o Of(config.primary, LAMBDA r : KeyExpr(side, env, r[s], r.cast))
        \o Of(config.groups, LAMBDA r : GroupExpr(side, env, r[s], r.cast))
        \o [i \in DOMAIN config.aggregates |->
             LET agg == config.aggregates[i]
             IN  Output(agg.ref.alias, AggregateExpr(env, agg, agg.ref[s]))]

=============================================================================
