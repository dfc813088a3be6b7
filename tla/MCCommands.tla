------------------------------ MODULE MCCommands ------------------------------
EXTENDS Commands, TLC

BigQuery == [type |-> "BigQuery", size |-> 2]
Postgres == [type |-> "Postgres", size |-> 3]
Oracle == [type |-> "Oracle", size |-> 2]

SomeConnections == {BigQuery, Postgres, Oracle}

CONSTANT t  \* the only word of the names of tables

Table == <<t>>
NumberedTable == <<t, 1>>   \* a table called t_1

Report == <<"fail", "success", "fail", "fail">>

Add(c) == [cmd |-> "add", name |-> "n", connection |-> c]
Store(ts) == [cmd |-> "store", tables |-> ts]
Validate(statuses) ==
  [cmd |-> "validate", name |-> "n", report |-> Report, status_list |-> statuses]

SomeCommandLines ==
  {Add(c) : c \in SomeConnections}
  \cup {[cmd |-> "delete", name |-> "n"], [cmd |-> "list"]}
  \cup {Validate({"fail"}), Validate({})}
  \cup {Store(<<Table, Table, NumberedTable>>)}
  \cup {[cmd |-> "run configs"]}

Processes == Permutations(Proc)
=============================================================================
