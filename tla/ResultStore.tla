----------------------------- MODULE ResultStore -----------------------------
(***************************************************************************)
(* result_handlers/: what happens to the report of a validation.  It is    *)
(* filtered by status and appended to a results table in PostgreSQL or in  *)
(* BigQuery, which other processes append to as well.                      *)
(***************************************************************************)
EXTENDS Integers, Sequences, FiniteSets

CONSTANTS
  Proc,
  Connections,  \* what a handler may be connected to, with a type
  Legacy,       \* the BigQuery project that is named in place of a connection
  ChunkSize     \* rows that insert_rows_from_dataframe sends in one request

VARIABLES
  place,
  command,   \* report: the statuses of its rows; status_list: the statuses to keep
  pc,
  conn,      \* the connection the handler was built with (ConnectionStore)
  tables,    \* the databases that have the results table
  stored,    \* its rows in each database
  chunk,     \* the requests a process has sent
  refused    \* those whose rows BigQuery did not take

resultVars == <<tables, stored, chunk, refused>>

Databases == Connections \cup {Legacy}

Goto(p, where) == pc' = [pc EXCEPT ![p] = where]

Row(p, k) == [by |-> p, row |-> k]

\* filter_validation_status: result_df.validation_status.isin(status_list)
Kept(p) ==
  {k \in 1..Len(command[p].report) : command[p].report[k] \in command[p].status_list}

RowsOf(p, ks) == {Row(p, k) : k \in ks}

\* The place of a row in the filtered report, from one.
Place(p, k) == Cardinality({j \in Kept(p) : j <= k})

Chunks(p) == (Cardinality(Kept(p)) + ChunkSize - 1) \div ChunkSize

\* ChunkSize rows one after another, but for the last chunk.
ChunkRows(p, i) == RowsOf(p, {k \in Kept(p) : (Place(p, k) - 1) \div ChunkSize = i - 1})

-----------------------------------------------------------------------------
InitResults ==
  /\ tables \in {{}, Databases}
  /\ stored = [d \in Databases |-> {}]
  /\ chunk = [p \in Proc |-> 0]
  /\ refused = [p \in Proc |-> {}]

\* PostgresResultHandler._insert_postgres: get_ibis_table, NoSuchTableError
FindTable(p) ==
  /\ pc[p] = "insert" /\ conn[p].type = "Postgres"
  /\ Goto(p, IF conn[p] \in tables THEN "copy" ELSE "create table")
  /\ UNCHANGED <<place, command, resultVars>>

\* create_table, without IF NOT EXISTS
CreateTable(p) ==
  /\ pc[p] = "create table"
  /\ IF conn[p] \in tables
     THEN Goto(p, "raised") /\ UNCHANGED tables
     ELSE Goto(p, "copy") /\ tables' = tables \cup {conn[p]}
  /\ UNCHANGED <<place, command, stored, chunk, refused>>

\* A slip: each COPY in a transaction of its own.
CopyRowsByParts(p) ==
  /\ pc[p] = "copy"
  /\ \E n \in 0..Cardinality(Kept(p)) :
       /\ stored' =
            [stored EXCEPT ![conn[p]] = @ \cup RowsOf(p, {k \in Kept(p) : Place(p, k) <= n})]
       /\ Goto(p, IF n = Cardinality(Kept(p)) THEN "done" ELSE "raised")
  /\ UNCHANGED <<place, command, tables, chunk, refused>>

\* to_sql with a COPY for each thousand rows, all in one transaction.
CopyRows(p) ==
  /\ pc[p] = "copy"
  /\ \/ /\ stored' = [stored EXCEPT ![conn[p]] = @ \cup RowsOf(p, Kept(p))]
        /\ Goto(p, "done")
     \/ /\ Kept(p) # {}
        /\ Goto(p, "raised") /\ UNCHANGED stored
  /\ UNCHANGED <<place, command, tables, chunk, refused>>

-----------------------------------------------------------------------------
(* BigQueryResultHandler._insert_bigquery                                  *)

Sends(p) == pc[p] = "insert legacy" \/ (pc[p] = "insert" /\ conn[p].type = "BigQuery")
Database(p) == IF pc[p] = "insert legacy" THEN Legacy ELSE conn[p]

\* get_table raises when the table, or the project, does not exist.
GetTableRaises(p) ==
  /\ Sends(p) /\ chunk[p] = 0
  /\ Database(p) \notin tables
  /\ Goto(p, "raised")
  /\ UNCHANGED <<place, command, resultVars>>

\* insert_rows_from_dataframe: one request after another, each of which is taken or
\* refused as a whole; a refused one does not stop those after it.
SendChunk(p) ==
  /\ Sends(p) /\ Database(p) \in tables
  /\ chunk[p] < Chunks(p)
  /\ chunk' = [chunk EXCEPT ![p] = @ + 1]
  /\ \/ /\ stored' = [stored EXCEPT ![Database(p)] = @ \cup ChunkRows(p, chunk[p] + 1)]
        /\ UNCHANGED refused
     \/ /\ refused' = [refused EXCEPT ![p] = @ \cup {chunk[p] + 1}]
        /\ UNCHANGED stored
  /\ UNCHANGED <<place, command, pc, tables>>

\* A slip: only the errors of the first request are looked at.
CheckFirstErrors(p) ==
  /\ Sends(p) /\ Database(p) \in tables
  /\ chunk[p] = Chunks(p)
  /\ Goto(p, IF 1 \notin refused[p] THEN "done" ELSE "raised")
  /\ UNCHANGED <<place, command, resultVars>>

\* if any(chunk_errors): the message is taken from chunk_errors[0][0], which is an
\* IndexError where the first request was taken; either way the handler raises.
CheckErrors(p) ==
  /\ Sends(p) /\ Database(p) \in tables
  /\ chunk[p] = Chunks(p)
  /\ Goto(p, IF refused[p] = {} THEN "done" ELSE "raised")
  /\ UNCHANGED <<place, command, resultVars>>

ResultStep(p) ==
  \/ FindTable(p) \/ CreateTable(p) \/ CopyRows(p)
  \/ GetTableRaises(p) \/ SendChunk(p) \/ CheckErrors(p)
=============================================================================
