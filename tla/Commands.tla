------------------------------- MODULE Commands -------------------------------
(***************************************************************************)
(* Several processes of the command line at once (__main__.py, main): they *)
(* meet in the connection files (ConnectionStore), in a directory of       *)
(* validation files (ConfigDir) and in the results tables (ResultStore).   *)
(* Each may be killed anywhere.                                            *)
(***************************************************************************)
EXTENDS Integers, Sequences, FiniteSets, SequencesExt

CONSTANTS
  Proc, Names, Connections, Legacy, ChunkSize, None,
  Words,         \* of the names of tables
  CommandLines,  \* what a process may be called with
  MaxKills       \* bound on the processes that are killed

\* What each command is called with (cli_tools.py); Names are those that are ever used.
ASSUME CommandLinesAssumption ==
  \A c \in CommandLines :
    /\ c.cmd \in {"add", "delete", "validate"} => c.name \in Names
    /\ c.cmd = "add" => c.connection \in Connections
    /\ c.cmd = "validate" => c.report \in Seq(STRING)
    /\ c.cmd = "store" => c.tables \in Seq(Seq(Words \cup Nat))
ASSUME NamesAssumption == Proc \cap Names = {} /\ None \notin Proc \cup Names
ASSUME NoneAssumption == None \notin Connections /\ Legacy \notin Connections
ASSUME ConnectionsAssumption == \A c \in Connections : c.size \in Nat \ {0}
ASSUME ChunkSizeAssumption == ChunkSize \in Nat \ {0}
ASSUME MaxKillsAssumption == MaxKills \in Nat

VARIABLES
  place, command, pc, kills,
  home, dir, content, handle, listed, conn,
  yamls, ind, found, loaded,
  tables, stored, chunk, refused

Connection == INSTANCE ConnectionStore
Configs == INSTANCE ConfigDir
Results == INSTANCE ResultStore

storeVars == <<home, dir, content, handle, listed, conn>>
dirVars == <<yamls, ind, found, loaded>>
resultVars == <<tables, stored, chunk, refused>>
vars == <<place, command, pc, kills, storeVars, dirVars, resultVars>>

Init ==
  /\ place \in {"local", "gs://dir/", "gs://dir"}
  /\ command \in [Proc -> CommandLines]
  /\ pc = [p \in Proc |-> "start"]
  /\ kills = 0
  /\ Connection!InitStore
  /\ Configs!InitDir
  /\ Results!InitResults

Ended(p) == pc[p] \in {"done", "raised", "killed"}

\* The process is killed, or its next call to the file system, the bucket or a database
\* fails for a reason of its own.
Killed(p) ==
  /\ ~Ended(p) /\ kills < MaxKills
  /\ kills' = kills + 1
  /\ pc' = [pc EXCEPT ![p] = "killed"]
  /\ UNCHANGED <<place, command, storeVars, dirVars, resultVars>>

Step(p) ==
  \/ Connection!StoreStep(p) /\ UNCHANGED <<kills, dirVars, resultVars>>
  \/ Configs!DirStep(p) /\ UNCHANGED <<kills, storeVars, resultVars>>
  \/ Results!ResultStep(p) /\ UNCHANGED <<kills, storeVars, dirVars>>
  \/ Killed(p)

AllEnded == (\A p \in Proc : Ended(p)) /\ UNCHANGED vars

Next == (\E p \in Proc : Step(p)) \/ AllEnded

Spec == Init /\ [][Next]_vars

-----------------------------------------------------------------------------
(* Properties.                                                             *)

Cmd(p) == command[p].cmd

Adds(p, n) == Cmd(p) = "add" /\ command[p].name = n
Deletes(p, n) == Cmd(p) = "delete" /\ command[p].name = n

TypeOK ==
  /\ dir \in [Names -> Proc \cup Names \cup {None}]
  /\ \A i \in DOMAIN content : content[i].head \in Connections \cup {None}
  /\ handle \in [Proc -> Proc \cup Names \cup {None}]
  /\ \A p \in Proc :
       /\ listed[p] \subseteq Names
       /\ conn[p] \in Connections \cup {None}
       /\ refused[p] \subseteq 1..chunk[p]
       /\ found[p] \subseteq DOMAIN yamls
  /\ tables \subseteq Connections \cup {Legacy}
  /\ kills \in 0..MaxKills

\* Two adds held the file open at once and the shorter text was written last, over the
\* longer one.
Garbled(n) ==
  \E p, q \in Proc :
    /\ Adds(p, n) /\ Adds(q, n) /\ handle[p] = dir[n] /\ handle[q] = dir[n]
    /\ pc[p] = "done" /\ pc[q] = "done"
    /\ content[dir[n]] = [head |-> command[p].connection, size |-> command[q].connection.size]

\* connections add (store_connection, write_file): once an add has succeeded and unless
\* somebody deletes that connection, its file stays, and says what one of the adds said.
\* It fails to be JSON only while a later add is between its open and its write or was
\* killed there, or if two adds overlapped; in a bucket it never does.
ConnectionsSurvive ==
  \A p \in Proc, n \in Names :
    (Adds(p, n) /\ pc[p] = "done" /\ ~\E q \in Proc : Deletes(q, n)) =>
      /\ dir[n] # None
      /\ \/ \E q \in Proc :
              Adds(q, n) /\ pc[q] = "done" /\ command[q].connection = content[dir[n]].head
         \/ \E q \in Proc : Adds(q, n) /\ handle[q] = dir[n] /\ pc[q] \in {"writing", "killed"}
      /\ Connection!Parses(n) \/ Garbled(n)
         \/ \E q \in Proc : Adds(q, n) /\ handle[q] = dir[n] /\ pc[q] \in {"writing", "killed"}

\* The name had a file from the start (as long as nobody deletes it).
WasThere(n) == dir[n] = n \/ content[n] # Connection!Truncated

\* _get_result_handler: a name that is no connection is taken for a BigQuery project.
\* That never happens to a connection that was there before and that nobody deletes, not
\* even while it is being written again.
NeverLegacyByAccident ==
  \A p \in Proc :
    (Cmd(p) = "validate" /\ pc[p] = "insert legacy" /\ place # "gs://dir") =>
      ~WasThere(command[p].name) \/ \E q \in Proc : Deletes(q, command[p].name)

Database(p) == IF conn[p] = None THEN Legacy ELSE conn[p]

\* The rows of the report whose status is asked for.
RowsOf(p) ==
  {Results!Row(p, k) : k \in {i \in DOMAIN command[p].report :
                                 command[p].report[i] \in command[p].status_list}}

RowsIn(d, p) == {r \in stored[d] : r.by = p}

\* The result handlers (postgres.py, bigquery.py): a run that ends well has stored every
\* row of its report that the status filter keeps, in one results table and nowhere else.
SuccessStoresKeptRows ==
  \A p \in Proc : (Cmd(p) = "validate" /\ pc[p] = "done") =>
    /\ RowsIn(Database(p), p) = RowsOf(p)
    /\ \A d \in DOMAIN stored \ {Database(p)} : RowsIn(d, p) = {}

\* A run that fails or is killed may leave a part of its report in BigQuery, whose
\* requests are taken one by one, but never in PostgreSQL, and never a row that the
\* status filter drops.
PartOfAReportOnlyInBigQuery ==
  \A p \in Proc : Cmd(p) = "validate" =>
    /\ RowsIn(Database(p), p) \subseteq RowsOf(p)
    /\ (conn[p] # None /\ conn[p].type = "Postgres") =>
         RowsIn(conn[p], p) \in {{}, RowsOf(p)}

\* store_config_dir: after it succeeded, the file of each table of its list holds the
\* validation of that table, unless the name was taken later by a table of the list that
\* is called like a numbered one, or by another process that had looked for files before
\* this one wrote it (or looked with a path that shows it none).
StoredConfigsAccountedFor ==
  \A p \in Proc : (Cmd(p) = "store" /\ pc[p] = "done") =>
    \A i \in 1..Len(command[p].tables) :
      LET name == Configs!FileName(p, i)
      IN /\ name \in DOMAIN yamls
         /\ LET by == yamls[name].by
                j == yamls[name].table
            IN IF by = p
               THEN j = i \/ (j > i /\ command[p].tables[j] # command[p].tables[i])
               ELSE name \notin found[by] \/ place = "gs://dir"

\* docs/internal/design_docs/config_management.md, "Overwrite Protection": "DVT strictly
\* enforces that the target directory must be empty or not exist.  If files are present,
\* DVT aborts execution with a ValueError to prevent accidental data loss."
OverwriteProtection ==
  \A name \in DOMAIN yamls : name \notin found[yamls[name].by]
=============================================================================
