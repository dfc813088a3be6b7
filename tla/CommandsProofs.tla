---------------------------- MODULE CommandsProofs ----------------------------
(***************************************************************************)
(* Proofs about Commands, for any number of processes that are called with *)
(* any commands on any names and are killed anywhere: where a process can  *)
(* be and the types of the state, the validation files of a directory      *)
(* (ConfigDir), the rows in the results tables (ResultStore) and the       *)
(* connection files (ConnectionStore).                                     *)
(***************************************************************************)
EXTENDS Commands, ListLemmas, FiniteSetTheorems, TLAPS

-----------------------------------------------------------------------------
(* Where the processes are.                                                *)

ForResults ==
  {"handler type", "handler client", "insert", "insert legacy", "create table", "copy"}

\* The commands that lead to a place.
Fits(where, cmd) ==
  /\ where \in {"make home", "ready"} => cmd # "run configs"
  /\ where = "writing" => cmd = "add"
  /\ where = "removing" => cmd = "delete"
  /\ where = "describing" => cmd = "list"
  /\ where \in ForResults => cmd = "validate"
  /\ where \in {"storing", "writing config"} => cmd = "store"
  /\ where = "loading" => cmd = "run configs"

Placed ==
  /\ command \in [Proc -> CommandLines]
  /\ DOMAIN pc = Proc
  /\ \A p \in Proc : Fits(pc[p], Cmd(p))

\* A step of one process leaves the others where they are.
OneMoves(p) ==
  /\ UNCHANGED <<place, command>>
  /\ ~Ended(p)
  /\ DOMAIN pc' = Proc
  /\ Fits(pc'[p], Cmd(p))
  /\ \A q \in Proc \ {p} : pc'[q] = pc[q]

\* What the places say about the command.
LEMMA PlacesFit ==
  ASSUME NEW cmd
  PROVE  /\ Fits("make home", cmd) <=> cmd # "run configs"
         /\ Fits("ready", cmd) <=> cmd # "run configs"
         /\ Fits("writing", cmd) <=> cmd = "add"
         /\ Fits("removing", cmd) <=> cmd = "delete"
         /\ Fits("describing", cmd) <=> cmd = "list"
         /\ \A where \in ForResults : Fits(where, cmd) <=> cmd = "validate"
         /\ Fits("storing", cmd) <=> cmd = "store"
         /\ Fits("writing config", cmd) <=> cmd = "store"
         /\ Fits("loading", cmd) <=> cmd = "run configs"
         /\ Fits("done", cmd) /\ Fits("raised", cmd) /\ Fits("killed", cmd)
<1>1. \A where \in ForResults : Fits(where, cmd) <=> cmd = "validate"
  BY DEF Fits, ForResults
<1>2. /\ Fits("make home", cmd) <=> cmd # "run configs"
      /\ Fits("ready", cmd) <=> cmd # "run configs"
      /\ Fits("writing", cmd) <=> cmd = "add"
      /\ Fits("removing", cmd) <=> cmd = "delete"
  BY DEF Fits, ForResults
<1>3. /\ Fits("describing", cmd) <=> cmd = "list"
      /\ Fits("storing", cmd) <=> cmd = "store"
      /\ Fits("writing config", cmd) <=> cmd = "store"
      /\ Fits("loading", cmd) <=> cmd = "run configs"
  BY DEF Fits, ForResults
<1>4. Fits("done", cmd) /\ Fits("raised", cmd) /\ Fits("killed", cmd)
  BY DEF Fits, ForResults
<1> QED BY <1>1, <1>2, <1>3, <1>4

\* Process p goes on to a place that fits its command.
Goes(p, where) == pc' = [pc EXCEPT ![p] = where]

\* Any step that brings the process to such a place moves that process only.
LEMMA GoesOn ==
  ASSUME Placed, NEW p \in Proc, ~Ended(p), UNCHANGED <<place, command>>,
         NEW where, Goes(p, where), Fits(where, Cmd(p))
  PROVE  OneMoves(p)
BY DEF Placed, OneMoves, Goes

\* A step that leaves the process at its place.
LEMMA Stays ==
  ASSUME Placed, NEW p \in Proc, ~Ended(p), UNCHANGED <<place, command, pc>>
  PROVE  OneMoves(p)
BY DEF Placed, OneMoves

\* A step of a connection command, or of the setup of the state manager.
LEMMA StoreMoves ==
  ASSUME Placed, NEW p \in Proc, Connection!StoreStep(p) PROVE OneMoves(p)
<1>0. Fits(pc[p], Cmd(p))
  BY DEF Placed
<1>1. CASE Connection!SetupLooks(p)
  <2>1. pc[p] = "start" /\ Cmd(p) # "run configs"
        /\ UNCHANGED <<place, command>> /\ (Goes(p, "ready") \/ Goes(p, "make home"))
    BY <1>1 DEF Connection!SetupLooks, Connection!Goto, Connection!Cmd, Cmd, Goes
  <2> QED BY <1>0, <2>1, PlacesFit, GoesOn DEF Ended, ForResults
<1>2. CASE Connection!SetupMakes(p)
  <2>1. pc[p] = "make home"
        /\ UNCHANGED <<place, command>> /\ (Goes(p, "ready") \/ Goes(p, "raised"))
    BY <1>2 DEF Connection!SetupMakes, Connection!Goto, Connection!Cmd, Cmd, Goes
  <2> QED BY <1>0, <2>1, PlacesFit, GoesOn DEF Ended, ForResults
<1>3. CASE Connection!ClientRefused(p)
  <2>1. pc[p] = "start" /\ Cmd(p) = "add"
        /\ UNCHANGED <<place, command>> /\ Goes(p, "raised")
    BY <1>3 DEF Connection!ClientRefused, Connection!Goto, Connection!Cmd, Cmd, Goes
  <2> QED BY <1>0, <2>1, PlacesFit, GoesOn DEF Ended, ForResults
<1>4. CASE Connection!OpenToWrite(p)
  <2>1. pc[p] = "ready" /\ Cmd(p) = "add"
        /\ UNCHANGED <<place, command>> /\ Goes(p, "writing")
    BY <1>4 DEF Connection!OpenToWrite, Connection!Goto, Connection!Cmd, Cmd, Goes
  <2> QED BY <1>0, <2>1, PlacesFit, GoesOn DEF Ended, ForResults
<1>5. CASE Connection!WriteAndClose(p)
  <2>1. pc[p] = "writing"
        /\ UNCHANGED <<place, command>> /\ Goes(p, "done")
    BY <1>5 DEF Connection!WriteAndClose, Connection!Goto, Connection!Cmd, Cmd, Goes
  <2> QED BY <1>0, <2>1, PlacesFit, GoesOn DEF Ended, ForResults
<1>6. CASE Connection!UploadObject(p)
  <2>1. pc[p] = "ready" /\ Cmd(p) = "add"
        /\ UNCHANGED <<place, command>> /\ Goes(p, "done")
    BY <1>6 DEF Connection!UploadObject, Connection!Goto, Connection!Cmd, Cmd, Goes
  <2> QED BY <1>0, <2>1, PlacesFit, GoesOn DEF Ended, ForResults
<1>7. CASE Connection!DeleteLooks(p)
  <2>1. pc[p] = "ready" /\ Cmd(p) = "delete"
        /\ UNCHANGED <<place, command>> /\ (Goes(p, "removing") \/ Goes(p, "raised"))
    BY <1>7 DEF Connection!DeleteLooks, Connection!Goto, Connection!Cmd, Cmd, Goes
  <2> QED BY <1>0, <2>1, PlacesFit, GoesOn DEF Ended, ForResults
<1>8. CASE Connection!DeleteRemoves(p)
  <2>1. (pc[p] = "removing" \/ pc[p] = "ready")
        /\ UNCHANGED <<place, command>> /\ (Goes(p, "done") \/ Goes(p, "raised"))
    BY <1>8 DEF Connection!DeleteRemoves, Connection!Goto, Connection!Cmd, Cmd, Goes
  <2> QED BY <1>0, <2>1, PlacesFit, GoesOn DEF Ended, ForResults
<1>9. CASE Connection!ListConnections(p)
  <2>1. pc[p] = "ready" /\ Cmd(p) = "list"
        /\ UNCHANGED <<place, command>> /\ Goes(p, "describing")
    BY <1>9 DEF Connection!ListConnections, Connection!Goto, Connection!Cmd, Cmd, Goes
  <2> QED BY <1>0, <2>1, PlacesFit, GoesOn DEF Ended, ForResults
<1>10. CASE Connection!DescribeNext(p)
  <2>1. pc[p] = "describing"
        /\ UNCHANGED <<place, command>> /\ (Goes(p, "raised") \/ UNCHANGED pc)
    BY <1>10 DEF Connection!DescribeNext, Connection!Goto, Connection!Cmd, Cmd, Goes
  <2> QED BY <1>0, <2>1, PlacesFit, GoesOn, Stays DEF Ended, ForResults
<1>11. CASE Connection!DescribedAll(p)
  <2>1. pc[p] = "describing"
        /\ UNCHANGED <<place, command>> /\ Goes(p, "done")
    BY <1>11 DEF Connection!DescribedAll, Connection!Goto, Connection!Cmd, Cmd, Goes
  <2> QED BY <1>0, <2>1, PlacesFit, GoesOn DEF Ended, ForResults
<1>12. CASE Connection!ResolveHandler(p)
  <2>1. pc[p] = "ready" /\ Cmd(p) = "validate"
        /\ UNCHANGED <<place, command>> /\ (Goes(p, "handler type") \/ Goes(p, "insert legacy"))
    BY <1>12 DEF Connection!ResolveHandler, Connection!Goto, Connection!Cmd, Cmd, Goes
  <2> QED BY <1>0, <2>1, PlacesFit, GoesOn DEF Ended, ForResults
<1>13. CASE Connection!ReadHandlerType(p)
  <2>1. pc[p] = "handler type"
        /\ UNCHANGED <<place, command>> /\ (Goes(p, "handler client") \/ Goes(p, "raised"))
    BY <1>13 DEF Connection!ReadHandlerType, Connection!Goto, Connection!Cmd, Cmd, Goes
  <2> QED BY <1>0, <2>1, PlacesFit, GoesOn DEF Ended, ForResults
<1>14. CASE Connection!OpenHandlerClient(p)
  <2>1. pc[p] = "handler client"
        /\ UNCHANGED <<place, command>> /\ (Goes(p, "insert") \/ Goes(p, "raised"))
    BY <1>14 DEF Connection!OpenHandlerClient, Connection!Goto, Connection!Cmd, Cmd, Goes
  <2> QED BY <1>0, <2>1, PlacesFit, GoesOn DEF Ended, ForResults
<1> QED BY <1>1, <1>2, <1>3, <1>4, <1>5, <1>6, <1>7, <1>8, <1>9, <1>10, <1>11, <1>12, <1>13,
           <1>14 DEF Connection!StoreStep

\* A step in a directory of validation files.
LEMMA DirMoves ==
  ASSUME Placed, NEW p \in Proc, Configs!DirStep(p) PROVE OneMoves(p)
<1>0. Fits(pc[p], Cmd(p))
  BY DEF Placed
<1>1. CASE Configs!EnforceEmpty(p)
  <2>1. pc[p] = "ready" /\ Cmd(p) = "store"
        /\ UNCHANGED <<place, command>> /\ (Goes(p, "storing") \/ Goes(p, "raised"))
    BY <1>1 DEF Configs!EnforceEmpty, Cmd, Goes
  <2> QED BY <1>0, <2>1, PlacesFit, GoesOn DEF Ended, ForResults
<1>2. CASE Configs!OpenConfig(p)
  <2>1. pc[p] = "storing"
        /\ UNCHANGED <<place, command>> /\ Goes(p, "writing config")
    BY <1>2 DEF Configs!OpenConfig, Cmd, Goes
  <2> QED BY <1>0, <2>1, PlacesFit, GoesOn DEF Ended, ForResults
<1>3. CASE Configs!WriteConfig(p)
  <2>1. (pc[p] = "writing config" \/ pc[p] = "storing")
        /\ UNCHANGED <<place, command>> /\ Goes(p, "storing")
    BY <1>3 DEF Configs!WriteConfig, Cmd, Goes
  <2> QED BY <1>0, <2>1, PlacesFit, GoesOn DEF Ended, ForResults
<1>4. CASE Configs!StoredAll(p)
  <2>1. pc[p] = "storing"
        /\ UNCHANGED <<place, command>> /\ Goes(p, "done")
    BY <1>4 DEF Configs!StoredAll, Cmd, Goes
  <2> QED BY <1>0, <2>1, PlacesFit, GoesOn DEF Ended, ForResults
<1>5. CASE Configs!ListValidations(p)
  <2>1. pc[p] = "start" /\ Cmd(p) = "run configs"
        /\ UNCHANGED <<place, command>> /\ Goes(p, "loading")
    BY <1>5 DEF Configs!ListValidations, Cmd, Goes
  <2> QED BY <1>0, <2>1, PlacesFit, GoesOn DEF Ended, ForResults
<1>6. CASE Configs!GetValidation(p)
  <2>1. pc[p] = "loading"
        /\ UNCHANGED <<place, command>> /\ (Goes(p, "raised") \/ UNCHANGED pc)
    BY <1>6 DEF Configs!GetValidation, Cmd, Goes
  <2> QED BY <1>0, <2>1, PlacesFit, GoesOn, Stays DEF Ended, ForResults
<1>7. CASE Configs!LoadedAll(p)
  <2>1. pc[p] = "loading"
        /\ UNCHANGED <<place, command>> /\ Goes(p, "done")
    BY <1>7 DEF Configs!LoadedAll, Cmd, Goes
  <2> QED BY <1>0, <2>1, PlacesFit, GoesOn DEF Ended, ForResults
<1> QED BY <1>1, <1>2, <1>3, <1>4, <1>5, <1>6, <1>7 DEF Configs!DirStep

\* A step of a result handler.
LEMMA ResultMoves ==
  ASSUME Placed, NEW p \in Proc, Results!ResultStep(p) PROVE OneMoves(p)
<1>0. Fits(pc[p], Cmd(p))
  BY DEF Placed
<1>1. CASE Results!FindTable(p)
  <2>1. pc[p] = "insert"
        /\ UNCHANGED <<place, command>> /\ (Goes(p, "copy") \/ Goes(p, "create table"))
    BY <1>1 DEF Results!FindTable, Results!Goto, Cmd, Goes
  <2> QED BY <1>0, <2>1, PlacesFit, GoesOn DEF Ended, ForResults
<1>2. CASE Results!CreateTable(p)
  <2>1. pc[p] = "create table"
        /\ UNCHANGED <<place, command>> /\ (Goes(p, "copy") \/ Goes(p, "raised"))
    BY <1>2 DEF Results!CreateTable, Results!Goto, Cmd, Goes
  <2> QED BY <1>0, <2>1, PlacesFit, GoesOn DEF Ended, ForResults
<1>3. CASE Results!CopyRows(p)
  <2>1. pc[p] = "copy"
        /\ UNCHANGED <<place, command>> /\ (Goes(p, "done") \/ Goes(p, "raised"))
    BY <1>3 DEF Results!CopyRows, Results!Goto, Cmd, Goes
  <2> QED BY <1>0, <2>1, PlacesFit, GoesOn DEF Ended, ForResults
<1>4. CASE Results!GetTableRaises(p)
  <2>1. (pc[p] = "insert legacy" \/ pc[p] = "insert")
        /\ UNCHANGED <<place, command>> /\ Goes(p, "raised")
    BY <1>4 DEF Results!GetTableRaises, Results!Goto, Results!Sends, Cmd, Goes
  <2> QED BY <1>0, <2>1, PlacesFit, GoesOn DEF Ended, ForResults
<1>5. CASE Results!SendChunk(p)
  <2>1. (pc[p] = "insert legacy" \/ pc[p] = "insert")
        /\ UNCHANGED <<place, command>> /\ UNCHANGED pc
    BY <1>5 DEF Results!SendChunk, Results!Goto, Results!Sends, Cmd, Goes
  <2> QED BY <1>0, <2>1, PlacesFit, GoesOn, Stays DEF Ended, ForResults
<1>6. CASE Results!CheckErrors(p)
  <2>1. (pc[p] = "insert legacy" \/ pc[p] = "insert")
        /\ UNCHANGED <<place, command>> /\ (Goes(p, "done") \/ Goes(p, "raised"))
    BY <1>6 DEF Results!CheckErrors, Results!Goto, Results!Sends, Cmd, Goes
  <2> QED BY <1>0, <2>1, PlacesFit, GoesOn DEF Ended, ForResults
<1> QED BY <1>1, <1>2, <1>3, <1>4, <1>5, <1>6 DEF Results!ResultStep

\* Any step of one process.
LEMMA StepMoves ==
  ASSUME Placed, NEW p \in Proc, Step(p) PROVE OneMoves(p)
<1>1. CASE Killed(p)
  <2>1. ~Ended(p) /\ UNCHANGED <<place, command>> /\ Goes(p, "killed")
    BY <1>1 DEF Killed, Goes
  <2> QED BY <2>1, PlacesFit, GoesOn
<1> QED BY <1>1, StoreMoves, DirMoves, ResultMoves DEF Step

\* Each process stays at places that belong to its command.
LEMMA PlacedStay ==
  ASSUME Placed, NEW p \in Proc, OneMoves(p) PROVE Placed'
BY DEF Placed, OneMoves, Cmd

-----------------------------------------------------------------------------
(* The types of the state, and which connection a result handler has.      *)

File == [head : Connections \cup {None}, size : Nat]

StoreTyped ==
  /\ dir \in [Names -> Proc \cup Names \cup {None}]
  /\ content \in [Proc \cup Names -> File]
  /\ handle \in [Proc -> Proc \cup Names \cup {None}]
  /\ listed \in [Proc -> SUBSET Names]
  /\ conn \in [Proc -> Connections \cup {None}]
  /\ \A p \in Proc : pc[p] = "writing" => handle[p] # None

DirTyped ==
  /\ \A n \in DOMAIN yamls : yamls[n] \in [by : Proc, table : Nat]
  /\ ind \in [Proc -> Nat \ {0}]
  /\ found \in [Proc -> SUBSET DOMAIN yamls]

ResultTyped ==
  /\ tables \subseteq Results!Databases
  /\ DOMAIN stored = Results!Databases
  /\ chunk \in [Proc -> Nat]
  /\ refused \in [Proc -> SUBSET Nat]
  /\ \A p \in Proc : refused[p] \subseteq 1..chunk[p]

\* What the handler is connected to at each place: at first nothing, None at the end if it
\* writes to a BigQuery project.
HandlerFits(where, c) ==
  /\ where \in {"start", "make home", "ready", "handler type", "insert legacy"} => c = None
  /\ where \in {"handler client", "insert"} =>
       c \in Connections /\ c.type \in {"BigQuery", "Postgres"}
  /\ where \in {"create table", "copy"} => c \in Connections /\ c.type = "Postgres"

Handlers == \A p \in Proc : Cmd(p) = "validate" => HandlerFits(pc[p], conn[p])

Base ==
  /\ Placed /\ StoreTyped /\ DirTyped /\ ResultTyped /\ Handlers
  /\ kills \in 0..MaxKills

\* A step of a connection command keeps the types of the connection files.
LEMMA StoreTypes ==
  ASSUME Base, NEW p \in Proc, Connection!StoreStep(p) PROVE StoreTyped'
<1>0. Placed /\ StoreTyped
  BY DEF Base
<1>1. OneMoves(p)
  BY <1>0, StoreMoves
<1>2. command[p] \in CommandLines
  BY <1>0 DEF Placed
<1>3. CASE Connection!OpenToWrite(p)
  <2>1. Cmd(p) = "add" /\ UNCHANGED <<listed, conn>>
    BY <1>3 DEF Connection!OpenToWrite, Connection!Cmd, Cmd
  <2> DEFINE n == command[p].name
             inode == IF Connection!Exists(n) THEN dir[n] ELSE p
  <2>2. /\ dir' = [dir EXCEPT ![n] = inode]
        /\ content' = [content EXCEPT ![inode] = [head |-> None, size |-> 0]]
        /\ handle' = [handle EXCEPT ![p] = inode]
    BY <1>3 DEF Connection!OpenToWrite, Connection!Truncated
  <2>3. n \in Names
    BY <1>2, <2>1, CommandLinesAssumption DEF Cmd
  <2>4. inode \in Proc \cup Names
    BY <1>0, <2>3 DEF StoreTyped, Connection!Exists
  <2>5. [head |-> None, size |-> 0] \in File
    BY DEF File
  <2> HIDE DEF inode, n
  <2>6. /\ dir' \in [Names -> Proc \cup Names \cup {None}]
        /\ content' \in [Proc \cup Names -> File]
        /\ handle' \in [Proc -> Proc \cup Names \cup {None}]
    BY <1>0, <2>2, <2>3, <2>4, <2>5 DEF StoreTyped
  <2>7. \A q \in Proc : pc'[q] = "writing" => handle'[q] # None
    BY <1>0, <1>1, <2>2, <2>4, NamesAssumption DEF StoreTyped, OneMoves
  <2> QED BY <1>0, <2>1, <2>6, <2>7 DEF StoreTyped
<1>4. CASE Connection!WriteAndClose(p)
  <2>1. pc[p] = "writing" /\ pc'[p] = "done" /\ UNCHANGED <<dir, handle, listed, conn>>
    BY <1>0, <1>4 DEF Connection!WriteAndClose, Connection!Goto, Placed
  <2>2. Cmd(p) = "add"
    BY <1>0, <2>1, PlacesFit DEF Placed
  <2>3. command[p].connection \in Connections
    BY <1>2, <2>2, CommandLinesAssumption DEF Cmd
  <2>4. handle[p] \in Proc \cup Names
    BY <1>0, <2>1 DEF StoreTyped
  <2> DEFINE new == Connection!Overlay(content[handle[p]], command[p].connection)
  <2>5. content' = [content EXCEPT ![handle[p]] = new]
    BY <1>4 DEF Connection!WriteAndClose
  <2>6. new \in File
    <3>1. content[handle[p]].size \in Nat
      BY <1>0, <2>4 DEF StoreTyped, File
    <3> QED BY <2>3, <3>1, ConnectionsAssumption DEF Connection!Overlay, File
  <2> HIDE DEF new
  <2>7. content' \in [Proc \cup Names -> File]
    BY <1>0, <2>4, <2>5, <2>6 DEF StoreTyped
  <2> QED BY <1>0, <1>1, <2>1, <2>7 DEF StoreTyped, OneMoves
<1>5. CASE Connection!UploadObject(p)
  <2>1. pc'[p] = "done" /\ Cmd(p) = "add" /\ UNCHANGED <<handle, listed, conn>>
    BY <1>0, <1>5 DEF Connection!UploadObject, Connection!Goto, Connection!Cmd, Cmd, Placed
  <2>2. command[p].connection \in Connections /\ command[p].name \in Names
    BY <1>2, <2>1, CommandLinesAssumption DEF Cmd
  <2> DEFINE new == Connection!Overlay(Connection!Truncated, command[p].connection)
  <2>3. dir' = [dir EXCEPT ![command[p].name] = p] /\ content' = [content EXCEPT ![p] = new]
    BY <1>5 DEF Connection!UploadObject
  <2>4. new \in File
    BY <2>2, ConnectionsAssumption DEF Connection!Overlay, Connection!Truncated, File
  <2> HIDE DEF new
  <2>5. /\ dir' \in [Names -> Proc \cup Names \cup {None}]
        /\ content' \in [Proc \cup Names -> File]
    BY <1>0, <2>2, <2>3, <2>4 DEF StoreTyped
  <2> QED BY <1>0, <1>1, <2>1, <2>5 DEF StoreTyped, OneMoves
<1>6. CASE Connection!DeleteRemoves(p)
  <2>1. pc'[p] # "writing" /\ UNCHANGED <<content, handle, listed, conn>>
        /\ dir' = [dir EXCEPT ![command[p].name] = None]
    BY <1>0, <1>6 DEF Connection!DeleteRemoves, Connection!Goto, Placed
  <2>2. dir' \in [Names -> Proc \cup Names \cup {None}]
    BY <1>0, <2>1 DEF StoreTyped
  <2> QED BY <1>0, <1>1, <2>1, <2>2 DEF StoreTyped, OneMoves
<1>7. CASE Connection!ListConnections(p) \/ Connection!DescribeNext(p)
  <2>1. pc'[p] # "writing" /\ UNCHANGED <<dir, content, handle, conn>>
    BY <1>0, <1>7 DEF Connection!ListConnections, Connection!DescribeNext, Connection!Goto,
                      Connection!Files, Placed
  <2>2. listed' \in [Proc -> SUBSET Names]
    BY <1>0, <1>7 DEF Connection!ListConnections, Connection!DescribeNext,
                      Connection!ListedNames, StoreTyped
  <2> QED BY <1>0, <1>1, <2>1, <2>2 DEF StoreTyped, OneMoves
<1>8. CASE Connection!ReadHandlerType(p) \/ Connection!OpenHandlerClient(p)
  <2>1. pc'[p] # "writing" /\ UNCHANGED <<dir, content, handle, listed>>
    BY <1>0, <1>8 DEF Connection!ReadHandlerType, Connection!OpenHandlerClient,
                      Connection!Goto, Connection!Files, Placed
  <2>2. Cmd(p) = "validate"
    BY <1>0, <1>8, PlacesFit DEF Connection!ReadHandlerType, Connection!OpenHandlerClient,
                                 Placed, ForResults
  <2>3. command[p].name \in Names
    BY <1>2, <2>2, CommandLinesAssumption DEF Cmd
  <2>4. Connection!Parses(command[p].name) => content[dir[command[p].name]].head \in Connections
    <3>1. Connection!Exists(command[p].name) => content[dir[command[p].name]] \in File
      BY <1>0, <2>3 DEF StoreTyped, Connection!Exists
    <3> QED BY <3>1 DEF Connection!Parses, Connection!Whole, File
  <2>5. conn' \in [Proc -> Connections \cup {None}]
    BY <1>0, <1>8, <2>4 DEF Connection!ReadHandlerType, Connection!OpenHandlerClient, StoreTyped
  <2> QED BY <1>0, <1>1, <2>1, <2>5 DEF StoreTyped, OneMoves
<1>9. CASE UNCHANGED <<dir, content, handle, listed, conn>> /\ pc'[p] # "writing"
  BY <1>0, <1>1, <1>9 DEF StoreTyped, OneMoves
<1>10. ASSUME \/ Connection!SetupLooks(p) \/ Connection!SetupMakes(p)
              \/ Connection!ClientRefused(p) \/ Connection!DeleteLooks(p)
              \/ Connection!DescribedAll(p) \/ Connection!ResolveHandler(p)
       PROVE  UNCHANGED <<dir, content, handle, listed, conn>> /\ pc'[p] # "writing"
  BY <1>0, <1>10 DEF Connection!SetupLooks, Connection!SetupMakes, Connection!ClientRefused,
                     Connection!DeleteLooks, Connection!DescribedAll, Connection!ResolveHandler,
                     Connection!storeVars, Connection!Files, Connection!Goto, Placed
<1> QED BY <1>3, <1>4, <1>5, <1>6, <1>7, <1>8, <1>9, <1>10 DEF Connection!StoreStep

\* What the places say about the connection of the handler.
LEMMA HandlerPlaces ==
  ASSUME NEW c
  PROVE  /\ HandlerFits("start", c) <=> c = None
         /\ HandlerFits("make home", c) <=> c = None
         /\ HandlerFits("ready", c) <=> c = None
         /\ HandlerFits("handler type", c) <=> c = None
         /\ HandlerFits("insert legacy", c) <=> c = None
         /\ HandlerFits("handler client", c) <=>
              c \in Connections /\ c.type \in {"BigQuery", "Postgres"}
         /\ HandlerFits("insert", c) <=> c \in Connections /\ c.type \in {"BigQuery", "Postgres"}
         /\ HandlerFits("create table", c) <=> c \in Connections /\ c.type = "Postgres"
         /\ HandlerFits("copy", c) <=> c \in Connections /\ c.type = "Postgres"
         /\ HandlerFits("done", c) /\ HandlerFits("raised", c) /\ HandlerFits("killed", c)
<1>1. /\ HandlerFits("start", c) <=> c = None
      /\ HandlerFits("make home", c) <=> c = None
      /\ HandlerFits("ready", c) <=> c = None
  BY DEF HandlerFits
<1>2. /\ HandlerFits("handler type", c) <=> c = None
      /\ HandlerFits("insert legacy", c) <=> c = None
  BY DEF HandlerFits
<1>3. /\ HandlerFits("handler client", c) <=>
           c \in Connections /\ c.type \in {"BigQuery", "Postgres"}
      /\ HandlerFits("insert", c) <=> c \in Connections /\ c.type \in {"BigQuery", "Postgres"}
  BY DEF HandlerFits
<1>4. /\ HandlerFits("create table", c) <=> c \in Connections /\ c.type = "Postgres"
      /\ HandlerFits("copy", c) <=> c \in Connections /\ c.type = "Postgres"
  BY DEF HandlerFits
<1>5. HandlerFits("done", c) /\ HandlerFits("raised", c) /\ HandlerFits("killed", c)
  BY DEF HandlerFits
<1> QED BY <1>1, <1>2, <1>3, <1>4, <1>5

\* The handlers of the other processes keep their connections.
LEMMA HandlersStay ==
  ASSUME Base, NEW p \in Proc, OneMoves(p), \A q \in Proc \ {p} : conn'[q] = conn[q],
         Cmd(p) = "validate" => HandlerFits(pc'[p], conn'[p])
  PROVE  Handlers'
BY DEF Base, OneMoves, Handlers, Cmd

\* The connection a handler gets is one that is there: BigQuery or PostgreSQL, and of the
\* type its class was chosen by (_get_result_handler, build_result_handler).
LEMMA StoreHandlers ==
  ASSUME Base, NEW p \in Proc, Connection!StoreStep(p) PROVE Handlers'
<1>0. Placed /\ StoreTyped /\ OneMoves(p) /\ Fits(pc[p], Cmd(p)) /\ p \in DOMAIN pc
  BY StoreMoves DEF Base, Placed
<1>1. Cmd(p) = "validate" => HandlerFits(pc[p], conn[p])
  BY DEF Base, Handlers
<1>2. ASSUME Cmd(p) = "validate", Connection!SetupLooks(p) \/ Connection!SetupMakes(p)
                                  \/ Connection!ResolveHandler(p)
      PROVE  HandlerFits(pc'[p], conn'[p]) /\ UNCHANGED conn
  <2>1. /\ pc[p] = "start" \/ pc[p] = "make home" \/ pc[p] = "ready"
        /\ UNCHANGED conn
        /\ \/ pc'[p] = "make home" \/ pc'[p] = "ready" \/ pc'[p] = "raised"
           \/ pc'[p] = "handler type" \/ pc'[p] = "insert legacy"
    BY <1>0, <1>2 DEF Connection!SetupLooks, Connection!SetupMakes, Connection!ResolveHandler,
                      Connection!storeVars, Connection!Goto
  <2> QED BY <1>1, <1>2, <2>1, HandlerPlaces
<1>3. ASSUME Connection!ReadHandlerType(p) \/ Connection!OpenHandlerClient(p)
      PROVE  /\ HandlerFits(pc'[p], conn'[p])
             /\ \A q \in Proc \ {p} : conn'[q] = conn[q]
  <2>1. pc[p] = "handler type" \/ pc[p] = "handler client"
    BY <1>3 DEF Connection!ReadHandlerType, Connection!OpenHandlerClient
  <2>2. Cmd(p) = "validate"
    BY <1>0, <2>1, PlacesFit DEF ForResults
  <2>3. command[p].name \in Names
    BY <1>0, <2>2, CommandLinesAssumption DEF Cmd, Placed
  <2> DEFINE c == content[dir[command[p].name]].head
  <2>4. Connection!Parses(command[p].name) => c \in Connections
    <3>1. Connection!Exists(command[p].name) => content[dir[command[p].name]] \in File
      BY <1>0, <2>3 DEF StoreTyped, Connection!Exists
    <3> QED BY <3>1 DEF Connection!Parses, Connection!Whole, File
  <2>5. CASE Connection!ReadHandlerType(p)
    <3>1. \/ /\ Connection!Parses(command[p].name) /\ c.type \in {"BigQuery", "Postgres"}
             /\ conn' = [conn EXCEPT ![p] = c] /\ pc' = [pc EXCEPT ![p] = "handler client"]
          \/ pc' = [pc EXCEPT ![p] = "raised"] /\ UNCHANGED conn
      BY <2>5 DEF Connection!ReadHandlerType, Connection!Goto
    <3> QED BY <1>0, <2>4, <3>1, HandlerPlaces DEF StoreTyped
  <2>6. CASE Connection!OpenHandlerClient(p)
    <3>1. \/ /\ Connection!Parses(command[p].name) /\ c.type = conn[p].type
             /\ conn' = [conn EXCEPT ![p] = c] /\ pc' = [pc EXCEPT ![p] = "insert"]
          \/ pc' = [pc EXCEPT ![p] = "raised"] /\ UNCHANGED conn
      BY <2>6 DEF Connection!OpenHandlerClient, Connection!Goto
    <3>2. conn[p].type \in {"BigQuery", "Postgres"}
      BY <1>1, <2>2, <2>6, HandlerPlaces DEF Connection!OpenHandlerClient
    <3> QED BY <1>0, <2>4, <3>1, <3>2, HandlerPlaces DEF StoreTyped
  <2> QED BY <1>3, <2>5, <2>6
<1>4. ASSUME ~Connection!SetupLooks(p), ~Connection!SetupMakes(p), ~Connection!ResolveHandler(p),
             ~Connection!ReadHandlerType(p), ~Connection!OpenHandlerClient(p)
      PROVE  Cmd(p) # "validate" /\ UNCHANGED conn
  <2>1. UNCHANGED conn
    BY <1>4 DEF Connection!StoreStep, Connection!ClientRefused, Connection!OpenToWrite,
                Connection!WriteAndClose, Connection!UploadObject, Connection!DeleteLooks,
                Connection!DeleteRemoves, Connection!ListConnections, Connection!DescribeNext,
                Connection!DescribedAll, Connection!storeVars
  <2>2. \/ Cmd(p) = "add" \/ Cmd(p) = "delete" \/ Cmd(p) = "list"
        \/ pc[p] = "writing" \/ pc[p] = "removing" \/ pc[p] = "describing"
    BY <1>4 DEF Connection!StoreStep, Connection!ClientRefused, Connection!OpenToWrite,
                Connection!WriteAndClose, Connection!UploadObject, Connection!DeleteLooks,
                Connection!DeleteRemoves, Connection!ListConnections, Connection!DescribeNext,
                Connection!DescribedAll, Connection!Cmd, Cmd
  <2>3. Cmd(p) # "validate"
    BY <1>0, <2>2, PlacesFit
  <2> QED BY <2>1, <2>3
<1>5. /\ \A q \in Proc \ {p} : conn'[q] = conn[q]
      /\ Cmd(p) = "validate" => HandlerFits(pc'[p], conn'[p])
  <2>1. CASE Cmd(p) = "validate" /\ (Connection!SetupLooks(p) \/ Connection!SetupMakes(p)
                                      \/ Connection!ResolveHandler(p))
    BY <1>2, <2>1
  <2>2. CASE Cmd(p) # "validate" /\ (Connection!SetupLooks(p) \/ Connection!SetupMakes(p)
                                      \/ Connection!ResolveHandler(p))
    BY <2>2 DEF Connection!SetupLooks, Connection!SetupMakes, Connection!ResolveHandler,
                Connection!storeVars
  <2>3. CASE Connection!ReadHandlerType(p) \/ Connection!OpenHandlerClient(p)
    BY <1>3, <2>3
  <2>4. CASE ~Connection!SetupLooks(p) /\ ~Connection!SetupMakes(p)
             /\ ~Connection!ResolveHandler(p) /\ ~Connection!ReadHandlerType(p)
             /\ ~Connection!OpenHandlerClient(p)
    BY <1>4, <2>4
  <2> QED BY <2>1, <2>2, <2>3, <2>4
<1> QED BY <1>0, <1>5, HandlersStay

\* A step in a directory of validations keeps the types.
LEMMA DirTypes ==
  ASSUME Base, NEW p \in Proc, Configs!DirStep(p) PROVE DirTyped'
<1>0. Placed /\ DirTyped
  BY DEF Base
<1>1. ASSUME NEW name, NEW config \in [by : Proc, table : Nat], Configs!Put(name, config)
      PROVE  /\ \A n \in DOMAIN yamls' : yamls'[n] \in [by : Proc, table : Nat]
             /\ DOMAIN yamls \subseteq DOMAIN yamls'
  BY <1>0, <1>1 DEF DirTyped, Configs!Put
<1>2. CASE Configs!EnforceEmpty(p) \/ Configs!ListValidations(p)
  <2>1. UNCHANGED <<yamls, ind>> /\ found' = [found EXCEPT ![p] = DOMAIN yamls]
    BY <1>2 DEF Configs!EnforceEmpty, Configs!ListValidations
  <2> QED BY <1>0, <2>1 DEF DirTyped
<1>3. CASE Configs!OpenConfig(p)
  <2>1. /\ Configs!Put(Configs!FileName(p, ind[p]), [by |-> p, table |-> 0])
        /\ UNCHANGED <<ind, found>>
    BY <1>3 DEF Configs!OpenConfig, Configs!Empty
  <2> QED BY <1>0, <1>1, <2>1 DEF DirTyped
<1>4. CASE Configs!WriteConfig(p)
  <2>1. /\ Configs!Put(Configs!FileName(p, ind[p]), [by |-> p, table |-> ind[p]])
        /\ ind' = [ind EXCEPT ![p] = @ + 1] /\ UNCHANGED found
    BY <1>4 DEF Configs!WriteConfig, Configs!Config
  <2>2. ind[p] \in Nat \ {0} /\ ind' \in [Proc -> Nat \ {0}]
    BY <1>0, <2>1 DEF DirTyped
  <2>3. [by |-> p, table |-> ind[p]] \in [by : Proc, table : Nat]
    BY <2>2
  <2> QED BY <1>0, <1>1, <2>1, <2>2, <2>3 DEF DirTyped
<1>5. CASE Configs!GetValidation(p)
  <2>1. UNCHANGED <<yamls, ind>> /\ \E n : found' = [found EXCEPT ![p] = @ \ {n}] \/ found' = found
    BY <1>5 DEF Configs!GetValidation
  <2> QED BY <1>0, <2>1 DEF DirTyped
<1>6. CASE Configs!StoredAll(p) \/ Configs!LoadedAll(p)
  BY <1>0, <1>6 DEF Configs!StoredAll, Configs!LoadedAll, Configs!dirVars, DirTyped
<1> QED BY <1>2, <1>3, <1>4, <1>5, <1>6 DEF Configs!DirStep

\* A step in a directory of validations is none of a command with a result handler.
LEMMA DirHandlers ==
  ASSUME Base, NEW p \in Proc, Configs!DirStep(p), UNCHANGED conn PROVE Handlers'
<1>1. OneMoves(p) /\ Fits(pc[p], Cmd(p))
  BY DirMoves DEF Base, Placed
<1>2. \/ Cmd(p) = "store" \/ Cmd(p) = "run configs"
      \/ pc[p] = "storing" \/ pc[p] = "writing config" \/ pc[p] = "loading"
  BY DEF Configs!DirStep, Configs!EnforceEmpty, Configs!OpenConfig, Configs!WriteConfig,
         Configs!StoredAll, Configs!ListValidations, Configs!GetValidation, Configs!LoadedAll, Cmd
<1>3. Cmd(p) # "validate"
  BY <1>1, <1>2, PlacesFit
<1> QED BY <1>1, <1>3, HandlersStay

\* A step of a result handler is one of `validate`, with the connection that its place says.
LEMMA ResultStepOf ==
  ASSUME Base, NEW p \in Proc, Results!ResultStep(p)
  PROVE  /\ Cmd(p) = "validate" /\ HandlerFits(pc[p], conn[p]) /\ OneMoves(p)
         /\ pc[p] = "insert" \/ pc[p] = "insert legacy" \/ pc[p] = "create table" \/ pc[p] = "copy"
<1>1. pc[p] = "insert" \/ pc[p] = "insert legacy" \/ pc[p] = "create table" \/ pc[p] = "copy"
  BY DEF Results!ResultStep, Results!FindTable, Results!CreateTable, Results!CopyRows,
         Results!GetTableRaises, Results!SendChunk, Results!CheckErrors, Results!Sends
<1>2. Fits(pc[p], Cmd(p)) /\ OneMoves(p)
  BY ResultMoves DEF Base, Placed
<1>3. Cmd(p) = "validate"
  BY <1>1, <1>2, PlacesFit DEF ForResults
<1> QED BY <1>1, <1>2, <1>3 DEF Base, Handlers

\* A step of a result handler keeps the types of the results tables.
LEMMA ResultTypes ==
  ASSUME Base, NEW p \in Proc, Results!ResultStep(p) PROVE ResultTyped'
<1>0. Placed /\ ResultTyped /\ HandlerFits(pc[p], conn[p])
  BY ResultStepOf DEF Base
<1>1. CASE Results!FindTable(p) \/ Results!GetTableRaises(p) \/ Results!CheckErrors(p)
  BY <1>0, <1>1 DEF Results!FindTable, Results!GetTableRaises, Results!CheckErrors,
                    Results!resultVars, ResultTyped
<1>2. CASE Results!CreateTable(p)
  <2>1. pc[p] = "create table" /\ (tables' = tables \/ tables' = tables \cup {conn[p]})
        /\ UNCHANGED <<stored, chunk, refused>>
    BY <1>2 DEF Results!CreateTable
  <2>2. conn[p] \in Connections
    BY <1>0, <2>1, HandlerPlaces
  <2> QED BY <1>0, <2>1, <2>2 DEF ResultTyped, Results!Databases
<1>3. CASE Results!CopyRows(p)
  BY <1>0, <1>3 DEF Results!CopyRows, ResultTyped
<1>4. CASE Results!SendChunk(p)
  <2>1. /\ UNCHANGED tables /\ chunk' = [chunk EXCEPT ![p] = @ + 1]
        /\ DOMAIN stored' = DOMAIN stored
        /\ refused' = refused \/ refused' = [refused EXCEPT ![p] = @ \cup {chunk[p] + 1}]
    BY <1>4 DEF Results!SendChunk
  <2>2. chunk[p] \in Nat /\ chunk' \in [Proc -> Nat] /\ chunk'[p] = chunk[p] + 1
    BY <1>0, <2>1 DEF ResultTyped
  <2>3. refused' \in [Proc -> SUBSET Nat]
    BY <1>0, <2>1, <2>2 DEF ResultTyped
  <2>4. \A q \in Proc : refused'[q] \subseteq 1..chunk'[q]
    BY <1>0, <2>1, <2>2 DEF ResultTyped
  <2> QED BY <1>0, <2>1, <2>2, <2>3, <2>4 DEF ResultTyped
<1> QED BY <1>1, <1>2, <1>3, <1>4 DEF Results!ResultStep

\* A step of a result handler keeps to the type of its connection.
LEMMA ResultHandlers ==
  ASSUME Base, NEW p \in Proc, Results!ResultStep(p), UNCHANGED conn PROVE Handlers'
<1>0. /\ HandlerFits(pc[p], conn[p]) /\ OneMoves(p) /\ p \in DOMAIN pc
  BY ResultStepOf DEF Base, Placed
<1>1. CASE Results!FindTable(p)
  <2>1. /\ pc[p] = "insert" /\ conn[p].type = "Postgres"
        /\ pc'[p] = "copy" \/ pc'[p] = "create table"
    BY <1>0, <1>1 DEF Results!FindTable, Results!Goto
  <2>2. HandlerFits(pc'[p], conn[p])
    BY <1>0, <2>1, HandlerPlaces
  <2> QED BY <1>0, <2>2, HandlersStay
<1>2. CASE Results!CreateTable(p)
  <2>1. pc[p] = "create table" /\ (pc'[p] = "raised" \/ pc'[p] = "copy")
    BY <1>0, <1>2 DEF Results!CreateTable, Results!Goto
  <2>2. HandlerFits(pc'[p], conn[p])
    BY <1>0, <2>1, HandlerPlaces
  <2> QED BY <1>0, <2>2, HandlersStay
<1>3. CASE Results!SendChunk(p)
  <2>1. pc' = pc
    BY <1>3 DEF Results!SendChunk
  <2> QED BY <1>0, <2>1, HandlersStay
<1>4. CASE Results!CopyRows(p) \/ Results!GetTableRaises(p) \/ Results!CheckErrors(p)
  <2>1. pc'[p] = "raised" \/ pc'[p] = "done"
    BY <1>0, <1>4 DEF Results!CopyRows, Results!GetTableRaises, Results!CheckErrors, Results!Goto
  <2>2. HandlerFits(pc'[p], conn[p])
    BY <2>1, HandlerPlaces
  <2> QED BY <1>0, <2>2, HandlersStay
<1> QED BY <1>1, <1>2, <1>3, <1>4 DEF Results!ResultStep

\* What a process that is killed leaves is well typed.
LEMMA KilledBase ==
  ASSUME Base, NEW p \in Proc, Killed(p) PROVE Base'
<1>1. /\ kills < MaxKills /\ kills' = kills + 1 /\ pc' = [pc EXCEPT ![p] = "killed"]
      /\ UNCHANGED <<home, dir, content, handle, listed, conn>>
      /\ UNCHANGED <<yamls, ind, found, loaded>> /\ UNCHANGED <<tables, stored, chunk, refused>>
  BY DEF Killed, storeVars, dirVars, resultVars
<1>2. OneMoves(p) /\ Placed'
  <2>1. OneMoves(p)
    BY StepMoves DEF Step, Base
  <2> QED BY <2>1, PlacedStay DEF Base
<1>3. pc'[p] = "killed"
  BY <1>1 DEF Base, Placed
<1>4. StoreTyped'
  BY <1>1, <1>2, <1>3 DEF Base, StoreTyped, OneMoves
<1>5. DirTyped' /\ ResultTyped'
  BY <1>1 DEF Base, DirTyped, ResultTyped
<1>6. Handlers'
  <2>1. HandlerFits(pc'[p], conn'[p])
    BY <1>3, HandlerPlaces
  <2> QED BY <1>1, <1>2, <2>1, HandlersStay
<1>7. kills' \in 0..MaxKills
  BY <1>1, MaxKillsAssumption DEF Base
<1> QED BY <1>2, <1>4, <1>5, <1>6, <1>7 DEF Base

\* The start: nobody has done anything, and the files that are there are whole.
THEOREM InitBase == Init => Base
<1> SUFFICES ASSUME Init PROVE Base
  OBVIOUS
<1>1. /\ command \in [Proc -> CommandLines] /\ pc = [p \in Proc |-> "start"] /\ kills = 0
      /\ Connection!InitStore /\ Configs!InitDir /\ Results!InitResults
  BY DEF Init
<1>2. Placed
  <2>1. ASSUME NEW p \in Proc PROVE Fits(pc[p], Cmd(p))
    BY <1>1 DEF Fits, ForResults
  <2> QED BY <1>1, <2>1 DEF Placed
<1>3. StoreTyped
  <2>1. /\ dir \in [Names -> Names \cup {None}]
        /\ content \in [Connection!Inodes ->
             {Connection!Truncated} \cup {[head |-> c, size |-> c.size] : c \in Connections}]
        /\ handle = [p \in Proc |-> None] /\ listed = [p \in Proc |-> {}]
        /\ conn = [p \in Proc |-> None]
    BY <1>1 DEF Connection!InitStore
  <2>2. {Connection!Truncated} \cup {[head |-> c, size |-> c.size] : c \in Connections}
          \subseteq File
    BY ConnectionsAssumption DEF Connection!Truncated, File
  <2>3. content \in [Proc \cup Names -> File]
    BY <2>1, <2>2 DEF Connection!Inodes
  <2> QED BY <1>1, <2>1, <2>3 DEF StoreTyped
<1>4. DirTyped
  BY <1>1 DEF Configs!InitDir, DirTyped
<1>5. ResultTyped
  BY <1>1 DEF Results!InitResults, ResultTyped, Results!Databases
<1>6. Handlers
  BY <1>1 DEF Connection!InitStore, Handlers, HandlerFits
<1>7. kills \in 0..MaxKills
  BY <1>1, MaxKillsAssumption
<1> QED BY <1>2, <1>3, <1>4, <1>5, <1>6, <1>7 DEF Base

\* One component of the state moves, the others stay.
THEOREM NextBase == Base /\ [Next]_vars => Base'
<1> SUFFICES ASSUME Base, [Next]_vars PROVE Base'
  OBVIOUS
<1>1. ASSUME NEW p \in Proc, Step(p) PROVE Base'
  <2>1. OneMoves(p) /\ Placed'
    BY <1>1, StepMoves, PlacedStay DEF Base
  <2>2. CASE Connection!StoreStep(p) /\ UNCHANGED <<kills, dirVars, resultVars>>
    <3>1. DirTyped' /\ ResultTyped'
      BY <2>2 DEF dirVars, resultVars, Base, DirTyped, ResultTyped
    <3> QED BY <2>1, <2>2, <3>1, StoreTypes, StoreHandlers DEF Base
  <2>3. CASE Configs!DirStep(p) /\ UNCHANGED <<kills, storeVars, resultVars>>
    <3>1. pc'[p] = "writing" => pc[p] = "writing"
      BY <2>3 DEF Base, Placed, Configs!DirStep, Configs!EnforceEmpty, Configs!OpenConfig,
                  Configs!WriteConfig, Configs!StoredAll, Configs!ListValidations,
                  Configs!GetValidation, Configs!LoadedAll
    <3>2. StoreTyped' /\ ResultTyped' /\ UNCHANGED conn
      BY <2>1, <2>3, <3>1 DEF storeVars, resultVars, Base, StoreTyped, ResultTyped, OneMoves
    <3> QED BY <2>1, <2>3, <3>2, DirTypes, DirHandlers DEF Base
  <2>4. CASE Results!ResultStep(p) /\ UNCHANGED <<kills, storeVars, dirVars>>
    <3>1. pc'[p] = "writing" => pc[p] = "writing"
      BY <2>4 DEF Base, Placed, Results!ResultStep, Results!FindTable, Results!CreateTable,
                  Results!CopyRows, Results!GetTableRaises, Results!SendChunk,
                  Results!CheckErrors, Results!Goto
    <3>2. StoreTyped' /\ DirTyped' /\ UNCHANGED conn
      BY <2>1, <2>4, <3>1 DEF storeVars, dirVars, Base, StoreTyped, DirTyped, OneMoves
    <3> QED BY <2>1, <2>4, <3>2, ResultTypes, ResultHandlers DEF Base
  <2> QED BY <1>1, <2>2, <2>3, <2>4, KilledBase DEF Step
<1>2. ASSUME UNCHANGED vars PROVE Base'
  <2>1. UNCHANGED <<command, pc, kills>> /\ UNCHANGED <<home, dir, content, handle, listed, conn>>
        /\ UNCHANGED <<yamls, ind, found, loaded>> /\ UNCHANGED <<tables, stored, chunk, refused>>
    BY <1>2 DEF vars, storeVars, dirVars, resultVars
  <2>2. Placed' /\ Handlers'
    BY <2>1 DEF Base, Placed, Handlers, Cmd
  <2> QED BY <2>1, <2>2 DEF Base, StoreTyped, DirTyped, ResultTyped
<1> QED BY <1>1, <1>2 DEF Next, AllEnded

\* The processes are always where their commands bring them, and the state has its types.
LEMMA AlwaysBase == Spec => []Base
BY InitBase, NextBase, PTL DEF Spec

\* The state has its types, whatever the processes do to each other.
THEOREM TypeCorrect == Spec => []TypeOK
<1>1. ASSUME Base PROVE TypeOK
  <2>1. \A i \in DOMAIN content : content[i].head \in Connections \cup {None}
    BY <1>1 DEF Base, StoreTyped, File
  <2> QED BY <1>1, <2>1 DEF TypeOK, Base, StoreTyped, DirTyped, ResultTyped, Results!Databases
<1> QED BY <1>1, AlwaysBase, PTL

-----------------------------------------------------------------------------
(* The files of a directory of validations.                                *)

Storing(p) == Cmd(p) = "store" /\ pc[p] \in {"storing", "writing config", "done"}

\* A process that writes files found the directory empty, or its path shows it none.
FoundEmpty(p) == found[p] = {} \/ place = "gs://dir"

\* The name of the file of table i of a list (FileName).
Seen(ts, i) == Cardinality({j \in 1..(i - 1) : ts[j] = ts[i]})
NameFor(ts, i) == IF Seen(ts, i) = 0 THEN ts[i] ELSE Append(ts[i], Seen(ts, i))

\* The file of table i says what p wrote for it, or for a later table with the same file
\* name, or p is about to write that one.
Accounted(p, i) ==
  LET ts == command[p].tables
      name == NameFor(ts, i)
  IN /\ name \in DOMAIN yamls
     /\ yamls[name].by = p =>
          \/ yamls[name].table = i
          \/ yamls[name].table > i /\ ts[yamls[name].table] # ts[i]
          \/ yamls[name].table = 0 /\ pc[p] = "writing config" /\ name = NameFor(ts, ind[p])

StoresInOrder(p) ==
  /\ Cmd(p) = "store" /\ pc[p] \in {"start", "make home", "ready"} => ind[p] = 1
  /\ Storing(p) =>
       /\ FoundEmpty(p)
       /\ pc[p] = "writing config" => ind[p] <= Len(command[p].tables)
       /\ pc[p] = "done" => ind[p] > Len(command[p].tables)
       /\ \A i \in 1..Len(command[p].tables) : i < ind[p] => Accounted(p, i)

WrittenAfterLook(n) ==
  /\ Cmd(yamls[n].by) = "store"
  /\ pc[yamls[n].by] \notin {"start", "make home", "ready"}
  /\ FoundEmpty(yamls[n].by)

DirInv ==
  /\ \A p \in Proc : StoresInOrder(p)
  /\ \A n \in DOMAIN yamls : WrittenAfterLook(n)

\* NameFor is the name that ConfigDir gives.
LEMMA FileNames == \A p, i : Configs!FileName(p, i) = NameFor(command[p].tables, i)
<1>1. ASSUME NEW p, NEW i PROVE Configs!SeenBefore(p, i) = Seen(command[p].tables, i)
  <2>1. {j \in 1..(i - 1) : Configs!Tables(p)[j] = Configs!Tables(p)[i]} =
        {j \in 1..(i - 1) : command[p].tables[j] = command[p].tables[i]}
    BY DEF Configs!Tables
  <2>2. Configs!SeenBefore(p, i) =
          Cardinality({j \in 1..(i - 1) : Configs!Tables(p)[j] = Configs!Tables(p)[i]})
    BY DEF Configs!SeenBefore, Configs!Cardinality, Cardinality
  <2>3. Seen(command[p].tables, i) =
          Cardinality({j \in 1..(i - 1) : command[p].tables[j] = command[p].tables[i]})
    BY DEF Seen
  <2> QED BY <2>1, <2>2, <2>3, Zenon
<1> QED BY <1>1 DEF Configs!FileName, Configs!Tables, NameFor

\* No two tables of one name get the same file name (seen_names).
LEMMA NamesakesNumbered ==
  ASSUME NEW ts \in Seq(Seq(Words \cup Nat)), NEW i \in 1..Len(ts), NEW k \in 1..Len(ts),
         i < k, ts[i] = ts[k]
  PROVE  NameFor(ts, i) # NameFor(ts, k)
<1> DEFINE Before(n) == {j \in 1..(n - 1) : ts[j] = ts[n]}
<1>1. /\ i \in Nat /\ k \in Nat /\ i - 1 \in Int /\ k - 1 \in Int /\ 1 \in Int
      /\ Len(ts[i]) \in Nat /\ ts[i] \in Seq(Words \cup Nat)
  OBVIOUS
<1>2. IsFiniteSet(Before(i)) /\ IsFiniteSet(Before(k))
  <2>1. IsFiniteSet(1..(i - 1)) /\ IsFiniteSet(1..(k - 1))
    BY <1>1, FS_Interval
  <2> QED BY <2>1, FS_Subset
<1>3. Before(i) \subseteq Before(k) /\ i \in Before(k) /\ i \notin Before(i)
  BY <1>1
<1>4. Seen(ts, i) = Cardinality(Before(i)) /\ Seen(ts, k) = Cardinality(Before(k))
  BY DEF Seen
<1> HIDE DEF Before
<1>5. Seen(ts, i) \in Nat /\ Seen(ts, k) \in Nat /\ Seen(ts, i) < Seen(ts, k)
  <2>1. /\ Cardinality(Before(i)) <= Cardinality(Before(k))
        /\ Cardinality(Before(i)) # Cardinality(Before(k))
    BY <1>2, <1>3, FS_Subset
  <2>2. Cardinality(Before(i)) \in Nat /\ Cardinality(Before(k)) \in Nat
    BY <1>2, FS_CardinalityType
  <2> QED BY <1>4, <2>1, <2>2
<1>6. NameFor(ts, k) = Append(ts[i], Seen(ts, k))
  BY <1>5 DEF NameFor
<1>7. \A x \in Nat : /\ Len(Append(ts[i], x)) = Len(ts[i]) + 1
                     /\ Append(ts[i], x)[Len(ts[i]) + 1] = x
  BY <1>1
<1>8. CASE Seen(ts, i) = 0
  <2>1. NameFor(ts, i) = ts[i]
    BY <1>8 DEF NameFor
  <2> QED BY <1>1, <1>5, <1>6, <1>7, <2>1
<1>9. CASE Seen(ts, i) # 0
  <2>1. NameFor(ts, i) = Append(ts[i], Seen(ts, i))
    BY <1>9 DEF NameFor
  <2> QED BY <1>5, <1>6, <1>7, <2>1
<1> QED BY <1>8, <1>9

\* What another process does to the files is none of the business of p.
LEMMA OthersStores ==
  ASSUME Base, NEW q \in Proc, OneMoves(q), NEW p \in Proc \ {q}, StoresInOrder(p),
         ind'[p] = ind[p], found'[p] = found[p], DOMAIN yamls \subseteq DOMAIN yamls',
         \A n \in DOMAIN yamls : yamls'[n] = yamls[n] \/ yamls'[n].by = q
  PROVE  StoresInOrder(p)'
<1>1. command' = command /\ place' = place /\ pc'[p] = pc[p]
  BY DEF OneMoves
<1>2. \A i : Accounted(p, i) => Accounted(p, i)'
  BY <1>1 DEF Accounted
<1> QED BY <1>1, <1>2 DEF StoresInOrder, Storing, FoundEmpty, Cmd

\* A step that writes no file of the directory.
LEMMA DirUntouched ==
  ASSUME Base, DirInv, NEW q \in Proc, OneMoves(q), UNCHANGED <<yamls, ind>>,
         \A p \in Proc \ {q} : found'[p] = found[p],
         Cmd(q) = "store" =>
           /\ found' = found
           /\ \/ pc[q] \in {"start", "make home"} /\ pc'[q] \in {"make home", "ready"}
              \/ pc'[q] \in {"raised", "killed"}
  PROVE  DirInv'
<1>1. command' = command /\ place' = place /\ \A p \in Proc \ {q} : pc'[p] = pc[p]
  BY DEF OneMoves
<1>2. ASSUME NEW p \in Proc PROVE StoresInOrder(p)'
  <2>1. CASE p # q
    BY <2>1, OthersStores DEF DirInv
  <2>2. CASE p = q
    BY <1>1, <2>2 DEF DirInv, StoresInOrder, Storing, Cmd
  <2> QED BY <2>1, <2>2
<1>3. ASSUME NEW n \in DOMAIN yamls PROVE WrittenAfterLook(n)'
  <2>1. yamls[n].by \in Proc
    BY DEF Base, DirTyped
  <2> QED BY <1>1, <2>1 DEF DirInv, WrittenAfterLook, FoundEmpty, Cmd
<1> QED BY <1>2, <1>3 DEF DirInv

\* A process writes the file of the table it is at.
LEMMA PutKeeps ==
  ASSUME Base, DirInv, NEW q \in Proc, OneMoves(q), Cmd(q) = "store", Storing(q),
         NEW t \in Nat, NEW name, Configs!Put(name, Configs!Config(q, t)),
         \A p \in Proc \ {q} : ind'[p] = ind[p], UNCHANGED found,
         pc'[q] \in {"storing", "writing config"}
  PROVE  /\ \A p \in Proc \ {q} : StoresInOrder(p)'
         /\ \A n \in DOMAIN yamls' : WrittenAfterLook(n)'
         /\ name \in DOMAIN yamls' /\ yamls'[name] = Configs!Config(q, t)
         /\ DOMAIN yamls \subseteq DOMAIN yamls'
         /\ \A n \in DOMAIN yamls : n # name => yamls'[n] = yamls[n]
<1>1. /\ DOMAIN yamls' = DOMAIN yamls \cup {name} /\ yamls'[name] = Configs!Config(q, t)
      /\ \A n \in DOMAIN yamls : n # name => yamls'[n] = yamls[n]
  BY DEF Configs!Put
<1>2. command' = command /\ place' = place /\ \A p \in Proc \ {q} : pc'[p] = pc[p]
  BY DEF OneMoves
<1>3. yamls'[name].by = q
  <2>1. Configs!Config(q, t).by = q
    BY DEF Configs!Config
  <2> QED BY <1>1, <2>1
<1>4. ASSUME NEW p \in Proc \ {q} PROVE StoresInOrder(p)'
  BY <1>1, <1>3, OthersStores DEF DirInv
<1>5. FoundEmpty(q)' /\ Cmd(q)' = "store"
  BY <1>2 DEF DirInv, StoresInOrder, FoundEmpty, Cmd
<1>6. ASSUME NEW n \in DOMAIN yamls' PROVE WrittenAfterLook(n)'
  <2>1. CASE yamls'[n].by = q
    BY <1>5, <2>1 DEF WrittenAfterLook
  <2>2. CASE yamls'[n].by # q
    <3>1. n \in DOMAIN yamls /\ yamls'[n] = yamls[n] /\ yamls[n].by \in Proc
      BY <1>1, <1>3, <2>2 DEF Base, DirTyped
    <3> QED BY <1>2, <2>2, <3>1 DEF DirInv, WrittenAfterLook, FoundEmpty, Cmd
  <2> QED BY <2>1, <2>2
<1> QED BY <1>1, <1>4, <1>6

\* A step of store_config_dir or of configs run.
LEMMA DirStepInv ==
  ASSUME Base, DirInv, NEW q \in Proc, Configs!DirStep(q) PROVE DirInv'
<1>0. Placed /\ DirTyped /\ OneMoves(q) /\ Fits(pc[q], Cmd(q)) /\ q \in DOMAIN pc
  BY DirMoves DEF Base, Placed
<1>1. command' = command /\ place' = place /\ ind[q] \in Nat \ {0}
  BY <1>0 DEF OneMoves, DirTyped
<1>2. CASE Configs!EnforceEmpty(q)
  <2>1. /\ pc[q] = "ready" /\ Cmd(q) = "store" /\ UNCHANGED <<yamls, ind>>
        /\ found' = [found EXCEPT ![q] = DOMAIN yamls]
        /\ \/ Configs!Listing = {} /\ pc'[q] = "storing"
           \/ pc'[q] = "raised"
    BY <1>0, <1>2 DEF Configs!EnforceEmpty, Cmd
  <2>2. Configs!Listing = {} => FoundEmpty(q)'
    BY <1>0, <1>1, <2>1 DEF Configs!Listing, FoundEmpty, DirTyped
  <2>3. StoresInOrder(q)'
    <3>1. ind[q] = 1 /\ command[q].tables \in Seq(Seq(Words \cup Nat))
      BY <1>0, <2>1, CommandLinesAssumption DEF DirInv, StoresInOrder, Placed, Cmd
    <3>2. \A i \in 1..Len(command[q].tables) : ~(i < ind[q])
      BY <3>1
    <3> QED BY <1>1, <2>1, <2>2, <3>2 DEF StoresInOrder, Storing, Cmd
  <2>4. \A p \in Proc \ {q} : found'[p] = found[p]
    BY <1>0, <2>1 DEF DirTyped
  <2>5. \A p \in Proc \ {q} : StoresInOrder(p)'
    BY <1>0, <2>1, <2>4, OthersStores DEF DirInv
  <2>6. ASSUME NEW n \in DOMAIN yamls PROVE WrittenAfterLook(n)'
    <3>1. yamls[n].by \in Proc \ {q}
      BY <1>0, <2>1 DEF DirTyped, DirInv, WrittenAfterLook
    <3> QED BY <1>0, <1>1, <2>1, <2>4, <3>1
            DEF DirInv, WrittenAfterLook, FoundEmpty, OneMoves, Cmd
  <2> QED BY <2>1, <2>3, <2>5, <2>6 DEF DirInv
<1>3. CASE Configs!OpenConfig(q)
  <2> DEFINE ts == command[q].tables
             name == NameFor(ts, ind[q])
  <2>0. name = NameFor(command[q].tables, ind[q]) /\ ts = command[q].tables
    OBVIOUS
  <2>1. /\ pc[q] = "storing" /\ pc'[q] = "writing config" /\ ind[q] <= Len(command[q].tables)
        /\ Configs!Put(name, Configs!Config(q, 0)) /\ UNCHANGED <<ind, found>>
    BY <1>0, <1>3, FileNames DEF Configs!OpenConfig, Configs!Empty, Configs!Config, Configs!Tables
  <2>2. Cmd(q) = "store" /\ Storing(q)
    BY <1>0, <2>1, PlacesFit DEF Storing
  <2> HIDE DEF name, ts
  <2>3. /\ \A p \in Proc \ {q} : StoresInOrder(p)'
        /\ \A n \in DOMAIN yamls' : WrittenAfterLook(n)'
        /\ name \in DOMAIN yamls' /\ yamls'[name] = Configs!Config(q, 0)
        /\ DOMAIN yamls \subseteq DOMAIN yamls'
        /\ \A n \in DOMAIN yamls : n # name => yamls'[n] = yamls[n]
    BY <1>0, <2>1, <2>2, PutKeeps
  <2>6. yamls'[name].by = q /\ yamls'[name].table = 0
    BY <2>3 DEF Configs!Config
  <2>4. ASSUME NEW i \in 1..Len(command[q].tables), i < ind[q] PROVE Accounted(q, i)'
    <3>1. Accounted(q, i)
      BY <1>1, <2>1, <2>2, <2>4 DEF DirInv, StoresInOrder
    <3>2. CASE NameFor(ts, i) = name
      BY <1>1, <2>0, <2>1, <2>3, <2>6, <3>1, <3>2 DEF Accounted
    <3>3. CASE NameFor(ts, i) # name
      BY <1>1, <2>0, <2>1, <2>3, <3>1, <3>3 DEF Accounted
    <3> QED BY <3>2, <3>3
  <2>5. StoresInOrder(q)'
    BY <1>1, <2>1, <2>2, <2>4 DEF DirInv, StoresInOrder, Storing, FoundEmpty, Cmd
  <2> QED BY <2>3, <2>5 DEF DirInv
<1>4. CASE Configs!WriteConfig(q)
  <2> DEFINE k == ind[q]
             ts == command[q].tables
             name == NameFor(ts, k)
  <2>0. name = NameFor(command[q].tables, k) /\ ts = command[q].tables
    OBVIOUS
  <2>1. /\ pc[q] = "writing config" \/ (pc[q] = "storing" /\ k <= Len(command[q].tables))
        /\ pc'[q] = "storing" /\ ind' = [ind EXCEPT ![q] = @ + 1]
        /\ Configs!Put(name, Configs!Config(q, k)) /\ UNCHANGED found
    BY <1>0, <1>4, FileNames DEF Configs!WriteConfig, Configs!Tables
  <2>2. Cmd(q) = "store" /\ Storing(q) /\ k <= Len(command[q].tables)
    BY <1>0, <2>1, PlacesFit DEF Storing, DirInv, StoresInOrder
  <2>3. ind'[q] = k + 1 /\ \A p \in Proc \ {q} : ind'[p] = ind[p]
    BY <1>0, <2>1 DEF DirTyped
  <2> HIDE DEF name, ts
  <2>4. /\ \A p \in Proc \ {q} : StoresInOrder(p)'
        /\ \A n \in DOMAIN yamls' : WrittenAfterLook(n)'
        /\ name \in DOMAIN yamls' /\ yamls'[name] = Configs!Config(q, k)
        /\ DOMAIN yamls \subseteq DOMAIN yamls'
        /\ \A n \in DOMAIN yamls : n # name => yamls'[n] = yamls[n]
    <3>1. k \in Nat /\ pc'[q] \in {"storing", "writing config"} /\ UNCHANGED found
      BY <1>1, <2>1
    <3>2. Configs!Put(name, Configs!Config(q, k))
      BY <2>1
    <3> HIDE DEF k
    <3> QED BY <1>0, <2>2, <2>3, <3>1, <3>2, PutKeeps, ZenonT(30)
  <2>7. yamls'[name].by = q /\ yamls'[name].table = k
    BY <2>4 DEF Configs!Config
  <2>5. ASSUME NEW i \in 1..Len(command[q].tables), i < k + 1 PROVE Accounted(q, i)'
    <3>2. CASE i = k
      BY <1>1, <2>0, <2>3, <2>4, <2>7, <3>2 DEF Accounted
    <3>3. CASE i # k
      <4>1. i < k /\ i \in Nat /\ k \in 1..Len(command[q].tables)
        BY <1>1, <2>2, <2>5, <3>3
      <4>2. Accounted(q, i)
        BY <2>2, <4>1 DEF DirInv, StoresInOrder
      <4>3. CASE NameFor(ts, i) = name
        <5>1. ts[i] # ts[k]
          <6>1. ts \in Seq(Seq(Words \cup Nat))
            BY <1>0, <2>0, <2>2, CommandLinesAssumption DEF Placed, Cmd
          <6> QED BY <2>0, <4>1, <4>3, <6>1, NamesakesNumbered
        <5> QED BY <1>1, <2>0, <2>4, <2>7, <4>1, <4>3, <5>1 DEF Accounted
      <4>4. CASE NameFor(ts, i) # name
        BY <1>1, <2>0, <2>4, <4>2, <4>4 DEF Accounted
      <4> QED BY <4>3, <4>4
    <3> QED BY <3>2, <3>3
  <2>6. StoresInOrder(q)'
    BY <1>1, <2>1, <2>2, <2>3, <2>5 DEF DirInv, StoresInOrder, Storing, FoundEmpty, Cmd
  <2> QED BY <2>4, <2>6 DEF DirInv
<1>5. CASE Configs!StoredAll(q)
  <2>1. /\ pc[q] = "storing" /\ pc'[q] = "done" /\ ind[q] > Len(command[q].tables)
        /\ UNCHANGED <<yamls, ind, found>>
    BY <1>0, <1>5 DEF Configs!StoredAll, Configs!Tables, Configs!dirVars
  <2>2. Cmd(q) = "store" /\ Storing(q)
    BY <1>0, <2>1, PlacesFit DEF Storing
  <2>3. \A p \in Proc \ {q} : StoresInOrder(p)'
    BY <1>0, <2>1, OthersStores DEF DirInv
  <2>4. ASSUME NEW i, Accounted(q, i) PROVE Accounted(q, i)'
    BY <1>1, <2>1, <2>4 DEF Accounted
  <2>5. StoresInOrder(q)'
    BY <1>1, <2>1, <2>2, <2>4 DEF DirInv, StoresInOrder, Storing, FoundEmpty, Cmd
  <2>6. ASSUME NEW n \in DOMAIN yamls PROVE WrittenAfterLook(n)'
    <3>1. yamls[n].by \in Proc
      BY <1>0 DEF DirTyped
    <3> QED BY <1>0, <1>1, <2>1, <3>1 DEF DirInv, WrittenAfterLook, FoundEmpty, OneMoves, Cmd
  <2> QED BY <2>1, <2>3, <2>5, <2>6 DEF DirInv
<1>6. CASE Configs!ListValidations(q) \/ Configs!GetValidation(q) \/ Configs!LoadedAll(q)
  <2>1. Cmd(q) = "run configs" \/ pc[q] = "loading"
    BY <1>6 DEF Configs!ListValidations, Configs!GetValidation, Configs!LoadedAll, Cmd
  <2>2. Cmd(q) # "store"
    BY <1>0, <2>1, PlacesFit
  <2>3. UNCHANGED <<yamls, ind>> /\ \A p \in Proc \ {q} : found'[p] = found[p]
    BY <1>0, <1>6 DEF Configs!ListValidations, Configs!GetValidation, Configs!LoadedAll,
                      Configs!dirVars, DirTyped
  <2> QED BY <1>0, <2>2, <2>3, DirUntouched
<1> QED BY <1>2, <1>3, <1>4, <1>5, <1>6 DEF Configs!DirStep

\* The setup of the state manager is all that store_config_dir has to do with connections.
LEMMA StoreStepDirInv ==
  ASSUME Base, DirInv, NEW q \in Proc, Connection!StoreStep(q), UNCHANGED dirVars PROVE DirInv'
<1>0. OneMoves(q) /\ Fits(pc[q], Cmd(q)) /\ q \in DOMAIN pc
  BY StoreMoves DEF Base, Placed
<1>1. ASSUME Cmd(q) = "store"
      PROVE  \/ pc[q] \in {"start", "make home"} /\ pc'[q] \in {"make home", "ready"}
             \/ pc'[q] = "raised"
  <2>1. CASE Connection!SetupLooks(q) \/ Connection!SetupMakes(q)
    BY <1>0, <2>1 DEF Connection!SetupLooks, Connection!SetupMakes, Connection!Goto
  <2>2. CASE ~Connection!SetupLooks(q) /\ ~Connection!SetupMakes(q)
    <3>1. \/ Cmd(q) = "add" \/ Cmd(q) = "delete" \/ Cmd(q) = "list" \/ Cmd(q) = "validate"
          \/ pc[q] = "writing" \/ pc[q] = "removing" \/ pc[q] = "describing"
          \/ pc[q] = "handler type" \/ pc[q] = "handler client"
      BY <2>2 DEF Connection!StoreStep, Connection!ClientRefused, Connection!OpenToWrite,
                  Connection!WriteAndClose, Connection!UploadObject, Connection!DeleteLooks,
                  Connection!DeleteRemoves, Connection!ListConnections,
                  Connection!DescribeNext, Connection!DescribedAll, Connection!ResolveHandler,
                  Connection!ReadHandlerType, Connection!OpenHandlerClient, Connection!Cmd, Cmd
    <3> QED BY <1>0, <1>1, <3>1, PlacesFit DEF ForResults
  <2> QED BY <2>1, <2>2
<1> QED BY <1>0, <1>1, DirUntouched DEF dirVars

\* What a directory of validations holds is always accounted for.
LEMMA AlwaysDirInv == Spec => [](Base /\ DirInv)
<1>1. Init => DirInv
  <2> SUFFICES ASSUME Init PROVE DirInv
    OBVIOUS
  <2>1. pc = [p \in Proc |-> "start"] /\ yamls = [n \in {} |-> None] /\ ind = [p \in Proc |-> 1]
    BY DEF Init, Configs!InitDir
  <2> QED BY <2>1 DEF DirInv, StoresInOrder, Storing
<1>2. Base /\ DirInv /\ [Next]_vars => DirInv'
  <2> SUFFICES ASSUME Base, DirInv, [Next]_vars PROVE DirInv'
    OBVIOUS
  <2>1. ASSUME NEW q \in Proc, Step(q) PROVE DirInv'
    <3>1. OneMoves(q) /\ q \in DOMAIN pc
      BY <2>1, StepMoves DEF Base, Placed
    <3>2. CASE Results!ResultStep(q) /\ UNCHANGED <<kills, storeVars, dirVars>>
      BY <3>1, <3>2, ResultStepOf, DirUntouched DEF dirVars
    <3>3. CASE Killed(q)
      <4>1. pc'[q] = "killed" /\ UNCHANGED dirVars
        BY <3>1, <3>3 DEF Killed
      <4> QED BY <3>1, <4>1, DirUntouched DEF dirVars
    <3> QED BY <2>1, <3>2, <3>3, DirStepInv, StoreStepDirInv DEF Step
  <2>2. ASSUME UNCHANGED vars PROVE DirInv'
    <3>1. UNCHANGED <<place, command, pc>> /\ UNCHANGED <<yamls, ind, found, loaded>>
      BY <2>2 DEF vars, dirVars
    <3>2. \A p, i : Accounted(p, i) => Accounted(p, i)'
      BY <3>1 DEF Accounted
    <3> QED BY <3>1, <3>2 DEF DirInv, StoresInOrder, Storing, WrittenAfterLook, FoundEmpty, Cmd
  <2> QED BY <2>1, <2>2 DEF Next, AllEnded
<1> QED BY <1>1, <1>2, InitBase, NextBase, PTL DEF Spec

\* After store_config_dir succeeded, the file of each table holds its validation, or one that
\* took the name later: of a table that is called like a numbered one, or of a process that
\* found the directory empty as well.
THEOREM StoredAccountedFor == Spec => []StoredConfigsAccountedFor
<1>1. ASSUME Base, DirInv PROVE StoredConfigsAccountedFor
  <2> SUFFICES ASSUME NEW p \in Proc, Cmd(p) = "store", pc[p] = "done",
                      NEW i \in 1..Len(command[p].tables), NEW name,
                      name = NameFor(command[p].tables, i)
               PROVE  /\ name \in DOMAIN yamls
                      /\ IF yamls[name].by = p
                         THEN \/ yamls[name].table = i
                              \/ /\ yamls[name].table > i
                                 /\ command[p].tables[yamls[name].table] # command[p].tables[i]
                         ELSE name \notin found[yamls[name].by] \/ place = "gs://dir"
    BY FileNames DEF StoredConfigsAccountedFor
  <2>1. Storing(p) /\ StoresInOrder(p)
    BY <1>1 DEF Storing, DirInv
  <2>2. i < ind[p]
    <3>1. ind[p] > Len(command[p].tables) /\ ind[p] \in Nat
      BY <1>1, <2>1 DEF StoresInOrder, Base, DirTyped
    <3>2. command[p].tables \in Seq(Seq(Words \cup Nat))
      BY <1>1, CommandLinesAssumption DEF Base, Placed, Cmd
    <3> QED BY <3>1, <3>2
  <2>3. Accounted(p, i)
    BY <2>1, <2>2 DEF StoresInOrder
  <2>4. name \in DOMAIN yamls => FoundEmpty(yamls[name].by)
    BY <1>1 DEF DirInv, WrittenAfterLook
  <2> QED BY <2>3, <2>4 DEF Accounted, FoundEmpty
<1> QED BY <1>1, AlwaysDirInv, PTL

-----------------------------------------------------------------------------
(* The rows in the results tables.                                         *)

InPostgres(p) == conn[p] # None /\ conn[p].type = "Postgres"

\* The rows that a run has stored at each moment: all or none of them in PostgreSQL, those
\* of the requests that were taken in BigQuery.
Delivered(p) ==
  IF InPostgres(p)
  THEN IF pc[p] = "done" THEN Results!RowsOf(p, Results!Kept(p)) ELSE {}
  ELSE UNION {Results!ChunkRows(p, i) : i \in (1..chunk[p]) \ refused[p]}

ResultsOf(p) ==
  /\ RowsIn(Database(p), p) = Delivered(p)
  /\ \A d \in DOMAIN stored \ {Database(p)} : RowsIn(d, p) = {}
  /\ pc[p] \in {"start", "make home", "ready", "handler type", "handler client"} => chunk[p] = 0
  /\ InPostgres(p) => chunk[p] = 0
  /\ chunk[p] <= Results!Chunks(p)
  /\ pc[p] = "done" /\ ~InPostgres(p) => chunk[p] = Results!Chunks(p) /\ refused[p] = {}

ResultInv == \A p \in Proc : Cmd(p) = "validate" => ResultsOf(p)

\* The chunks of a filtered report (insert_rows_from_dataframe): all of them together are
\* the rows that the status filter keeps.
LEMMA ReportInChunks ==
  ASSUME Placed, NEW p \in Proc, Cmd(p) = "validate"
  PROVE  /\ Results!RowsOf(p, Results!Kept(p)) = RowsOf(p)
         /\ Results!Chunks(p) \in Nat
         /\ \A i : Results!ChunkRows(p, i) \subseteq RowsOf(p)
         /\ UNION {Results!ChunkRows(p, i) : i \in 1..Results!Chunks(p)} = RowsOf(p)
<1> DEFINE K == Results!Kept(p)
           Row(k) == Results!Row(p, k)
<1>1. command[p].report \in Seq(STRING)
  BY CommandLinesAssumption DEF Placed, Cmd
<1>2. /\ K = {k \in 1..Len(command[p].report) : command[p].report[k] \in command[p].status_list}
      /\ Len(command[p].report) \in Nat /\ K \subseteq Nat
  BY <1>1 DEF Results!Kept
<1>3. RowsOf(p) = {Row(k) : k \in K}
  BY <1>1 DEF RowsOf, Results!Kept
<1>4. /\ Results!RowsOf(p, K) = {Row(k) : k \in K}
      /\ \A i : Results!ChunkRows(p, i) =
                  {Row(k) : k \in {x \in K : (Results!Place(p, x) - 1) \div ChunkSize = i - 1}}
  BY DEF Results!RowsOf, Results!ChunkRows
<1>5. \A S : Results!Cardinality(S) = Cardinality(S)
  BY DEF Results!Cardinality, Cardinality
<1> HIDE DEF K, Row
<1>6. IsFiniteSet(K) /\ Cardinality(K) \in Nat
  <2>1. IsFiniteSet(1..Len(command[p].report))
    BY <1>2, FS_Interval
  <2>2. IsFiniteSet(K)
    BY <1>2, <2>1, FS_Subset
  <2> QED BY <2>2, FS_CardinalityType
<1>7. Results!Chunks(p) = (Cardinality(K) + ChunkSize - 1) \div ChunkSize
  BY <1>5 DEF Results!Chunks, K
<1>8. ASSUME NEW k \in K PROVE Results!Place(p, k) \in 1..Cardinality(K)
  <2> DEFINE Upto == {j \in K : j <= k}
  <2>1. Results!Place(p, k) = Cardinality(Upto)
    BY <1>5 DEF Results!Place, K
  <2>2. Upto \subseteq K /\ k \in Upto
    BY <1>2
  <2> HIDE DEF Upto
  <2>3. IsFiniteSet(Upto) /\ Cardinality(Upto) <= Cardinality(K) /\ Cardinality(Upto) \in Nat
    BY <1>6, <2>2, FS_Subset, FS_CardinalityType
  <2>4. Cardinality(Upto) # 0
    BY <2>2, <2>3, FS_EmptySet
  <2> QED BY <1>6, <2>1, <2>3, <2>4
<1>9. /\ Results!Chunks(p) \in Nat
      /\ \A n \in 1..Cardinality(K) : (n - 1) \div ChunkSize + 1 \in 1..Results!Chunks(p)
  BY <1>6, <1>7, ChunkSizeAssumption, NumberOfSublists
<1>10. ASSUME NEW k \in K
       PROVE  \E i \in 1..Results!Chunks(p) : Row(k) \in Results!ChunkRows(p, i)
  <2> DEFINE n == Results!Place(p, k)
             i == (n - 1) \div ChunkSize + 1
  <2>1. n \in 1..Cardinality(K) /\ n - 1 \in Nat
    BY <1>6, <1>8
  <2>2. i \in 1..Results!Chunks(p)
    BY <1>9, <2>1
  <2>3. (n - 1) \div ChunkSize \in Nat
    BY <2>1, ChunkSizeAssumption, Division
  <2>4. (n - 1) \div ChunkSize = i - 1
    BY <2>3
  <2> HIDE DEF i
  <2> QED BY <1>4, <2>2, <2>4
<1>11. \A i : Results!ChunkRows(p, i) \subseteq RowsOf(p)
  BY <1>3, <1>4
<1>12. UNION {Results!ChunkRows(p, i) : i \in 1..Results!Chunks(p)} = RowsOf(p)
  BY <1>3, <1>10, <1>11
<1> QED BY <1>3, <1>4, <1>9, <1>11, <1>12 DEF K

\* The report of a run and the filter on it are given.
LEMMA SameReport ==
  ASSUME NEW p, command' = command
  PROVE  /\ Results!RowsOf(p, Results!Kept(p))' = Results!RowsOf(p, Results!Kept(p))
         /\ Results!Chunks(p)' = Results!Chunks(p)
         /\ \A i : Results!ChunkRows(p, i)' = Results!ChunkRows(p, i)
<1>1. Results!Kept(p)' = Results!Kept(p)
  BY DEF Results!Kept
<1>2. \A k : Results!Place(p, k)' = Results!Place(p, k)
  BY <1>1 DEF Results!Place
<1> QED BY <1>1, <1>2 DEF Results!RowsOf, Results!Row, Results!Chunks, Results!ChunkRows

\* What other processes store is none of the business of p.
LEMMA OthersResults ==
  ASSUME NEW p \in Proc, ResultsOf(p), command' = command, conn'[p] = conn[p],
         chunk'[p] = chunk[p], refused'[p] = refused[p], DOMAIN stored' = DOMAIN stored,
         pc'[p] = pc[p] \/ (pc[p] # "done" /\ pc'[p] \in {"raised", "killed"}),
         \A d \in DOMAIN stored : RowsIn(d, p)' = RowsIn(d, p), Database(p) \in DOMAIN stored
  PROVE  ResultsOf(p)'
<1>1. Database(p)' = Database(p) /\ InPostgres(p)' = InPostgres(p)
  BY DEF Database, InPostgres
<1>2. Delivered(p)' = Delivered(p)
  BY <1>1, SameReport DEF Delivered
<1>3. Results!Chunks(p)' = Results!Chunks(p)
  BY SameReport
<1> QED BY <1>1, <1>2, <1>3 DEF ResultsOf

\* A run that has not begun to store its report has no row anywhere.
LEMMA NothingStoredYet ==
  ASSUME NEW p \in Proc, ResultsOf(p), chunk[p] = 0, pc[p] # "done"
  PROVE  \A d \in DOMAIN stored : RowsIn(d, p) = {}
<1>1. Delivered(p) = {}
  BY DEF Delivered
<1> QED BY <1>1 DEF ResultsOf

\* The same of the state after a step: with no chunk sent, no row is due.
LEMMA NothingStoredStill ==
  ASSUME NEW p \in Proc, Results!Chunks(p)' \in Nat, chunk'[p] = 0, pc'[p] # "done",
         Database(p)' \in DOMAIN stored', \A d \in DOMAIN stored' : RowsIn(d, p)' = {}
  PROVE  ResultsOf(p)'
<1>1. Delivered(p)' = {}
  BY DEF Delivered
<1> QED BY <1>1 DEF ResultsOf

\* The table that a report goes to.
LEMMA WhereRowsGo ==
  ASSUME Base, NEW p \in Proc PROVE Database(p) \in DOMAIN stored
BY DEF Base, StoreTyped, ResultTyped, Results!Databases, Database

\* A step of a connection command leaves the connections of the others alone.
LEMMA OwnConnection ==
  ASSUME Base, NEW q \in Proc, Connection!StoreStep(q)
  PROVE  \A p \in Proc \ {q} : conn'[p] = conn[p]
<1>1. CASE Connection!ReadHandlerType(q) \/ Connection!OpenHandlerClient(q)
  BY <1>1 DEF Connection!ReadHandlerType, Connection!OpenHandlerClient, Base, StoreTyped
<1>2. CASE ~Connection!ReadHandlerType(q) /\ ~Connection!OpenHandlerClient(q)
  BY <1>2 DEF Connection!StoreStep, Connection!SetupLooks, Connection!SetupMakes,
              Connection!ResolveHandler, Connection!ClientRefused, Connection!OpenToWrite,
              Connection!WriteAndClose, Connection!UploadObject, Connection!DeleteLooks,
              Connection!DeleteRemoves, Connection!ListConnections, Connection!DescribeNext,
              Connection!DescribedAll, Connection!storeVars
<1> QED BY <1>1, <1>2

\* A validation has no step of a connection command once it stores its report.
LEMMA BeforeTheReport ==
  ASSUME Base, NEW q \in Proc, Connection!StoreStep(q), Cmd(q) = "validate"
  PROVE  /\ pc[q] \in {"start", "make home", "ready", "handler type", "handler client"}
         /\ pc'[q] # "done"
<1>0. Fits(pc[q], Cmd(q)) /\ q \in DOMAIN pc
  BY DEF Base, Placed
<1>1. CASE \/ Connection!SetupLooks(q) \/ Connection!SetupMakes(q) \/ Connection!ResolveHandler(q)
           \/ Connection!ReadHandlerType(q) \/ Connection!OpenHandlerClient(q)
  BY <1>0, <1>1 DEF Connection!SetupLooks, Connection!SetupMakes, Connection!ResolveHandler,
                    Connection!ReadHandlerType, Connection!OpenHandlerClient, Connection!Goto
<1>2. CASE ~(\/ Connection!SetupLooks(q) \/ Connection!SetupMakes(q)
             \/ Connection!ResolveHandler(q) \/ Connection!ReadHandlerType(q)
             \/ Connection!OpenHandlerClient(q))
  <2>1. \/ Cmd(q) = "add" \/ Cmd(q) = "delete" \/ Cmd(q) = "list"
        \/ pc[q] = "writing" \/ pc[q] = "removing" \/ pc[q] = "describing"
    BY <1>2 DEF Connection!StoreStep, Connection!ClientRefused, Connection!OpenToWrite,
                Connection!WriteAndClose, Connection!UploadObject, Connection!DeleteLooks,
                Connection!DeleteRemoves, Connection!ListConnections, Connection!DescribeNext,
                Connection!DescribedAll, Connection!Cmd, Cmd
  <2> QED BY <1>0, <2>1, PlacesFit
<1> QED BY <1>1, <1>2

\* A step of a result handler.
LEMMA ResultStepInv ==
  ASSUME Base, ResultInv, NEW q \in Proc, Results!ResultStep(q), UNCHANGED conn
  PROVE  ResultInv'
<1>0. /\ Cmd(q) = "validate" /\ HandlerFits(pc[q], conn[q]) /\ OneMoves(q) /\ q \in DOMAIN pc
      /\ ResultTyped /\ Placed /\ ResultsOf(q) /\ command' = command /\ Cmd(q)' = "validate"
  BY ResultStepOf DEF Base, Placed, ResultInv, OneMoves, Cmd
<1>1. ASSUME NEW d \in DOMAIN stored, NEW S \in SUBSET RowsOf(q), NEW p \in Proc
      PROVE  {r \in S : r.by = p} = IF p = q THEN S ELSE {}
  BY DEF RowsOf, Results!Row
<1>2. ASSUME NEW d \in DOMAIN stored, NEW S \in SUBSET RowsOf(q),
             stored' = stored \/ stored' = [stored EXCEPT ![d] = @ \cup S]
      PROVE  /\ DOMAIN stored' = DOMAIN stored
             /\ \A p \in Proc \ {q}, e \in DOMAIN stored : RowsIn(e, p)' = RowsIn(e, p)
             /\ \A e \in DOMAIN stored \ {d} : RowsIn(e, q)' = RowsIn(e, q)
             /\ stored' # stored => RowsIn(d, q)' = RowsIn(d, q) \cup S
  BY <1>1, <1>2 DEF RowsIn
<1>3. ASSUME NEW d \in DOMAIN stored, NEW S \in SUBSET RowsOf(q),
             stored' = stored \/ stored' = [stored EXCEPT ![d] = @ \cup S],
             \A p \in Proc \ {q} : chunk'[p] = chunk[p] /\ refused'[p] = refused[p],
             ResultsOf(q)'
      PROVE  ResultInv'
  <2>1. ASSUME NEW p \in Proc \ {q}, Cmd(p) = "validate" PROVE ResultsOf(p)'
    BY <1>0, <1>2, <1>3, <2>1, OthersResults, WhereRowsGo DEF ResultInv, OneMoves
  <2> QED BY <1>0, <1>3, <2>1 DEF ResultInv, Cmd
<1>4. Database(q) \in DOMAIN stored
  BY WhereRowsGo
<1>5. CASE Results!FindTable(q) \/ Results!CreateTable(q)
  <2>1. /\ (pc[q] = "insert" /\ conn[q].type = "Postgres") \/ pc[q] = "create table"
        /\ pc'[q] = "create table" \/ pc'[q] = "copy" \/ pc'[q] = "raised"
        /\ UNCHANGED <<stored, chunk, refused>>
    BY <1>0, <1>5 DEF Results!FindTable, Results!CreateTable, Results!resultVars, Results!Goto
  <2>2. InPostgres(q) /\ chunk[q] = 0
    BY <1>0, <2>1, HandlerPlaces, NoneAssumption DEF InPostgres, ResultsOf
  <2>3. ResultsOf(q)'
    <3>1. \A d \in DOMAIN stored : RowsIn(d, q)' = {}
      BY <1>0, <2>1, <2>2, NothingStoredYet DEF RowsIn
    <3>2. Results!Chunks(q)' \in Nat
      BY <1>0, ReportInChunks, SameReport
    <3>3. Database(q)' = Database(q)
      BY DEF Database
    <3> QED BY <1>4, <2>1, <2>2, <3>1, <3>2, <3>3, NothingStoredStill
  <2> QED BY <1>2, <1>3, <1>4, <2>1, <2>3
<1>6. CASE Results!CopyRows(q)
  <2> DEFINE All == Results!RowsOf(q, Results!Kept(q))
  <2>1. /\ pc[q] = "copy" /\ UNCHANGED <<chunk, refused>>
        /\ \/ stored' = [stored EXCEPT ![conn[q]] = @ \cup All] /\ pc'[q] = "done"
           \/ stored' = stored /\ pc'[q] = "raised"
    BY <1>0, <1>6 DEF Results!CopyRows, Results!Goto
  <2>2. InPostgres(q) /\ InPostgres(q)' /\ chunk[q] = 0 /\ Database(q) = conn[q]
        /\ Database(q)' = conn[q]
    BY <1>0, <2>1, HandlerPlaces, NoneAssumption DEF InPostgres, ResultsOf, Database
  <2>3. All = RowsOf(q) /\ All' = All /\ Results!Chunks(q)' \in Nat
    BY <1>0, ReportInChunks, SameReport
  <2> HIDE DEF All
  <2>4. \A d \in DOMAIN stored : RowsIn(d, q) = {}
    BY <1>0, <2>1, <2>2, NothingStoredYet
  <2>5. CASE stored' = [stored EXCEPT ![conn[q]] = @ \cup All] /\ pc'[q] = "done"
    <3>1. /\ DOMAIN stored' = DOMAIN stored
          /\ \A e \in DOMAIN stored \ {conn[q]} : RowsIn(e, q)' = {}
          /\ RowsIn(conn[q], q)' = All
      <4>1. \A r \in All : r.by = q
        BY <2>3 DEF RowsOf, Results!Row
      <4> QED BY <1>4, <2>2, <2>4, <2>5, <4>1 DEF RowsIn
    <3>2. Delivered(q)' = All
      BY <2>2, <2>3, <2>5 DEF Delivered, All
    <3>3. ResultsOf(q)'
      BY <2>1, <2>2, <2>3, <2>5, <3>1, <3>2 DEF ResultsOf
    <3> QED BY <1>2, <1>3, <1>4, <2>1, <2>2, <2>3, <2>5, <3>3
  <2>6. CASE stored' = stored /\ pc'[q] = "raised"
    <3>1. \A d \in DOMAIN stored : RowsIn(d, q)' = {}
      BY <2>4, <2>6 DEF RowsIn
    <3>2. ResultsOf(q)'
      BY <1>4, <2>1, <2>2, <2>3, <2>6, <3>1, NothingStoredStill
    <3> QED BY <1>2, <1>3, <1>4, <2>1, <2>6, <3>2
  <2> QED BY <2>1, <2>5, <2>6
<1>7. ASSUME Results!Sends(q)
      PROVE  ~InPostgres(q) /\ ~InPostgres(q)' /\ Results!Database(q) = Database(q)
             /\ Database(q)' = Database(q)
  <2>1. CASE pc[q] = "insert legacy"
    <3>1. conn[q] = None
      BY <1>0, <2>1, HandlerPlaces
    <3> QED BY <2>1, <3>1 DEF InPostgres, Results!Database, Database
  <2>2. CASE pc[q] = "insert" /\ conn[q].type = "BigQuery"
    <3>1. conn[q] # None
      BY <1>0, <2>2, HandlerPlaces, NoneAssumption
    <3> QED BY <2>2, <3>1 DEF InPostgres, Results!Database, Database
  <2> QED BY <1>7, <2>1, <2>2 DEF Results!Sends
<1>8. CASE Results!GetTableRaises(q) \/ Results!CheckErrors(q)
  <2>1. /\ ~InPostgres(q) /\ ~InPostgres(q)' /\ UNCHANGED <<stored, chunk, refused>>
        /\ Database(q)' = Database(q)
        /\ \/ pc'[q] = "raised"
           \/ pc'[q] = "done" /\ chunk[q] = Results!Chunks(q) /\ refused[q] = {}
    BY <1>0, <1>7, <1>8 DEF Results!GetTableRaises, Results!CheckErrors, Results!Goto,
                            Results!resultVars
  <2>2. Delivered(q)' = Delivered(q) /\ \A d : RowsIn(d, q)' = RowsIn(d, q)
    BY <1>0, <2>1, SameReport DEF Delivered, RowsIn
  <2>3. ResultsOf(q)'
    BY <1>0, <2>1, <2>2, SameReport DEF ResultsOf
  <2> QED BY <1>2, <1>3, <1>4, <2>1, <2>3
<1>9. CASE Results!SendChunk(q)
  <2> DEFINE k == chunk[q]
             Next1 == Results!ChunkRows(q, k + 1)
  <2>1. /\ Results!Sends(q) /\ k < Results!Chunks(q) /\ pc' = pc
        /\ chunk' = [chunk EXCEPT ![q] = @ + 1]
        /\ \/ /\ stored' = [stored EXCEPT ![Database(q)] = @ \cup Next1]
              /\ refused' = refused
           \/ /\ refused' = [refused EXCEPT ![q] = @ \cup {k + 1}]
              /\ stored' = stored
    BY <1>7, <1>9 DEF Results!SendChunk
  <2>2. k \in Nat /\ chunk'[q] = k + 1 /\ refused[q] \subseteq 1..k
        /\ \A p \in Proc \ {q} : chunk'[p] = chunk[p] /\ refused'[p] = refused[p]
    BY <1>0, <2>1 DEF ResultTyped
  <2>3. Next1 \subseteq RowsOf(q) /\ Results!Chunks(q) \in Nat
    BY <1>0, ReportInChunks
  <2>4. /\ (1..(k + 1)) \ refused'[q] = ((1..k) \ refused[q]) \cup
             (IF refused' = refused THEN {k + 1} ELSE {})
    BY <1>0, <2>1, <2>2 DEF ResultTyped
  <2>5. Delivered(q)' = Delivered(q) \cup (IF refused' = refused THEN Next1 ELSE {})
    <3> DEFINE C(i) == Results!ChunkRows(q, i)
    <3>1. Delivered(q) = UNION {C(i) : i \in (1..k) \ refused[q]}
      BY <1>7, <2>1 DEF Delivered
    <3>2. Delivered(q)' = UNION {C(i) : i \in (1..(k + 1)) \ refused'[q]}
      BY <1>0, <1>7, <2>1, <2>2, SameReport DEF Delivered
    <3> HIDE DEF C
    <3>3. UNION {C(i) : i \in (1..(k + 1)) \ refused'[q]} =
          (UNION {C(i) : i \in (1..k) \ refused[q]}) \cup
            (IF refused' = refused THEN C(k + 1) ELSE {})
      BY <2>4
    <3>4. Next1 = C(k + 1)
      BY DEF C
    <3> QED BY <3>1, <3>2, <3>3, <3>4
  <2> HIDE DEF k, Next1
  <2>6. /\ \A d \in DOMAIN stored \ {Database(q)} : RowsIn(d, q)' = {}
        /\ {r \in stored'[Database(q)] : r.by = q} = Delivered(q)'
    <3>0. /\ \A d \in DOMAIN stored \ {Database(q)} : RowsIn(d, q) = {}
          /\ {r \in stored[Database(q)] : r.by = q} = Delivered(q)
      BY <1>0 DEF ResultsOf, RowsIn
    <3>1. CASE refused' = refused
      <4>1. stored' = [stored EXCEPT ![Database(q)] = @ \cup Next1]
        BY <1>0, <2>1, <2>2, <3>1 DEF ResultTyped
      <4>2. \A r \in Next1 : r.by = q
        BY <2>3 DEF RowsOf, Results!Row
      <4>3. stored'[Database(q)] = stored[Database(q)] \cup Next1
        BY <1>4, <4>1
      <4>4. {r \in stored'[Database(q)] : r.by = q} =
            {r \in stored[Database(q)] : r.by = q} \cup Next1
        BY <4>2, <4>3
      <4>5. \A d \in DOMAIN stored \ {Database(q)} : RowsIn(d, q)' = RowsIn(d, q)
        BY <4>1 DEF RowsIn
      <4> QED BY <2>5, <3>0, <3>1, <4>4, <4>5
    <3>2. CASE refused' # refused
      <4>1. stored' = stored
        BY <2>1, <3>2
      <4>2. \A d : RowsIn(d, q)' = RowsIn(d, q)
        BY <4>1 DEF RowsIn
      <4> QED BY <2>5, <3>0, <3>2, <4>1, <4>2
    <3> QED BY <3>1, <3>2
  <2>7. ResultsOf(q)'
    <3>1. DOMAIN stored' = DOMAIN stored
      BY <2>1
    <3>2. /\ pc[q] = "insert" \/ pc[q] = "insert legacy"
          /\ ~InPostgres(q)' /\ Database(q)' = Database(q)
      BY <1>7, <2>1 DEF Results!Sends
    <3>3. chunk'[q] <= Results!Chunks(q)'
      BY <1>0, <2>1, <2>2, <2>3, SameReport DEF k
    <3>4. RowsIn(Database(q), q)' = {r \in stored'[Database(q)] : r.by = q}
      BY <3>2 DEF RowsIn
    <3> QED BY <2>1, <2>6, <3>1, <3>2, <3>3, <3>4 DEF ResultsOf
  <2> QED BY <1>2, <1>3, <1>4, <2>1, <2>2, <2>3, <2>7
<1> QED BY <1>5, <1>6, <1>8, <1>9 DEF Results!ResultStep

\* What the runs have stored is always what their requests say.
LEMMA AlwaysResultInv == Spec => [](Base /\ ResultInv)
<1>1. ASSUME Init PROVE ResultInv
  <2>1. Base /\ stored = [d \in Results!Databases |-> {}] /\ chunk = [p \in Proc |-> 0]
        /\ pc = [p \in Proc |-> "start"]
    BY <1>1, InitBase DEF Init, Results!InitResults
  <2>2. ASSUME NEW p \in Proc, Cmd(p) = "validate" PROVE ResultsOf(p)
    <3>1. Results!Chunks(p) \in Nat /\ Database(p) \in DOMAIN stored
      BY <2>1, <2>2, ReportInChunks, WhereRowsGo DEF Base
    <3>2. Delivered(p) = {} /\ \A d \in DOMAIN stored : RowsIn(d, p) = {}
      BY <2>1 DEF Delivered, RowsIn
    <3> QED BY <2>1, <3>1, <3>2 DEF ResultsOf
  <2> QED BY <2>2 DEF ResultInv
<1>2. ASSUME Base, ResultInv, [Next]_vars PROVE ResultInv'
  <2>1. ASSUME NEW q \in Proc, Step(q) PROVE ResultInv'
    <3>1. OneMoves(q) /\ q \in DOMAIN pc /\ command' = command
      BY <1>2, <2>1, StepMoves DEF Base, Placed, OneMoves
    <3>2. ASSUME UNCHANGED resultVars, \A p \in Proc \ {q} : conn'[p] = conn[p],
                 Cmd(q) = "validate" => ResultsOf(q)'
          PROVE  ResultInv'
      <4>1. ASSUME NEW p \in Proc \ {q}, Cmd(p) = "validate" PROVE ResultsOf(p)'
        <5>1. UNCHANGED <<tables, stored, chunk, refused>> /\ pc'[p] = pc[p]
          BY <3>1, <3>2 DEF resultVars, OneMoves
        <5>2. \A d : RowsIn(d, p)' = RowsIn(d, p)
          BY <5>1 DEF RowsIn
        <5> QED BY <1>2, <3>1, <3>2, <4>1, <5>1, <5>2, OthersResults, WhereRowsGo DEF ResultInv
      <4> QED BY <3>1, <3>2, <4>1 DEF ResultInv, Cmd
    <3>3. CASE Connection!StoreStep(q) /\ UNCHANGED <<kills, dirVars, resultVars>>
      <4>1. ASSUME Cmd(q) = "validate" PROVE ResultsOf(q)'
        <5>1. UNCHANGED <<tables, stored, chunk, refused>>
          BY <3>3 DEF resultVars
        <5>2. chunk[q] = 0 /\ pc[q] # "done" /\ pc'[q] # "done" /\ ResultsOf(q)
          BY <1>2, <3>3, <4>1, BeforeTheReport DEF ResultInv, ResultsOf
        <5>3. \A d \in DOMAIN stored : RowsIn(d, q)' = {}
          BY <5>1, <5>2, NothingStoredYet DEF RowsIn
        <5>4. Database(q)' \in DOMAIN stored' /\ Results!Chunks(q)' \in Nat
          <6>1. Base'
            BY <1>2, NextBase
          <6>2. Database(q)' \in DOMAIN stored'
            BY <6>1 DEF Base, StoreTyped, ResultTyped, Results!Databases, Database
          <6>3. Results!Chunks(q)' \in Nat
            BY <1>2, <3>1, <4>1, ReportInChunks, SameReport DEF Base
          <6> QED BY <6>2, <6>3
        <5> QED BY <5>1, <5>2, <5>3, <5>4, NothingStoredStill
      <4> QED BY <1>2, <3>2, <3>3, <4>1, OwnConnection
    <3>4. CASE Configs!DirStep(q) /\ UNCHANGED <<kills, storeVars, resultVars>>
      <4>1. Cmd(q) # "validate"
        <5>1. \/ Cmd(q) = "store" \/ Cmd(q) = "run configs"
              \/ pc[q] = "storing" \/ pc[q] = "writing config" \/ pc[q] = "loading"
          BY <3>4 DEF Configs!DirStep, Configs!EnforceEmpty, Configs!OpenConfig,
                      Configs!WriteConfig, Configs!StoredAll, Configs!ListValidations,
                      Configs!GetValidation, Configs!LoadedAll, Cmd
        <5>2. Fits(pc[q], Cmd(q))
          BY <1>2 DEF Base, Placed
        <5> QED BY <5>1, <5>2, PlacesFit
      <4> QED BY <3>2, <3>4, <4>1 DEF storeVars
    <3>5. CASE Results!ResultStep(q) /\ UNCHANGED <<kills, storeVars, dirVars>>
      BY <1>2, <3>5, ResultStepInv DEF storeVars
    <3>6. CASE Killed(q)
      <4>1. pc[q] # "done" /\ pc'[q] = "killed" /\ UNCHANGED <<storeVars, resultVars>>
        BY <3>1, <3>6 DEF Killed, Ended
      <4>2. UNCHANGED <<tables, stored, chunk, refused>> /\ UNCHANGED conn
        BY <4>1 DEF storeVars, resultVars
      <4>3. \A d : RowsIn(d, q)' = RowsIn(d, q)
        BY <4>2 DEF RowsIn
      <4>4. ASSUME Cmd(q) = "validate" PROVE ResultsOf(q)'
        BY <1>2, <3>1, <4>1, <4>2, <4>3, <4>4, OthersResults, WhereRowsGo DEF ResultInv
      <4> QED BY <3>2, <4>1, <4>2, <4>4
    <3> QED BY <2>1, <3>3, <3>4, <3>5, <3>6 DEF Step
  <2>2. ASSUME UNCHANGED vars PROVE ResultInv'
    <3>1. UNCHANGED <<command, pc, conn>> /\ UNCHANGED <<tables, stored, chunk, refused>>
      BY <2>2 DEF vars, storeVars, resultVars
    <3>2. \A d, p : RowsIn(d, p)' = RowsIn(d, p)
      BY <3>1 DEF RowsIn
    <3>3. ASSUME NEW p \in Proc, Cmd(p) = "validate" PROVE ResultsOf(p)'
      BY <1>2, <3>1, <3>2, <3>3, OthersResults, WhereRowsGo DEF ResultInv
    <3> QED BY <3>1, <3>3 DEF ResultInv, Cmd
  <2> QED BY <1>2, <2>1, <2>2 DEF Next, AllEnded
<1> QED BY <1>1, <1>2, InitBase, NextBase, PTL DEF Spec

\* What a run has stored is in one table, and belongs to its report.
LEMMA StoredIsOfTheReport ==
  ASSUME Base, ResultInv, NEW p \in Proc, Cmd(p) = "validate"
  PROVE  /\ Delivered(p) \subseteq RowsOf(p)
         /\ pc[p] = "done" => Delivered(p) = RowsOf(p)
         /\ InPostgres(p) => Delivered(p) \in {{}, RowsOf(p)}
<1>1. /\ Results!RowsOf(p, Results!Kept(p)) = RowsOf(p)
      /\ \A i : Results!ChunkRows(p, i) \subseteq RowsOf(p)
      /\ UNION {Results!ChunkRows(p, i) : i \in 1..Results!Chunks(p)} = RowsOf(p)
  BY ReportInChunks DEF Base
<1>2. ResultsOf(p)
  BY DEF ResultInv
<1>3. CASE InPostgres(p)
  BY <1>1, <1>3 DEF Delivered
<1>4. CASE ~InPostgres(p)
  <2>1. Delivered(p) \subseteq RowsOf(p)
    BY <1>1, <1>4 DEF Delivered
  <2>2. ASSUME pc[p] = "done" PROVE Delivered(p) = RowsOf(p)
    <3>1. (1..chunk[p]) \ refused[p] = 1..Results!Chunks(p)
      BY <1>2, <1>4, <2>2 DEF ResultsOf
    <3> QED BY <1>1, <1>4, <3>1 DEF Delivered
  <2> QED BY <1>4, <2>1, <2>2
<1> QED BY <1>3, <1>4

\* A run that ends well has stored every row that its filter keeps, once and in one table.
THEOREM SuccessStores == Spec => []SuccessStoresKeptRows
<1>1. ASSUME Base, ResultInv PROVE SuccessStoresKeptRows
  BY <1>1, StoredIsOfTheReport DEF SuccessStoresKeptRows, ResultInv, ResultsOf
<1> QED BY <1>1, AlwaysResultInv, PTL

\* A run that failed or was killed has stored a part of its report in BigQuery at most.
THEOREM PartsOnlyInBigQuery == Spec => []PartOfAReportOnlyInBigQuery
<1>1. ASSUME Base, ResultInv PROVE PartOfAReportOnlyInBigQuery
  BY <1>1, StoredIsOfTheReport
     DEF PartOfAReportOnlyInBigQuery, ResultInv, ResultsOf, InPostgres, Database
<1> QED BY <1>1, AlwaysResultInv, PTL

-----------------------------------------------------------------------------
(* The connection files: what an add that succeeded leaves behind, and that a *)
(* connection in use is never taken for a BigQuery project.                  *)

NoDelete(n) == \A q \in Proc : ~Deletes(q, n)

\* The files that a name may stand for: the one it had at first, and one for each add.
OwnInode(n, i) == i = n \/ (i \in Proc /\ Adds(i, n))

\* q has written, or may still write, what is in the file of n.
Wrote(q, n) == Adds(q, n) /\ handle[q] = dir[n] /\ pc[q] = "done"
AtIt(q, n) == Adds(q, n) /\ handle[q] = dir[n] /\ pc[q] \in {"writing", "killed"}

HandleFits(q) ==
  /\ handle[q] # None =>
       /\ Cmd(q) = "add" /\ place = "local" /\ pc[q] \in {"writing", "done", "killed"}
       /\ OwnInode(command[q].name, handle[q])
  /\ Cmd(q) = "add" /\ pc[q] = "done" /\ place = "local" => handle[q] # None

HandlesFit == \A q \in Proc : HandleFits(q)

FilesOwn == \A n \in Names : dir[n] # None => OwnInode(n, dir[n])

\* A local file that was opened is empty, or has the text of one add up to the length of
\* that of another.
Accounts(n) ==
  \/ content[dir[n]] = Connection!Truncated /\ \E q \in Proc : AtIt(q, n)
  \/ \E q, r \in Proc :
       /\ Wrote(q, n) /\ Wrote(r, n)
       /\ content[dir[n]] = [head |-> command[q].connection, size |-> command[r].connection.size]

LocalFile(n) ==
  NoDelete(n) =>
    \A q \in Proc : Adds(q, n) /\ handle[q] # None => dir[n] = handle[q] /\ Accounts(n)

\* An object in a bucket is whole from the start.
BucketFile(n) ==
  place # "local" =>
    /\ dir[n] \in Proc =>
         /\ pc[dir[n]] = "done"
         /\ content[dir[n]] = [head |-> command[dir[n]].connection,
                               size |-> command[dir[n]].connection.size]
    /\ NoDelete(n) => \A q \in Proc : Adds(q, n) /\ pc[q] = "done" => dir[n] \in Proc

StaysThere(n) == NoDelete(n) /\ WasThere(n) => dir[n] # None

LegacyOnlyIfAbsent(p) ==
  (Cmd(p) = "validate" /\ pc[p] = "insert legacy" /\ place # "gs://dir"
     /\ NoDelete(command[p].name)) => ~WasThere(command[p].name)

ConnInv ==
  /\ HandlesFit /\ FilesOwn
  /\ \A n \in Names : LocalFile(n) /\ BucketFile(n) /\ StaysThere(n)
  /\ \A p \in Proc : LegacyOnlyIfAbsent(p)

-----------------------------------------------------------------------------
(* Steps that write, make or remove no file.                               *)

\* Two names have no file in common.
LEMMA OneName ==
  ASSUME NEW n \in Names, NEW m \in Names, NEW i, OwnInode(n, i), OwnInode(m, i)
  PROVE  n = m
BY NamesAssumption DEF OwnInode, Adds

\* A process that does nothing to the files, or is killed.
LEMMA FilesUntouched ==
  ASSUME Base, ConnInv, NEW q \in Proc, OneMoves(q), UNCHANGED <<dir, content, handle>>,
         \/ pc'[q] = "killed"
         \/ pc[q] # "writing" /\ pc'[q] # "writing" /\ (Cmd(q) = "add" => pc'[q] # "done"),
         pc'[q] = "insert legacy" =>
           pc[q] = "insert legacy" \/ place = "gs://dir" \/ dir[command[q].name] = None
  PROVE  ConnInv'
<1>0. /\ command' = command /\ place' = place /\ dir' = dir /\ content' = content
      /\ handle' = handle /\ ~Ended(q)
      /\ \A p \in Proc : p # q => pc'[p] = pc[p]
  BY DEF OneMoves
<1>1. \A p, n : /\ Adds(p, n)' = Adds(p, n) /\ Cmd(p)' = Cmd(p)
                /\ OwnInode(n, p)' = OwnInode(n, p)
  BY <1>0 DEF Adds, Cmd, OwnInode
<1>2. \A n, i : OwnInode(n, i)' = OwnInode(n, i)
  BY <1>0 DEF OwnInode, Adds, Cmd
<1>3. \A n : NoDelete(n)' = NoDelete(n) /\ WasThere(n)' = WasThere(n)
  BY <1>0 DEF NoDelete, Deletes, Cmd, WasThere, Connection!Truncated
<1>4. handle[q] # None => pc[q] = "writing" /\ pc'[q] = "killed"
  BY <1>0 DEF ConnInv, HandlesFit, HandleFits, Ended
<1>5. HandlesFit'
  <2>1. ASSUME NEW p \in Proc, p # q
        PROVE  HandleFits(p)'
    BY <1>0, <1>1, <1>2, <2>1 DEF ConnInv, HandlesFit, HandleFits
  <2>2. HandleFits(q)'
    BY <1>0, <1>1, <1>2, <1>4 DEF ConnInv, HandlesFit, HandleFits
  <2> QED BY <1>0, <2>1, <2>2 DEF HandlesFit
<1>6. FilesOwn'
  BY <1>0, <1>2 DEF ConnInv, FilesOwn
<1>7. ASSUME NEW n \in Names, Accounts(n), NEW p \in Proc, handle[p] # None, handle[p] = dir[n]
      PROVE  Accounts(n)'
  <2>1. ASSUME NEW r \in Proc, AtIt(r, n) PROVE AtIt(r, n)'
    BY <1>0, <1>1, <1>4, <1>7, <2>1 DEF AtIt
  <2>2. ASSUME NEW r \in Proc, Wrote(r, n) PROVE Wrote(r, n)'
    BY <1>0, <1>1, <1>4, <1>7, <2>2 DEF Wrote
  <2>3. CASE content[dir[n]] = Connection!Truncated /\ \E r \in Proc : AtIt(r, n)
    BY <1>0, <2>1, <2>3 DEF Accounts, Connection!Truncated
  <2>4. CASE \E r1, r2 \in Proc :
               /\ Wrote(r1, n) /\ Wrote(r2, n)
               /\ content[dir[n]] = [head |-> command[r1].connection,
                                     size |-> command[r2].connection.size]
    BY <1>0, <2>2, <2>4 DEF Accounts
  <2> QED BY <1>7, <2>3, <2>4 DEF Accounts
<1>8. ASSUME NEW n \in Names PROVE LocalFile(n)'
  <2>1. ASSUME NoDelete(n), NEW p \in Proc, Adds(p, n), handle[p] # None
        PROVE  dir[n] = handle[p] /\ Accounts(n)'
    BY <1>7, <2>1 DEF ConnInv, LocalFile
  <2> QED BY <1>0, <1>1, <1>3, <2>1 DEF LocalFile
<1>9. ASSUME NEW n \in Names PROVE BucketFile(n)'
  <2>1. dir[n] \in Proc /\ pc[dir[n]] = "done" => pc'[dir[n]] = "done"
    BY <1>0 DEF Ended
  <2>2. \A p \in Proc : Adds(p, n) /\ pc'[p] = "done" => pc[p] = "done"
    BY <1>0 DEF Adds, Ended
  <2> QED BY <1>0, <1>1, <1>3, <2>1, <2>2 DEF ConnInv, BucketFile
<1>10. ASSUME NEW n \in Names PROVE StaysThere(n)'
  BY <1>0, <1>3 DEF ConnInv, StaysThere
<1>11. ASSUME NEW p \in Proc PROVE LegacyOnlyIfAbsent(p)'
  <2>1. CASE p # q
    BY <1>0, <1>1, <1>3, <2>1 DEF ConnInv, LegacyOnlyIfAbsent
  <2>2. CASE p = q
    <3>1. Cmd(q) = "validate" => command[q].name \in Names
      BY CommandLinesAssumption DEF Base, Placed, Cmd
    <3> QED BY <1>0, <1>1, <1>3, <2>2, <3>1 DEF ConnInv, LegacyOnlyIfAbsent, StaysThere
  <2> QED BY <2>1, <2>2
<1> QED BY <1>5, <1>6, <1>8, <1>9, <1>10, <1>11 DEF ConnInv

-----------------------------------------------------------------------------
(* Steps that write, make or remove a file.                                *)

\* The names that a step leaves alone.
LEMMA OtherNames ==
  ASSUME Base, ConnInv, NEW q \in Proc, OneMoves(q), NEW m \in Names, command[q].name # m,
         dir'[m] = dir[m], dir[m] # None => content'[dir[m]] = content[dir[m]],
         \A p \in Proc \ {q} : handle'[p] = handle[p],
         WasThere(m)' => WasThere(m)
  PROVE  LocalFile(m)' /\ BucketFile(m)' /\ StaysThere(m)'
<1>0. /\ command' = command /\ place' = place /\ \A p \in Proc \ {q} : pc'[p] = pc[p]
  BY DEF OneMoves
<1>1. \A p \in Proc : Adds(p, m)' = Adds(p, m) /\ (Adds(p, m) => p # q)
  BY <1>0 DEF Adds, Cmd
<1>2. NoDelete(m)' = NoDelete(m)
  BY <1>0 DEF NoDelete, Deletes, Cmd
<1>3. ASSUME NEW p \in Proc, Adds(p, m)
      PROVE  (AtIt(p, m) => AtIt(p, m)') /\ (Wrote(p, m) => Wrote(p, m)')
  BY <1>0, <1>1, <1>3 DEF AtIt, Wrote
<1>4. ASSUME NEW p \in Proc, Accounts(m), dir[m] # None PROVE Accounts(m)'
  <2>1. CASE content[dir[m]] = Connection!Truncated /\ \E r \in Proc : AtIt(r, m)
    <3>1. \E r \in Proc : AtIt(r, m)'
      BY <1>3, <2>1 DEF AtIt
    <3> QED BY <1>4, <2>1, <3>1 DEF Accounts, Connection!Truncated
  <2>2. CASE \E r1, r2 \in Proc :
               /\ Wrote(r1, m) /\ Wrote(r2, m)
               /\ content[dir[m]] = [head |-> command[r1].connection,
                                     size |-> command[r2].connection.size]
    <3>1. \A r \in Proc : Wrote(r, m) => Wrote(r, m)'
      BY <1>3 DEF Wrote
    <3> QED BY <1>0, <1>4, <2>2, <3>1 DEF Accounts
  <2> QED BY <1>4, <2>1, <2>2 DEF Accounts
<1>5. LocalFile(m)'
  <2>1. ASSUME NoDelete(m), NEW p \in Proc, Adds(p, m), handle'[p] # None
        PROVE  dir'[m] = handle'[p] /\ Accounts(m)'
    <3>1. handle'[p] = handle[p] /\ dir[m] = handle[p] /\ Accounts(m)
      BY <1>1, <2>1 DEF ConnInv, LocalFile
    <3> QED BY <1>4, <2>1, <3>1
  <2> QED BY <1>1, <1>2, <2>1 DEF LocalFile
<1>6. BucketFile(m)'
  <2>1. ASSUME place # "local", dir[m] \in Proc
        PROVE  dir[m] # q /\ Adds(dir[m], m)
    <3>1. OwnInode(m, dir[m])
      BY <2>1, NamesAssumption DEF ConnInv, FilesOwn
    <3> QED BY <1>1, <2>1, <3>1, NamesAssumption DEF OwnInode
  <2>2. place # "local" /\ dir[m] \in Proc =>
          pc'[dir[m]] = "done" /\ content'[dir[m]] = content[dir[m]]
    BY <1>0, <2>1, NamesAssumption DEF ConnInv, BucketFile
  <2>3. \A p \in Proc : Adds(p, m)' /\ pc'[p] = "done" => Adds(p, m) /\ pc[p] = "done"
    BY <1>0, <1>1
  <2> QED BY <1>0, <1>2, <2>2, <2>3 DEF ConnInv, BucketFile
<1>7. StaysThere(m)'
  BY <1>2 DEF ConnInv, StaysThere
<1> QED BY <1>5, <1>6, <1>7

\* A result handler that was resolved for want of a connection stays right about it: a
\* step of another process that makes no file of a name that is never deleted leaves that
\* name without one.
LEMMA HandlersAgree ==
  ASSUME Base, ConnInv, NEW q \in Proc, OneMoves(q), Cmd(q) # "validate",
         \A n \in Names : NoDelete(n) /\ WasThere(n)' => WasThere(n)
  PROVE  \A p \in Proc : LegacyOnlyIfAbsent(p)'
<1>0. /\ command' = command /\ place' = place /\ \A p \in Proc \ {q} : pc'[p] = pc[p]
  BY DEF OneMoves
<1>1. \A n : NoDelete(n)' = NoDelete(n)
  BY <1>0 DEF NoDelete, Deletes, Cmd
<1>2. ASSUME NEW p \in Proc, Cmd(p) = "validate" PROVE LegacyOnlyIfAbsent(p)'
  <2>1. command[p].name \in Names /\ p # q
    BY <1>2, CommandLinesAssumption DEF Base, Placed, Cmd
  <2> QED BY <1>0, <1>1, <1>2, <2>1 DEF ConnInv, LegacyOnlyIfAbsent, Cmd
<1> QED BY <1>0, <1>2 DEF LegacyOnlyIfAbsent, Cmd

\* open(file_path, "w")
LEMMA OpenStepInv ==
  ASSUME Base, ConnInv, NEW q \in Proc, Connection!OpenToWrite(q) PROVE ConnInv'
<1> DEFINE n == command[q].name
           i == IF dir[n] # None THEN dir[n] ELSE q
<1>0. /\ pc[q] = "ready" /\ Cmd(q) = "add" /\ place = "local" /\ pc'[q] = "writing"
      /\ dir' = [dir EXCEPT ![n] = i] /\ content' = [content EXCEPT ![i] = Connection!Truncated]
      /\ handle' = [handle EXCEPT ![q] = i]
  BY DEF Connection!OpenToWrite, Connection!Exists, Connection!GCS, Connection!Cmd, Cmd,
         Connection!Goto, Base, Placed
<1>1. OneMoves(q) /\ StoreTyped /\ Placed
  BY StoreMoves DEF Base, Connection!StoreStep
<1>2. n \in Names /\ Adds(q, n)
  BY <1>0, <1>1, CommandLinesAssumption DEF Placed, Cmd, Adds
<1>3. /\ command' = command /\ place' = place /\ \A p \in Proc \ {q} : pc'[p] = pc[p]
  BY <1>1 DEF OneMoves
<1>4. OwnInode(n, i) /\ i # None /\ i \in Proc \cup Names
  BY <1>1, <1>2, NamesAssumption DEF ConnInv, FilesOwn, OwnInode, StoreTyped
<1> HIDE DEF n, i
<1>5. /\ dir'[n] = i /\ \A m \in Names \ {n} : dir'[m] = dir[m]
      /\ content'[i] = Connection!Truncated
      /\ \A j \in Proc \cup Names : j # i => content'[j] = content[j]
      /\ handle'[q] = i /\ \A p \in Proc \ {q} : handle'[p] = handle[p]
  BY <1>0, <1>1, <1>2, <1>4 DEF StoreTyped
<1>6. \A m, j : OwnInode(m, j)' = OwnInode(m, j)
  BY <1>3 DEF OwnInode, Adds, Cmd
<1>7. \A m \in Names : WasThere(m)' => WasThere(m)
  <2>1. ASSUME NEW m \in Names, content'[m] # Connection!Truncated PROVE content'[m] = content[m]
    BY <1>5, <2>1
  <2>2. ASSUME NEW m \in Names, dir'[m] = m PROVE dir[m] = m
    <3>1. CASE m = n
      BY <1>5, <2>2, <3>1, NamesAssumption DEF i
    <3> QED BY <1>5, <2>2, <3>1
  <2> QED BY <2>1, <2>2 DEF WasThere, Connection!Truncated
<1>8. HandlesFit'
  <2>1. ASSUME NEW p \in Proc, p # q
        PROVE  HandleFits(p)'
    BY <1>3, <1>5, <1>6, <2>1 DEF ConnInv, HandlesFit, HandleFits, Cmd, OwnInode, Adds
  <2>2. HandleFits(q)'
    BY <1>0, <1>3, <1>4, <1>5 DEF n, HandleFits, Cmd, OwnInode, Adds
  <2> QED BY <2>1, <2>2 DEF HandlesFit
<1>9. FilesOwn'
  <2>1. ASSUME NEW m \in Names, dir'[m] # None PROVE OwnInode(m, dir'[m])
    BY <1>4, <1>5, <2>1 DEF ConnInv, FilesOwn
  <2> QED BY <1>3, <2>1 DEF FilesOwn, OwnInode, Adds, Cmd
<1>10. ASSUME NEW m \in Names PROVE LocalFile(m)' /\ BucketFile(m)' /\ StaysThere(m)'
  <2>1. CASE m # n
    <3>1. dir[m] # None => dir[m] # i /\ dir[m] \in Proc \cup Names
      BY <1>1, <1>2, <1>4, <2>1, OneName DEF ConnInv, FilesOwn, StoreTyped
    <3>2. dir[m] # None => content'[dir[m]] = content[dir[m]]
      BY <1>5, <3>1
    <3> QED BY <1>1, <1>5, <1>7, <2>1, <3>2, OtherNames DEF n
  <2>2. CASE m = n
    <3>0. /\ m \in Names /\ Adds(q, m) /\ dir'[m] = i /\ Cmd(q) = "add"
          /\ \A p \in Proc : Adds(p, m)' = Adds(p, m)
          /\ NoDelete(m)' = NoDelete(m)
      BY <1>0, <1>2, <1>3, <1>5, <2>2 DEF Adds, NoDelete, Deletes, Cmd
    <3>1. AtIt(q, m)'
      BY <1>0, <1>5, <3>0 DEF AtIt
    <3>2. Accounts(m)'
      BY <1>5, <3>0, <3>1 DEF Accounts, Connection!Truncated
    <3>3. ASSUME NoDelete(m), NEW p \in Proc, Adds(p, m), handle'[p] # None
          PROVE  handle'[p] = i
      <4>1. CASE p # q
        <5>1. handle'[p] = handle[p] /\ dir[m] = handle[p]
          BY <1>5, <3>3, <4>1 DEF ConnInv, LocalFile
        <5> QED BY <2>2, <3>3, <5>1 DEF i
      <4> QED BY <1>5, <4>1
    <3>4. LocalFile(m)'
      BY <3>0, <3>2, <3>3 DEF LocalFile
    <3>5. BucketFile(m)' /\ StaysThere(m)'
      BY <1>0, <1>3, <1>4, <3>0 DEF BucketFile, StaysThere
    <3> QED BY <3>4, <3>5
  <2> QED BY <2>1, <2>2
<1>11. \A p \in Proc : LegacyOnlyIfAbsent(p)'
  BY <1>0, <1>1, <1>7, HandlersAgree
<1> QED BY <1>8, <1>9, <1>10, <1>11 DEF ConnInv

\* The text of a connection is written over what the file holds (Overlay).
LEMMA Overlaid ==
  ASSUME NEW f \in File, NEW c \in Connections
  PROVE  /\ Connection!Overlay(f, c).head = c
         /\ Connection!Overlay(f, c).size \in {f.size, c.size}
         /\ f = Connection!Truncated => Connection!Overlay(f, c).size = c.size
         /\ Connection!Overlay(f, c) = [head |-> c, size |-> Connection!Overlay(f, c).size]
<1>1. f.size \in Nat /\ c.size \in Nat \ {0}
  BY ConnectionsAssumption DEF File
<1> QED BY <1>1 DEF Connection!Overlay, Connection!Truncated

\* file.write and the end of the with block.
LEMMA WriteStepInv ==
  ASSUME Base, ConnInv, NEW q \in Proc, Connection!WriteAndClose(q) PROVE ConnInv'
<1> DEFINE n == command[q].name
           i == handle[q]
           c == command[q].connection
           new == Connection!Overlay(content[i], c)
<1>0. /\ pc[q] = "writing" /\ pc'[q] = "done" /\ UNCHANGED <<dir, handle>>
      /\ content' = [content EXCEPT ![i] = new]
  BY DEF Connection!WriteAndClose, Connection!Goto, Base, Placed
<1>1. OneMoves(q) /\ StoreTyped /\ Placed
  BY StoreMoves DEF Base, Connection!StoreStep
<1>2. i # None /\ Cmd(q) = "add" /\ place = "local" /\ OwnInode(n, i) /\ i \in Proc \cup Names
  BY <1>0, <1>1 DEF ConnInv, HandlesFit, HandleFits, StoreTyped
<1>3. n \in Names /\ c \in Connections /\ Adds(q, n) /\ content[i] \in File
  BY <1>1, <1>2, CommandLinesAssumption DEF Placed, StoreTyped, Cmd, Adds
<1>4. /\ command' = command /\ place' = place /\ \A p \in Proc \ {q} : pc'[p] = pc[p]
  BY <1>1 DEF OneMoves
<1>5. /\ new.head = c /\ new = [head |-> c, size |-> new.size]
      /\ new.size \in {content[i].size, c.size}
      /\ content[i] = Connection!Truncated => new.size = c.size
  BY <1>3, Overlaid
<1> HIDE DEF n, i, c, new
<1>6. /\ content'[i] = new /\ \A j \in Proc \cup Names : j # i => content'[j] = content[j]
  BY <1>0, <1>1, <1>2 DEF StoreTyped
<1>7. \A m, j : OwnInode(m, j)' = OwnInode(m, j)
  BY <1>4 DEF OwnInode, Adds, Cmd
<1>8. ASSUME NEW m \in Names, NoDelete(m), WasThere(m)' PROVE WasThere(m)
  <2>1. CASE m = i
    <3>1. m = n
      BY <1>2, <1>3, <2>1, OneName DEF OwnInode
    <3>2. dir[m] = m
      BY <1>2, <1>3, <1>8, <2>1, <3>1 DEF ConnInv, LocalFile, i
    <3> QED BY <3>2 DEF WasThere
  <2>2. CASE m # i
    BY <1>0, <1>6, <1>8, <2>2 DEF WasThere, Connection!Truncated
  <2> QED BY <2>1, <2>2
<1>9. HandlesFit'
  BY <1>0, <1>2, <1>4, <1>7 DEF ConnInv, HandlesFit, HandleFits, Cmd, i
<1>10. FilesOwn'
  BY <1>0, <1>7 DEF ConnInv, FilesOwn
<1>11. ASSUME NEW m \in Names PROVE LocalFile(m)' /\ BucketFile(m)' /\ StaysThere(m)'
  <2>0. /\ \A p \in Proc : Adds(p, m)' = Adds(p, m)
        /\ NoDelete(m)' = NoDelete(m)
    BY <1>4 DEF Adds, NoDelete, Deletes, Cmd
  <2>1. BucketFile(m)' /\ StaysThere(m)'
    BY <1>0, <1>2, <1>4, <1>8, <2>0 DEF ConnInv, BucketFile, StaysThere
  <2>2. ASSUME m # n PROVE LocalFile(m)'
    <3>1. dir[m] # None => dir[m] # i /\ dir[m] \in Proc \cup Names
      BY <1>1, <1>2, <1>3, <2>2, OneName DEF ConnInv, FilesOwn, StoreTyped
    <3>2. dir[m] # None => content'[dir[m]] = content[dir[m]]
      BY <1>6, <3>1
    <3>3. ASSUME NEW r \in Proc, r # q
          PROVE  AtIt(r, m)' = AtIt(r, m) /\ Wrote(r, m)' = Wrote(r, m)
      BY <1>0, <1>4, <2>0, <3>3 DEF AtIt, Wrote
    <3>4. ~Adds(q, m)
      BY <2>2 DEF Adds, n
    <3>5. \A r \in Proc : AtIt(r, m)' = AtIt(r, m) /\ Wrote(r, m)' = Wrote(r, m)
      BY <2>0, <3>3, <3>4 DEF AtIt, Wrote
    <3>6. dir[m] # None /\ Accounts(m) => Accounts(m)'
      BY <1>0, <1>4, <3>2, <3>5 DEF Accounts, Connection!Truncated
    <3> QED BY <1>0, <2>0, <3>6 DEF ConnInv, LocalFile
  <2>3. ASSUME m = n, NoDelete(m) PROVE Accounts(m)' /\ dir[m] = i
    <3>1. dir[m] = i /\ Accounts(m)
      BY <1>2, <1>3, <2>3 DEF ConnInv, LocalFile, i
    <3>2. Wrote(q, m)'
      BY <1>0, <1>3, <2>0, <2>3, <3>1 DEF Wrote, i
    <3>3. \A r \in Proc : Wrote(r, m) => Wrote(r, m)'
      BY <1>0, <1>4, <2>0, <3>2 DEF Wrote
    <3>4. \E r \in Proc : Wrote(r, m)' /\ new.size = command[r].connection.size
      <4>1. CASE content[i] = Connection!Truncated
        BY <1>5, <3>2, <4>1 DEF c
      <4>2. CASE \E r1, r2 \in Proc :
                   /\ Wrote(r1, m) /\ Wrote(r2, m)
                   /\ content[i] = [head |-> command[r1].connection,
                                    size |-> command[r2].connection.size]
        BY <1>5, <3>2, <3>3, <4>2 DEF c
      <4> QED BY <3>1, <4>1, <4>2 DEF Accounts
    <3>5. content'[dir'[m]] = [head |-> command[q].connection, size |-> new.size]
      BY <1>0, <1>5, <1>6, <3>1 DEF c
    <3> QED BY <1>4, <3>1, <3>2, <3>4, <3>5 DEF Accounts
  <2>4. m = n => LocalFile(m)'
    BY <1>0, <2>0, <2>3 DEF ConnInv, LocalFile
  <2> QED BY <2>1, <2>2, <2>4
<1>12. \A p \in Proc : LegacyOnlyIfAbsent(p)'
  BY <1>1, <1>2, <1>8, HandlersAgree
<1> QED BY <1>9, <1>10, <1>11, <1>12 DEF ConnInv

\* blob.upload_from_string
LEMMA UploadStepInv ==
  ASSUME Base, ConnInv, NEW q \in Proc, Connection!UploadObject(q) PROVE ConnInv'
<1> DEFINE n == command[q].name
           c == command[q].connection
           new == Connection!Overlay(Connection!Truncated, c)
<1>0. /\ pc[q] = "ready" /\ pc'[q] = "done" /\ Cmd(q) = "add" /\ place # "local"
      /\ UNCHANGED handle
      /\ dir' = [dir EXCEPT ![n] = q] /\ content' = [content EXCEPT ![q] = new]
  BY DEF Connection!UploadObject, Connection!Goto, Connection!GCS, Connection!Cmd, Cmd,
         Base, Placed
<1>1. OneMoves(q) /\ StoreTyped /\ Placed
  BY StoreMoves DEF Base, Connection!StoreStep
<1>2. n \in Names /\ c \in Connections /\ Adds(q, n)
  BY <1>0, <1>1, CommandLinesAssumption DEF Placed, Cmd, Adds
<1>3. /\ command' = command /\ place' = place /\ \A p \in Proc \ {q} : pc'[p] = pc[p]
  BY <1>1 DEF OneMoves
<1>4. new = [head |-> c, size |-> c.size]
  BY <1>2, ConnectionsAssumption DEF Connection!Overlay, Connection!Truncated
<1> HIDE DEF n, c, new
<1>5. /\ dir'[n] = q /\ \A m \in Names \ {n} : dir'[m] = dir[m]
      /\ content'[q] = new /\ \A j \in Proc \cup Names : j # q => content'[j] = content[j]
  BY <1>0, <1>1, <1>2 DEF StoreTyped
<1>6. \A p \in Proc : handle[p] = None
  BY <1>0 DEF ConnInv, HandlesFit, HandleFits
<1>7. \A m \in Names : WasThere(m)' => WasThere(m)
  BY <1>2, <1>5, NamesAssumption DEF WasThere, Connection!Truncated
<1>8. HandlesFit'
  BY <1>0, <1>3, <1>6 DEF HandlesFit, HandleFits
<1>9. FilesOwn'
  <2>1. ASSUME NEW m \in Names, dir'[m] # None PROVE OwnInode(m, dir'[m])
    BY <1>2, <1>5, <2>1 DEF ConnInv, FilesOwn, OwnInode
  <2> QED BY <1>3, <2>1 DEF FilesOwn, OwnInode, Adds, Cmd
<1>10. ASSUME NEW m \in Names PROVE LocalFile(m)' /\ BucketFile(m)' /\ StaysThere(m)'
  <2>1. CASE m # n
    <3>1. dir[m] # None => dir[m] # q /\ dir[m] \in Proc \cup Names
      BY <1>1, <1>2, <2>1, OneName DEF ConnInv, FilesOwn, StoreTyped, OwnInode
    <3>2. dir[m] # None => content'[dir[m]] = content[dir[m]]
      BY <1>5, <3>1
    <3> QED BY <1>0, <1>1, <1>5, <1>7, <2>1, <3>2, OtherNames DEF n
  <2>2. CASE m = n
    <3>1. LocalFile(m)'
      BY <1>0, <1>6 DEF LocalFile
    <3>2. dir'[m] = q /\ content'[q] = [head |-> command[q].connection,
                                        size |-> command[q].connection.size]
      BY <1>4, <1>5, <2>2 DEF c
    <3>3. BucketFile(m)' /\ StaysThere(m)'
      BY <1>0, <1>3, <3>2, NamesAssumption DEF BucketFile, StaysThere
    <3> QED BY <3>1, <3>3
  <2> QED BY <2>1, <2>2
<1>11. \A p \in Proc : LegacyOnlyIfAbsent(p)'
  BY <1>0, <1>1, <1>7, HandlersAgree
<1> QED BY <1>8, <1>9, <1>10, <1>11 DEF ConnInv

\* os.remove, or blob.delete
LEMMA DeleteStepInv ==
  ASSUME Base, ConnInv, NEW q \in Proc, Connection!DeleteRemoves(q) PROVE ConnInv'
<1> DEFINE n == command[q].name
<1>0. /\ pc[q] = "removing" \/ (pc[q] = "ready" /\ Cmd(q) = "delete")
      /\ UNCHANGED <<content, handle>> /\ dir' = [dir EXCEPT ![n] = None]
  BY DEF Connection!DeleteRemoves, Connection!Cmd, Cmd
<1>1. OneMoves(q) /\ StoreTyped /\ Placed /\ Fits(pc[q], Cmd(q))
  BY StoreMoves DEF Base, Connection!StoreStep, Placed
<1>2. Cmd(q) = "delete"
  BY <1>0, <1>1, PlacesFit
<1>3. n \in Names /\ Deletes(q, n) /\ ~NoDelete(n)
  BY <1>1, <1>2, CommandLinesAssumption DEF Placed, Cmd, Deletes, NoDelete
<1>4. /\ command' = command /\ place' = place /\ \A p \in Proc \ {q} : pc'[p] = pc[p]
  BY <1>1 DEF OneMoves
<1> HIDE DEF n
<1>5. dir'[n] = None /\ \A m \in Names \ {n} : dir'[m] = dir[m]
  BY <1>0, <1>1, <1>3 DEF StoreTyped
<1>6. \A m \in Names : WasThere(m)' => WasThere(m)
  BY <1>0, <1>3, <1>5, NamesAssumption DEF WasThere, Connection!Truncated
<1>7. \A m, j : OwnInode(m, j)' = OwnInode(m, j)
  BY <1>4 DEF OwnInode, Adds, Cmd
<1>8. HandlesFit'
  <2>1. handle[q] = None
    BY <1>2 DEF ConnInv, HandlesFit, HandleFits
  <2> QED BY <1>0, <1>2, <1>4, <1>7, <2>1 DEF ConnInv, HandlesFit, HandleFits, Cmd
<1>9. FilesOwn'
  BY <1>5, <1>7 DEF ConnInv, FilesOwn
<1>10. ASSUME NEW m \in Names PROVE LocalFile(m)' /\ BucketFile(m)' /\ StaysThere(m)'
  <2>1. CASE m # n
    BY <1>0, <1>1, <1>5, <1>6, <2>1, OtherNames DEF n
  <2>2. CASE m = n
    <3>1. NoDelete(m)' = FALSE /\ dir'[m] \notin Proc
      BY <1>3, <1>4, <1>5, <2>2, NamesAssumption DEF NoDelete, Deletes, Cmd
    <3> QED BY <3>1 DEF LocalFile, BucketFile, StaysThere
  <2> QED BY <2>1, <2>2
<1>11. \A p \in Proc : LegacyOnlyIfAbsent(p)'
  BY <1>1, <1>2, <1>6, HandlersAgree
<1> QED BY <1>8, <1>9, <1>10, <1>11 DEF ConnInv

\* Any other step of a connection command.
LEMMA QuietStoreStepInv ==
  ASSUME Base, ConnInv, NEW q \in Proc, Connection!StoreStep(q), ~Connection!OpenToWrite(q),
         ~Connection!WriteAndClose(q), ~Connection!UploadObject(q), ~Connection!DeleteRemoves(q)
  PROVE  ConnInv'
<1>0. OneMoves(q) /\ Fits(pc[q], Cmd(q)) /\ q \in DOMAIN pc
  BY StoreMoves DEF Base, Placed
<1>1. CASE Connection!ResolveHandler(q)
  <2>1. /\ Cmd(q) = "validate" /\ pc[q] = "ready" /\ UNCHANGED <<dir, content, handle>>
        /\ \/ pc'[q] = "handler type"
           \/ pc'[q] = "insert legacy" /\ command[q].name \notin Connection!ListedNames
    BY <1>0, <1>1 DEF Connection!ResolveHandler, Connection!Goto, Connection!storeVars,
                      Connection!Cmd, Cmd
  <2>2. command[q].name \in Names
    BY <2>1, CommandLinesAssumption DEF Base, Placed, Cmd
  <2>3. pc'[q] = "insert legacy" => place = "gs://dir" \/ dir[command[q].name] = None
    BY <2>1, <2>2 DEF Connection!ListedNames, Connection!Exists
  <2> QED BY <1>0, <2>1, <2>3, FilesUntouched
<1>2. CASE ~Connection!ResolveHandler(q)
  <2>1. UNCHANGED <<dir, content, handle>>
    BY <1>2 DEF Connection!StoreStep, Connection!SetupLooks, Connection!SetupMakes,
                Connection!ClientRefused, Connection!DeleteLooks, Connection!ListConnections,
                Connection!DescribeNext, Connection!DescribedAll, Connection!ReadHandlerType,
                Connection!OpenHandlerClient, Connection!storeVars, Connection!Files
  <2>2. /\ pc[q] # "writing" /\ pc'[q] # "writing" /\ pc'[q] # "insert legacy"
        /\ pc'[q] = "done" => pc[q] = "describing"
    BY <1>0, <1>2 DEF Connection!StoreStep, Connection!SetupLooks, Connection!SetupMakes,
                Connection!ClientRefused, Connection!DeleteLooks, Connection!ListConnections,
                Connection!DescribeNext, Connection!DescribedAll, Connection!ReadHandlerType,
                Connection!OpenHandlerClient, Connection!Goto
  <2>3. pc[q] = "describing" => Cmd(q) = "list"
    BY <1>0, PlacesFit
  <2> QED BY <1>0, <2>1, <2>2, <2>3, FilesUntouched
<1> QED BY <1>1, <1>2

\* The start: a file that is there is that of its name, and nobody has one open.
THEOREM InitConnInv == Init => ConnInv
<1> SUFFICES ASSUME Init PROVE ConnInv
  OBVIOUS
<1>1. /\ pc = [p \in Proc |-> "start"] /\ handle = [p \in Proc |-> None]
      /\ dir \in [Names -> Names \cup {None}] /\ \A n \in Names : dir[n] # None => dir[n] = n
      /\ \A n \in Names : content[n] = Connection!Truncated <=> dir[n] = None
  BY DEF Init, Connection!InitStore, Connection!Inodes
<1>2. \A p \in Proc : pc[p] = "start" /\ handle[p] = None
  BY <1>1
<1>3. HandlesFit /\ FilesOwn
  BY <1>1, <1>2 DEF HandlesFit, HandleFits, FilesOwn, OwnInode
<1>4. ASSUME NEW n \in Names PROVE LocalFile(n) /\ BucketFile(n) /\ StaysThere(n)
  <2>1. dir[n] \notin Proc
    BY <1>1, NamesAssumption
  <2>2. StaysThere(n)
    BY <1>1, NamesAssumption DEF StaysThere, WasThere
  <2> QED BY <1>2, <2>1, <2>2 DEF LocalFile, BucketFile
<1>5. \A p \in Proc : LegacyOnlyIfAbsent(p)
  BY <1>2 DEF LegacyOnlyIfAbsent
<1> QED BY <1>3, <1>4, <1>5 DEF ConnInv

\* Adds, deletes and kills in any order.
THEOREM NextConnInv == Base /\ ConnInv /\ [Next]_vars => ConnInv'
<1> SUFFICES ASSUME Base, ConnInv, [Next]_vars PROVE ConnInv'
  OBVIOUS
<1>1. ASSUME NEW q \in Proc, Step(q) PROVE ConnInv'
  <2>0. OneMoves(q) /\ q \in DOMAIN pc /\ Fits(pc[q], Cmd(q))
    BY <1>1, StepMoves DEF Base, Placed
  <2>1. CASE Connection!StoreStep(q)
    BY <2>1, OpenStepInv, WriteStepInv, UploadStepInv, DeleteStepInv, QuietStoreStepInv
  <2>2. CASE Configs!DirStep(q) /\ UNCHANGED <<kills, storeVars, resultVars>>
    <3>1. /\ \/ Cmd(q) = "store" \/ Cmd(q) = "run configs"
             \/ pc[q] = "storing" \/ pc[q] = "writing config" \/ pc[q] = "loading"
          /\ pc[q] # "writing" /\ pc'[q] # "writing" /\ pc'[q] # "insert legacy"
      BY <2>0, <2>2 DEF Configs!DirStep, Configs!EnforceEmpty, Configs!OpenConfig,
                  Configs!WriteConfig, Configs!StoredAll, Configs!ListValidations,
                  Configs!GetValidation, Configs!LoadedAll, Cmd
    <3>2. Cmd(q) # "add"
      BY <2>0, <3>1, PlacesFit
    <3> QED BY <2>0, <2>2, <3>1, <3>2, FilesUntouched DEF storeVars
  <2>3. CASE Results!ResultStep(q) /\ UNCHANGED <<kills, storeVars, dirVars>>
    <3>1. /\ Cmd(q) = "validate" /\ pc[q] # "writing" /\ pc'[q] # "writing"
          /\ pc'[q] = "insert legacy" => pc[q] = "insert legacy"
      <4>1. Cmd(q) = "validate" /\ pc[q] # "writing"
        BY <2>3, ResultStepOf
      <4>2. \/ pc' = pc \/ pc'[q] = "copy" \/ pc'[q] = "create table"
            \/ pc'[q] = "raised" \/ pc'[q] = "done"
        BY <2>0, <2>3 DEF Results!ResultStep, Results!FindTable, Results!CreateTable,
                    Results!CopyRows, Results!GetTableRaises, Results!SendChunk,
                    Results!CheckErrors, Results!Goto
      <4> QED BY <4>1, <4>2
    <3> QED BY <2>0, <2>3, <3>1, FilesUntouched DEF storeVars
  <2>4. CASE Killed(q)
    <3>1. pc'[q] = "killed" /\ UNCHANGED storeVars
      BY <2>0, <2>4 DEF Killed
    <3> QED BY <2>0, <3>1, FilesUntouched DEF storeVars
  <2> QED BY <1>1, <2>1, <2>2, <2>3, <2>4 DEF Step
<1>2. ASSUME UNCHANGED vars PROVE ConnInv'
  <2>1. UNCHANGED <<place, command, pc, dir, content, handle>>
    BY <1>2 DEF vars, storeVars
  <2>2. \A n, i : OwnInode(n, i)' = OwnInode(n, i) /\ NoDelete(n)' = NoDelete(n)
    BY <2>1 DEF OwnInode, Adds, NoDelete, Deletes, Cmd
  <2>3. \A n : Accounts(n)' = Accounts(n) /\ WasThere(n)' = WasThere(n)
    BY <2>1 DEF Accounts, AtIt, Wrote, Adds, Cmd, WasThere, Connection!Truncated
  <2>4. HandlesFit' /\ FilesOwn'
    BY <2>1, <2>2 DEF ConnInv, HandlesFit, HandleFits, FilesOwn, Cmd
  <2>5. \A n \in Names : LocalFile(n)' /\ BucketFile(n)' /\ StaysThere(n)'
    BY <2>1, <2>2, <2>3 DEF ConnInv, LocalFile, BucketFile, StaysThere, Adds, Cmd
  <2>6. \A p \in Proc : LegacyOnlyIfAbsent(p)'
    BY <2>1, <2>2, <2>3 DEF ConnInv, LegacyOnlyIfAbsent, Cmd
  <2> QED BY <2>4, <2>5, <2>6 DEF ConnInv
<1> QED BY <1>1, <1>2 DEF Next, AllEnded

\* The connection files are always as ConnInv says.
LEMMA AlwaysConnInv == Spec => [](Base /\ ConnInv)
BY InitBase, NextBase, InitConnInv, NextConnInv, PTL DEF Spec

\* An add that succeeded leaves a file of one of the adds, which is no JSON only while another
\* add is at it or was killed at it, or after two of them overlapped.
THEOREM AddsSurvive == Spec => []ConnectionsSurvive
<1>1. ASSUME Base, ConnInv PROVE ConnectionsSurvive
  <2> SUFFICES ASSUME NEW p \in Proc, NEW n \in Names, Adds(p, n), pc[p] = "done", NoDelete(n)
               PROVE  /\ dir[n] # None
                      /\ \/ \E q \in Proc : /\ Adds(q, n) /\ pc[q] = "done"
                                            /\ command[q].connection = content[dir[n]].head
                         \/ \E q \in Proc : AtIt(q, n)
                      /\ Connection!Parses(n) \/ Garbled(n) \/ \E q \in Proc : AtIt(q, n)
    BY DEF ConnectionsSurvive, NoDelete, AtIt
  <2>1. CASE place = "local"
    <3>1. handle[p] # None /\ dir[n] = handle[p] /\ Accounts(n)
      BY <1>1, <2>1 DEF ConnInv, HandlesFit, HandleFits, LocalFile, Adds
    <3>2. CASE \E q \in Proc : AtIt(q, n)
      BY <3>1, <3>2
    <3>3. CASE \E q, r \in Proc :
                 /\ Wrote(q, n) /\ Wrote(r, n)
                 /\ content[dir[n]] = [head |-> command[q].connection,
                                       size |-> command[r].connection.size]
      BY <3>1, <3>3 DEF Wrote, Garbled
    <3> QED BY <3>1, <3>2, <3>3 DEF Accounts
  <2>2. CASE place # "local"
    <3>1. /\ dir[n] \in Proc /\ pc[dir[n]] = "done"
          /\ content[dir[n]] = [head |-> command[dir[n]].connection,
                                size |-> command[dir[n]].connection.size]
      BY <1>1, <2>2 DEF ConnInv, BucketFile
    <3>2. dir[n] # None /\ Adds(dir[n], n)
      BY <1>1, <3>1, NamesAssumption DEF ConnInv, FilesOwn, OwnInode
    <3>3. command[dir[n]].connection # None
      BY <1>1, <3>1, <3>2, CommandLinesAssumption, NoneAssumption DEF Base, Placed, Adds, Cmd
    <3>4. Connection!Parses(n)
      BY <3>1, <3>2, <3>3 DEF Connection!Parses, Connection!Exists, Connection!Whole
    <3> QED BY <3>1, <3>2, <3>4
  <2> QED BY <2>1, <2>2
<1> QED BY <1>1, AlwaysConnInv, PTL

\* A connection that was there and that nobody deletes is never taken for a BigQuery project,
\* not even while it is being written again.
THEOREM NeverTakenForLegacy == Spec => []NeverLegacyByAccident
<1>1. ASSUME Base, ConnInv PROVE NeverLegacyByAccident
  BY <1>1 DEF ConnInv, LegacyOnlyIfAbsent, NeverLegacyByAccident, NoDelete
<1> QED BY <1>1, AlwaysConnInv, PTL
=============================================================================
