--------------------------- MODULE ConnectionStore ---------------------------
(***************************************************************************)
(* The connection files (state_manager.py, the connection commands of      *)
(* cli_tools.py, the file operations of gcs_helper.py).  Processes of the  *)
(* command line share a directory, local or in a bucket, without a lock.   *)
(*                                                                         *)
(* A local file is a name for an inode: opening it to write truncates the  *)
(* inode, removing it takes the name away and leaves the inode to those    *)
(* who hold it open.  An object in a bucket is replaced or removed at      *)
(* once.  Reading a local file is one step.                                *)
(***************************************************************************)
EXTENDS Integers, FiniteSets

CONSTANTS
  Proc,          \* processes
  Names,         \* names of connections
  Connections,   \* what a connection file may say: type (source_type), size of its JSON
  None           \* no file, no connection

VARIABLES
  place,     \* where the directories are: "local", "gs://dir/" or "gs://dir"
  command,   \* what each process was called with
  pc,        \* where each process is
  home,      \* the directory of the connections exists
  dir,       \* the inode behind each name
  content,   \* what is in each inode
  handle,    \* the inode a process has open for writing
  listed,    \* the names a process listed and has yet to read
  conn       \* the connection a process read last

storeVars == <<home, dir, content, handle, listed, conn>>

Files == <<dir, content>>

Goto(p, where) == pc' = [pc EXCEPT ![p] = where]

Cmd(p) == command[p].cmd

GCS == place # "local"

\* A process creates at most one file; the file of a name that was there before is its own.
Inodes == Proc \cup Names

\* The JSON of `head`, padded by what a longer text left behind it.
Truncated == [head |-> None, size |-> 0]
Whole(file) == file.head # None /\ file.size = file.head.size

Exists(name) == dir[name] # None

\* gcs_helper.read_file and json.loads
Parses(name) == Exists(name) /\ Whole(content[dir[name]])

-----------------------------------------------------------------------------
InitStore ==
  /\ home \in BOOLEAN /\ (GCS => home)
  /\ dir \in [Names -> Names \cup {None}]
  /\ \A n \in Names : dir[n] # None => (dir[n] = n /\ home)
  /\ content \in [Inodes -> {Truncated} \cup {[head |-> c, size |-> c.size] : c \in Connections}]
  /\ \A i \in Inodes : content[i] = Truncated <=> (i \notin Names \/ dir[i] = None)
  /\ handle = [p \in Proc |-> None]
  /\ listed = [p \in Proc |-> {}]
  /\ conn = [p \in Proc |-> None]

\* StateManager.setup: os.path.exists, and nothing to do in a bucket.  configs run makes
\* its StateManager later, for the connections of the validations it has listed.
SetupLooks(p) ==
  /\ pc[p] = "start" /\ Cmd(p) # "run configs"
  /\ Goto(p, IF GCS \/ home THEN "ready" ELSE "make home")
  /\ UNCHANGED <<place, command, storeVars>>

\* os.makedirs without exist_ok: the other process may have made it meanwhile.
SetupMakes(p) ==
  /\ pc[p] = "make home"
  /\ home' = TRUE
  /\ Goto(p, IF home THEN "raised" ELSE "ready")
  /\ UNCHANGED <<place, command, Files, handle, listed, conn>>

\* connections add opens a client before it stores the connection; it may fail.
ClientRefused(p) ==
  /\ pc[p] = "start" /\ Cmd(p) = "add"
  /\ Goto(p, "raised")
  /\ UNCHANGED <<place, command, storeVars>>

\* open(file_path, "w")
OpenToWrite(p) ==
  /\ pc[p] = "ready" /\ Cmd(p) = "add" /\ ~GCS
  /\ LET n == command[p].name
         inode == IF Exists(n) THEN dir[n] ELSE p
     IN /\ dir' = [dir EXCEPT ![n] = inode]
        /\ content' = [content EXCEPT ![inode] = Truncated]
        /\ handle' = [handle EXCEPT ![p] = inode]
  /\ Goto(p, "writing")
  /\ UNCHANGED <<place, command, home, listed, conn>>

\* A slip: two configurations that are written at once are appended to each other.
OverlayAppends(file, c) ==
  IF file.head = None THEN [head |-> c, size |-> c.size] ELSE [file EXCEPT !.size = @ + c.size]

\* A text written from the start of a file, over what another process wrote since the
\* file was opened.
Overlay(file, c) ==
  [head |-> c, size |-> IF file.size > c.size THEN file.size ELSE c.size]

WriteAndClose(p) ==
  /\ pc[p] = "writing"
  /\ content' = [content EXCEPT ![handle[p]] = Overlay(@, command[p].connection)]
  /\ Goto(p, "done")
  /\ UNCHANGED <<place, command, home, dir, handle, listed, conn>>

\* blob.upload_from_string
UploadObject(p) ==
  /\ pc[p] = "ready" /\ Cmd(p) = "add" /\ GCS
  /\ dir' = [dir EXCEPT ![command[p].name] = p]
  /\ content' = [content EXCEPT ![p] = Overlay(Truncated, command[p].connection)]
  /\ Goto(p, "done")
  /\ UNCHANGED <<place, command, home, handle, listed, conn>>

\* os.path.exists
DeleteLooks(p) ==
  /\ pc[p] = "ready" /\ Cmd(p) = "delete" /\ ~GCS
  /\ Goto(p, IF Exists(command[p].name) THEN "removing" ELSE "raised")
  /\ UNCHANGED <<place, command, storeVars>>

\* os.remove, or blob.delete in a bucket: either raises if the file is gone.
DeleteRemoves(p) ==
  /\ \/ pc[p] = "removing"
     \/ pc[p] = "ready" /\ Cmd(p) = "delete" /\ GCS
  /\ dir' = [dir EXCEPT ![command[p].name] = None]
  /\ Goto(p, IF Exists(command[p].name) THEN "done" ELSE "raised")
  /\ UNCHANGED <<place, command, home, content, handle, listed, conn>>

\* A slip: a file that is being written is not listed.
ListedReadable == IF place = "gs://dir" THEN {} ELSE {n \in Names : Parses(n)}

\* list_gcs_directory takes the path as a prefix and stops at the next slash, so the
\* objects of a directory are found only if its path ends with one.
ListedNames == IF place = "gs://dir" THEN {} ELSE {n \in Names : Exists(n)}

\* connections list: the names first, then each file.
ListConnections(p) ==
  /\ pc[p] = "ready" /\ Cmd(p) = "list"
  /\ listed' = [listed EXCEPT ![p] = ListedNames]
  /\ Goto(p, "describing")
  /\ UNCHANGED <<place, command, home, Files, handle, conn>>

DescribeNext(p) ==
  /\ pc[p] = "describing"
  /\ \E n \in listed[p] :
       IF Parses(n)
       THEN /\ listed' = [listed EXCEPT ![p] = @ \ {n}]
            /\ UNCHANGED pc
       ELSE Goto(p, "raised") /\ UNCHANGED listed
  /\ UNCHANGED <<place, command, home, Files, handle, conn>>

DescribedAll(p) ==
  /\ pc[p] = "describing" /\ listed[p] = {}
  /\ Goto(p, "done")
  /\ UNCHANGED <<place, command, storeVars>>

-----------------------------------------------------------------------------
(* --result-handler name.table                                             *)

\* _get_result_handler: what is not the name of a connection is a BigQuery project.
ResolveHandler(p) ==
  /\ pc[p] = "ready" /\ Cmd(p) = "validate"
  /\ Goto(p, IF command[p].name \in ListedNames THEN "handler type" ELSE "insert legacy")
  /\ UNCHANGED <<place, command, storeVars>>

\* get_connection: only the type and the name are kept, the file may change again.
ReadHandlerType(p) ==
  /\ pc[p] = "handler type"
  /\ LET n == command[p].name
         readable == Parses(n) /\ content[dir[n]].head.type \in {"BigQuery", "Postgres"}
     IN IF readable
        THEN conn' = [conn EXCEPT ![p] = content[dir[n]].head] /\ Goto(p, "handler client")
        ELSE Goto(p, "raised") /\ UNCHANGED conn
  /\ UNCHANGED <<place, command, home, Files, handle, listed>>

\* build_result_handler reads the file again.  The class follows the type that was read
\* first: a connection of the other type has not the keys or the methods it needs.
OpenHandlerClient(p) ==
  /\ pc[p] = "handler client"
  /\ LET n == command[p].name
         fits == Parses(n) /\ content[dir[n]].head.type = conn[p].type
     IN IF fits
        THEN conn' = [conn EXCEPT ![p] = content[dir[n]].head] /\ Goto(p, "insert")
        ELSE Goto(p, "raised") /\ UNCHANGED conn
  /\ UNCHANGED <<place, command, home, Files, handle, listed>>

StoreStep(p) ==
  \/ SetupLooks(p) \/ SetupMakes(p) \/ ClientRefused(p)
  \/ OpenToWrite(p) \/ WriteAndClose(p) \/ UploadObject(p)
  \/ DeleteLooks(p) \/ DeleteRemoves(p)
  \/ ListConnections(p) \/ DescribeNext(p) \/ DescribedAll(p)
  \/ ResolveHandler(p) \/ ReadHandlerType(p) \/ OpenHandlerClient(p)
=============================================================================
