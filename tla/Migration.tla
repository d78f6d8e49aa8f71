----------------------------- MODULE Migration ------------------------------
(***************************************************************************)
(* The start-up of a server process (server/src/pb_chatroom/app.py,        *)
(* store/schema.py): init_schema brings the database file to version 4     *)
(* before the process takes requests, and docker starts a process that     *)
(* exits again.  Python's sqlite3 commits each CREATE and ALTER by itself; *)
(* only the row of schema_version is written in a transaction, which holds *)
(* the file's write lock until db.commit().                                *)
(*                                                                         *)
(* Processes may start together on one file: a container that is replaced, *)
(* a developer's server beside it.  The columns are read once, before the  *)
(* ALTERs, so a rival's ALTER is a "duplicate column name" error, and      *)
(* whoever waits too long for the lock gets "database is locked": both     *)
(* end the process.                                                        *)
(***************************************************************************)
EXTENDS Integers, Sequences

CONSTANTS Server,     \* the processes
          None,
          MaxCrash    \* bound: kills

ASSUME MigrationAssumption == None \notin Server /\ None \notin Nat

VARIABLES tables,     \* tables in the file
          columns,    \* columns of threads that v0.4.0 adds, in the file
          versions,   \* values of the rows of schema_version
          writer,     \* the process in an uncommitted transaction, or None
          pc,         \* where each process is
          next,       \* its place in the loop it runs
          thread_cols,\* the columns it has read
          row,        \* the version row it has read
          crashes

file  == <<tables, columns, versions>>
local == <<next, thread_cols, row>>
vars  == <<file, writer, pc, local, crashes>>

\* _DDL runs twice, in init_schema and in init_schema_v0_4.
Script == <<"threads", "messages", "threads", "messages">>

Added == <<"discussion_type", "claimed_by", "claimed_at", "claim_scope">>

Tables  == {"threads", "messages", "thread_recipients", "schema_version"}
Columns == {"discussion_type", "claimed_by", "claimed_at", "claim_scope"}

\* Mutant of After: the version is stored before the columns.
After_VersionFirst ==
  [base |-> "schema_version", schema_version |-> "select", select |-> "write",
   write |-> "commit", commit |-> "look", look |-> "alter",
   alter |-> "thread_recipients", thread_recipients |-> "serve"]

\* The order of the stages.
After ==
  [base |-> "look", look |-> "alter", alter |-> "thread_recipients",
   thread_recipients |-> "schema_version", schema_version |-> "select",
   select |-> "write", write |-> "commit", commit |-> "serve"]

Stages == {"base", "look", "alter", "thread_recipients", "schema_version",
           "select", "write", "commit", "serve"}

TypeOK ==
  /\ tables \subseteq Tables /\ columns \subseteq Columns /\ versions \subseteq Nat
  /\ writer \in Server \cup {None}
  /\ pc \in [Server -> {"down"} \cup Stages]
  /\ next \in [Server -> 1 .. 4]
  /\ thread_cols \in [Server -> SUBSET Columns]
  /\ row \in [Server -> Nat \cup {None}]
  /\ crashes \in Nat

\* No file yet, or one of v0.3.0.
Init ==
  /\ tables \in {{}, {"threads", "messages"}}
  /\ columns = {} /\ versions = {} /\ writer = None
  /\ pc = [s \in Server |-> "down"]
  /\ next = [s \in Server |-> 1]
  /\ thread_cols = [s \in Server |-> {}]
  /\ row = [s \in Server |-> None]
  /\ crashes = 0

Free(s) == writer \in {None, s}

Advance(s) == pc' = [pc EXCEPT ![s] = After[@]]

-----------------------------------------------------------------------------

Start(s) ==
  /\ pc[s] = "down"
  /\ pc' = [pc EXCEPT ![s] = "base"]
  /\ next' = [next EXCEPT ![s] = 1]
  /\ UNCHANGED <<file, writer, thread_cols, row, crashes>>

\* CREATE TABLE IF NOT EXISTS: nothing to write, nothing to wait for.
CreateTable(s, table) ==
  /\ table \in tables \/ Free(s)
  /\ tables' = tables \cup {table}
  /\ UNCHANGED <<columns, versions>>

\* Mutants of Turn: the loop ends one short; it ends one late.
Turn_Short(s) ==
  IF next[s] < 3 THEN /\ next' = [next EXCEPT ![s] = @ + 1]
                      /\ UNCHANGED pc
  ELSE /\ next' = [next EXCEPT ![s] = 1]
       /\ Advance(s)

Turn_Late(s) ==
  IF next[s] <= 4 THEN /\ next' = [next EXCEPT ![s] = @ + 1]
                       /\ UNCHANGED pc
  ELSE /\ next' = [next EXCEPT ![s] = 1]
       /\ Advance(s)

\* One turn of a loop of four.
Turn(s) ==
  IF next[s] < 4 THEN /\ next' = [next EXCEPT ![s] = @ + 1]
                      /\ UNCHANGED pc
  ELSE /\ next' = [next EXCEPT ![s] = 1]
       /\ Advance(s)

Base(s) ==
  /\ pc[s] = "base"
  /\ CreateTable(s, Script[next[s]])
  /\ Turn(s)
  /\ UNCHANGED <<writer, thread_cols, row, crashes>>

\* Mutant of Look: a file without the version row is taken for an old one.
Look_ByVersion(s) ==
  /\ pc[s] = "look"
  /\ thread_cols' = [thread_cols EXCEPT ![s] = IF versions = {} THEN {} ELSE columns]
  /\ Advance(s)
  /\ UNCHANGED <<file, writer, next, row, crashes>>

\* PRAGMA table_info(threads).
Look(s) ==
  /\ pc[s] = "look"
  /\ thread_cols' = [thread_cols EXCEPT ![s] = columns]
  /\ Advance(s)
  /\ UNCHANGED <<file, writer, next, row, crashes>>

\* ALTER TABLE threads ADD COLUMN, or the next column.
Alter(s) ==
  LET col == Added[next[s]]
  IN  /\ pc[s] = "alter"
      /\ \/ col \in thread_cols[s] /\ UNCHANGED columns
         \/ /\ col \notin thread_cols[s] \cup columns
            /\ Free(s)
            /\ columns' = columns \cup {col}
      /\ Turn(s)
      /\ UNCHANGED <<tables, versions, writer, thread_cols, row, crashes>>

CreateNew(s) ==
  /\ pc[s] \in {"thread_recipients", "schema_version"}
  /\ CreateTable(s, pc[s])
  /\ Advance(s)
  /\ UNCHANGED <<writer, local, crashes>>

\* fetchone() of the version rows.
SelectVersion(s) ==
  /\ pc[s] = "select"
  /\ \E v \in IF versions = {} THEN {None} ELSE versions :
       row' = [row EXCEPT ![s] = v]
  /\ Advance(s)
  /\ UNCHANGED <<file, writer, next, thread_cols, crashes>>

Outdated(s) == row[s] # None => row[s] < 4

\* INSERT or UPDATE opens a transaction, if the row read calls for one.
Write(s) ==
  /\ pc[s] = "write"
  /\ IF Outdated(s) THEN writer = None /\ writer' = s ELSE UNCHANGED writer
  /\ Advance(s)
  /\ UNCHANGED <<file, local, crashes>>

Commit(s) ==
  /\ pc[s] = "commit"
  /\ IF writer = s
       THEN /\ versions' = IF row[s] = None THEN versions \cup {4} ELSE {4}
            /\ writer' = None
       ELSE UNCHANGED <<versions, writer>>
  /\ Advance(s)
  /\ UNCHANGED <<tables, columns, local, crashes>>

-----------------------------------------------------------------------------

\* The process ends; a transaction of its own is rolled back.
Exit(s) ==
  /\ pc' = [pc EXCEPT ![s] = "down"]
  /\ writer' = IF writer = s THEN None ELSE writer
  /\ UNCHANGED <<file, local>>

\* duplicate column name: a rival added it since Look.
Duplicate(s) ==
  /\ pc[s] = "alter"
  /\ Added[next[s]] \in columns \ thread_cols[s]
  /\ Exit(s)
  /\ UNCHANGED crashes

\* database is locked: the rival's transaction outlasted the busy timeout.
Locked(s) ==
  /\ ~Free(s)
  /\ \/ pc[s] = "base" /\ Script[next[s]] \notin tables
     \/ pc[s] = "alter" /\ Added[next[s]] \notin thread_cols[s]
     \/ pc[s] \in {"thread_recipients", "schema_version"} \ tables
     \/ pc[s] = "write" /\ Outdated(s)
  /\ Exit(s)
  /\ UNCHANGED crashes

Crash(s) ==
  /\ pc[s] # "down"
  /\ crashes < MaxCrash
  /\ crashes' = crashes + 1
  /\ Exit(s)

Work(s) ==
  \/ Start(s) \/ Base(s) \/ Look(s) \/ Alter(s) \/ CreateNew(s)
  \/ SelectVersion(s) \/ Write(s) \/ Commit(s) \/ Duplicate(s) \/ Locked(s)

Next == \E s \in Server : Work(s) \/ Crash(s)

Spec == Init /\ [][Next]_vars

\* A process that runs goes on, and one that exited is started again.
FairSpec == Spec /\ \A s \in Server : WF_vars(Work(s))

-----------------------------------------------------------------------------
(* Properties *)

Complete == tables = Tables /\ columns = Columns

\* A process that takes requests has every table and column its statements
\* name, and the file says so, whatever crashed or ran beside it
\* (app.py:23, store/schema.py:61-96).
ServesComplete ==
  \A s \in Server : pc[s] = "serve" => Complete /\ versions = {4}

\* The version is stored last: a file that says 4 lacks nothing, at whichever
\* statement a process died (store/schema.py:88-96).
VersionLast == 4 \in versions => Complete

\* Every process serves in the end, in spite of crashes half-way through the
\* columns and of rivals that add the same ones (store/schema.py:72-73).
EverybodyServes == \A s \in Server : <>[](pc[s] = "serve")
=============================================================================
