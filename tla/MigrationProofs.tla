-------------------------- MODULE MigrationProofs ---------------------------
(***************************************************************************)
(* Start-up is safe for any number of processes on one file and any number *)
(* of crashes: nobody serves from an incomplete file, and the version row  *)
(* is not ahead of the columns.                                            *)
(***************************************************************************)
EXTENDS Migration, TLAPS

AtVersion == {"select", "write", "commit", "serve"}

\* What the place of a process says of the file.
Reached(s) ==
  /\ pc[s] = "base" => \A i \in 1 .. 4 : i < next[s] => Script[i] \in tables
  /\ pc[s] \in Stages \ {"base"} => {"threads", "messages"} \subseteq tables
  /\ pc[s] = "look" => next[s] = 1
  /\ thread_cols[s] \subseteq columns
  /\ pc[s] = "alter" => \A i \in 1 .. 4 : i < next[s] => Added[i] \in columns
  /\ pc[s] \in AtVersion \cup {"thread_recipients", "schema_version"} =>
       columns = Columns
  /\ pc[s] \in AtVersion \cup {"schema_version"} => "thread_recipients" \in tables
  /\ pc[s] \in AtVersion => "schema_version" \in tables

\* What it says of the version row.
Versioned(s) ==
  /\ pc[s] \in {"write", "commit"} /\ row[s] # None => row[s] = 4 /\ versions = {4}
  /\ pc[s] = "commit" /\ row[s] = None => writer = s
  /\ pc[s] = "serve" => versions = {4}

Inv ==
  /\ TypeOK
  /\ versions \subseteq {4}
  /\ VersionLast
  /\ \A s \in Server : Reached(s) /\ Versioned(s)

-----------------------------------------------------------------------------

LEMMA InitInv == Init => Inv
BY MigrationAssumption
DEF Init, Inv, TypeOK, VersionLast, Reached, Versioned, Tables, Columns,
    Stages, AtVersion

\* What a step of s leaves alone, and what it can only add.
Frames(s) ==
  /\ tables \subseteq tables' /\ columns \subseteq columns' /\ versions \subseteq versions'
  /\ tables' \subseteq Tables /\ columns' \subseteq Columns
  /\ \A t \in Server \ {s} :
       /\ pc'[t] = pc[t] /\ next'[t] = next[t]
       /\ thread_cols'[t] = thread_cols[t] /\ row'[t] = row[t]
       /\ writer = t => writer' = t

\* The other processes keep what they have reached.
LEMMA OthersKeep ==
  ASSUME Inv, NEW s \in Server, Frames(s), versions' \subseteq {4}
  PROVE  \A t \in Server \ {s} : Reached(t)' /\ Versioned(t)'
<1> TAKE t \in Server \ {s}
<1> /\ Reached(t) /\ Versioned(t) /\ TypeOK
    /\ pc'[t] = pc[t] /\ next'[t] = next[t] /\ thread_cols'[t] = thread_cols[t]
    /\ row'[t] = row[t] /\ (writer = t => writer' = t)
    /\ tables \subseteq tables' /\ columns \subseteq columns'
    /\ versions \subseteq versions' /\ columns' \subseteq Columns
  BY DEF Inv, Frames
<1>1. Reached(t)'
  BY DEF Reached
<1>2. Versioned(t)'
  BY DEF Versioned
<1> QED  BY <1>1, <1>2

LEMMA StartInv == ASSUME Inv, NEW s \in Server, Start(s) PROVE Inv'
<1>1. TypeOK'
  BY DEF Inv, TypeOK, Start, file, Stages
<1>2. Frames(s)
  BY DEF Inv, TypeOK, Start, Frames, file
<1>3. Reached(s)' /\ Versioned(s)' /\ VersionLast' /\ versions' \subseteq {4}
  BY DEF Inv, TypeOK, Start, Reached, Versioned, VersionLast, Complete, file,
         AtVersion, Stages
<1> QED  BY <1>1, <1>2, <1>3, OthersKeep DEF Inv

LEMMA BaseInv == ASSUME Inv, NEW s \in Server, Base(s) PROVE Inv'
<1> USE DEF Base, CreateTable, Turn, Advance, After
<1>0. /\ TypeOK /\ pc[s] = "base" /\ next[s] \in 1 .. 4
      /\ Script[next[s]] \in {"threads", "messages"}
      /\ tables' = tables \cup {Script[next[s]]}
      /\ UNCHANGED <<columns, versions, writer, thread_cols, row>>
  BY DEF Inv, TypeOK, Script
<1>1. TypeOK'
  <2>1. pc' \in [Server -> {"down"} \cup Stages]
    BY <1>0 DEF TypeOK, Stages
  <2>2. next' \in [Server -> 1 .. 4]
    BY <1>0 DEF TypeOK
  <2> QED  BY <1>0, <2>1, <2>2 DEF TypeOK, Tables
<1>2. Frames(s)
  BY <1>0 DEF TypeOK, Frames, Tables
<1>3. CASE next[s] < 4
  <2>1. pc' = pc /\ next'[s] = next[s] + 1
    BY <1>0, <1>3 DEF TypeOK
  <2>2. Reached(s)' /\ Versioned(s)'
    BY <1>0, <2>1 DEF Inv, TypeOK, Reached, Versioned, AtVersion, Stages
  <2> QED  BY <1>0, <1>1, <1>2, <2>2, OthersKeep
           DEF Inv, VersionLast, Complete, TypeOK, Frames
<1>4. CASE next[s] = 4
  <2>1. pc'[s] = "look" /\ next'[s] = 1
    BY <1>0, <1>4 DEF TypeOK
  <2>2. {"threads", "messages"} \subseteq tables'
    BY <1>0, <1>4 DEF Inv, Reached, Script
  <2>3. Reached(s)' /\ Versioned(s)'
    BY <1>0, <2>1, <2>2 DEF Inv, TypeOK, Reached, Versioned, AtVersion, Stages
  <2> QED  BY <1>0, <1>1, <1>2, <2>3, OthersKeep
           DEF Inv, VersionLast, Complete, TypeOK, Frames
<1> QED  BY <1>0, <1>3, <1>4

LEMMA LookInv == ASSUME Inv, NEW s \in Server, Look(s) PROVE Inv'
<1> USE DEF Look, Advance, After, file
<1>1. TypeOK'
  BY DEF Inv, TypeOK, Stages
<1>2. Frames(s)
  BY DEF Inv, TypeOK, Frames
<1>3. Reached(s)' /\ Versioned(s)' /\ VersionLast' /\ versions' \subseteq {4}
  BY DEF Inv, TypeOK, Reached, Versioned, VersionLast, Complete, AtVersion, Stages
<1> QED  BY <1>1, <1>2, <1>3, OthersKeep DEF Inv

LEMMA AlterInv == ASSUME Inv, NEW s \in Server, Alter(s) PROVE Inv'
<1> USE DEF Alter, Turn, Advance, After
<1>0. /\ TypeOK /\ pc[s] = "alter" /\ next[s] \in 1 .. 4
      /\ Added[next[s]] \in Columns
      /\ Added[next[s]] \in columns' /\ columns \subseteq columns'
      /\ columns' \subseteq Columns
      /\ UNCHANGED <<tables, versions, writer, thread_cols, row>>
  <2>1. TypeOK /\ pc[s] = "alter" /\ next[s] \in 1 .. 4
    BY DEF Inv, TypeOK
  <2>2. Added[next[s]] \in Columns
    BY <2>1 DEF Added, Columns
  <2>3. thread_cols[s] \subseteq columns /\ columns \subseteq Columns
    BY DEF Inv, TypeOK, Reached
  <2>4. \/ Added[next[s]] \in thread_cols[s] /\ columns' = columns
        \/ columns' = columns \cup {Added[next[s]]}
    OBVIOUS
  <2> QED  BY <2>1, <2>2, <2>3, <2>4
<1>1. TypeOK'
  <2>1. pc' \in [Server -> {"down"} \cup Stages]
    BY <1>0 DEF TypeOK, Stages
  <2>2. next' \in [Server -> 1 .. 4]
    BY <1>0 DEF TypeOK
  <2> QED  BY <1>0, <2>1, <2>2 DEF TypeOK
<1>2. Frames(s)
  BY <1>0 DEF TypeOK, Frames
<1>3. VersionLast'
  BY <1>0 DEF Inv, VersionLast, Complete
<1>4. CASE next[s] < 4
  <2>1. pc' = pc /\ next'[s] = next[s] + 1
    BY <1>0, <1>4 DEF TypeOK
  <2>2. Reached(s)' /\ Versioned(s)'
    BY <1>0, <2>1 DEF Inv, TypeOK, Reached, Versioned, AtVersion, Stages
  <2> QED  BY <1>0, <1>1, <1>2, <1>3, <2>2, OthersKeep DEF Inv
<1>5. CASE next[s] = 4
  <2>1. pc'[s] = "thread_recipients" /\ next'[s] = 1
    BY <1>0, <1>5 DEF TypeOK
  <2>2. columns' = Columns
    BY <1>0, <1>5 DEF Inv, Reached, Added, Columns
  <2>3. Reached(s)' /\ Versioned(s)'
    BY <1>0, <2>1, <2>2 DEF Inv, TypeOK, Reached, Versioned, AtVersion, Stages
  <2> QED  BY <1>0, <1>1, <1>2, <1>3, <2>3, OthersKeep DEF Inv
<1> QED  BY <1>0, <1>4, <1>5

LEMMA CreateNewInv == ASSUME Inv, NEW s \in Server, CreateNew(s) PROVE Inv'
<1> USE DEF CreateNew, CreateTable, Advance, After, local
<1>1. TypeOK'
  <2>1. CASE pc[s] = "thread_recipients"
    BY <2>1 DEF Inv, TypeOK, Stages, Tables
  <2>2. CASE pc[s] = "schema_version"
    BY <2>2 DEF Inv, TypeOK, Stages, Tables
  <2> QED  BY <2>1, <2>2
<1>2. Frames(s)
  BY DEF Inv, TypeOK, Frames, Tables
<1>3. Reached(s)'
  BY DEF Inv, TypeOK, Reached, AtVersion, Stages
<1>4. Versioned(s)' /\ VersionLast' /\ versions' \subseteq {4}
  BY <1>1, <1>2 DEF Inv, TypeOK, Frames, Versioned, VersionLast, Complete
<1> QED  BY <1>1, <1>2, <1>3, <1>4, OthersKeep DEF Inv

LEMMA SelectInv == ASSUME Inv, NEW s \in Server, SelectVersion(s) PROVE Inv'
<1>0. PICK v \in IF versions = {} THEN {None} ELSE versions :
      row' = [row EXCEPT ![s] = v]
  BY DEF SelectVersion
<1>1. v = None \/ (v = 4 /\ versions = {4})
  BY <1>0 DEF Inv
<1>2. TypeOK /\ v \in Nat \cup {None}
  BY <1>1 DEF Inv
<1>3. /\ pc[s] = "select" /\ pc' = [pc EXCEPT ![s] = "write"]
      /\ UNCHANGED <<tables, columns, versions, writer, next, thread_cols, crashes>>
  BY DEF SelectVersion, Advance, After, file
<1>4. TypeOK'
  BY <1>0, <1>2, <1>3 DEF TypeOK, Stages
<1>5. Frames(s)
  BY <1>0, <1>2, <1>3 DEF TypeOK, Frames
<1>6. Reached(s)'
  BY <1>2, <1>3 DEF Inv, TypeOK, Reached, AtVersion, Stages
<1>7. Versioned(s)' /\ VersionLast' /\ versions' \subseteq {4}
  BY <1>0, <1>1, <1>2, <1>3 DEF Inv, TypeOK, Versioned, VersionLast, Complete
<1> QED  BY <1>4, <1>5, <1>6, <1>7, OthersKeep DEF Inv

LEMMA WriteInv == ASSUME Inv, NEW s \in Server, Write(s) PROVE Inv'
<1> USE DEF Write, Advance, After, file, local, Outdated
<1>1. TypeOK'
  BY DEF Inv, TypeOK, Stages
<1>2. Frames(s)
  BY MigrationAssumption DEF Inv, TypeOK, Frames
<1>3. Reached(s)'
  BY DEF Inv, TypeOK, Reached, AtVersion, Stages
<1>4. Versioned(s)' /\ VersionLast' /\ versions' \subseteq {4}
  BY DEF Inv, TypeOK, Versioned, VersionLast, Complete
<1> QED  BY <1>1, <1>2, <1>3, <1>4, OthersKeep DEF Inv

\* The step that stores the version: by then the file is complete.
LEMMA CommitInv == ASSUME Inv, NEW s \in Server, Commit(s) PROVE Inv'
<1> USE DEF Commit, Advance, After, local
<1>0. Complete
  BY DEF Inv, TypeOK, Reached, Complete, Tables, AtVersion, Stages
<1>1. versions' = {4}
  <2>1. CASE row[s] = None
    BY <2>1 DEF Inv, Versioned
  <2>2. CASE row[s] # None
    BY <2>2 DEF Inv, Versioned
  <2> QED  BY <2>1, <2>2
<1>2. TypeOK'
  BY <1>1 DEF Inv, TypeOK, Stages
<1>3. Frames(s)
  BY <1>1, MigrationAssumption DEF Inv, TypeOK, Frames
<1>4. Reached(s)'
  BY DEF Inv, TypeOK, Reached, AtVersion, Stages
<1>5. Versioned(s)' /\ VersionLast'
  BY <1>0, <1>1 DEF Inv, TypeOK, Versioned, VersionLast, Complete
<1> QED  BY <1>1, <1>2, <1>3, <1>4, <1>5, OthersKeep DEF Inv

LEMMA ExitInv ==
  ASSUME Inv, NEW s \in Server, Exit(s), crashes' \in Nat PROVE Inv'
<1> USE DEF Exit, file, local
<1>1. TypeOK'
  BY DEF Inv, TypeOK
<1>2. Frames(s)
  BY MigrationAssumption DEF Inv, TypeOK, Frames
<1>3. Reached(s)' /\ Versioned(s)' /\ VersionLast' /\ versions' \subseteq {4}
  BY DEF Inv, TypeOK, Reached, Versioned, VersionLast, Complete, AtVersion, Stages
<1> QED  BY <1>1, <1>2, <1>3, OthersKeep DEF Inv

LEMMA NextInv == Inv /\ [Next]_vars => Inv'
<1> SUFFICES ASSUME Inv, [Next]_vars PROVE Inv'
  OBVIOUS
<1>1. CASE UNCHANGED vars
  BY <1>1 DEF vars, file, local, Inv, TypeOK, VersionLast, Complete, Reached,
              Versioned
<1>2. CASE Next
  <2> PICK s \in Server : Work(s) \/ Crash(s)
    BY <1>2 DEF Next
  <2>1. CASE Start(s) BY <2>1, StartInv
  <2>2. CASE Base(s) BY <2>2, BaseInv
  <2>3. CASE Look(s) BY <2>3, LookInv
  <2>4. CASE Alter(s) BY <2>4, AlterInv
  <2>5. CASE CreateNew(s) BY <2>5, CreateNewInv
  <2>6. CASE SelectVersion(s) BY <2>6, SelectInv
  <2>7. CASE Write(s) BY <2>7, WriteInv
  <2>8. CASE Commit(s) BY <2>8, CommitInv
  <2>9. CASE Duplicate(s) BY <2>9, ExitInv DEF Duplicate, Inv, TypeOK
  <2>10. CASE Locked(s) BY <2>10, ExitInv DEF Locked, Inv, TypeOK
  <2>11. CASE Crash(s) BY <2>11, ExitInv DEF Crash, Inv, TypeOK
  <2> QED  BY <2>1, <2>2, <2>3, <2>4, <2>5, <2>6, <2>7, <2>8, <2>9, <2>10,
              <2>11 DEF Work
<1> QED  BY <1>1, <1>2 DEF Next

LEMMA SpecInv == Spec => []Inv
BY InitInv, NextInv, PTL DEF Spec

\* Every reachable state of a start-up is well typed.
THEOREM StartTypes == Spec => []TypeOK
<1>1. Inv => TypeOK
  BY DEF Inv
<1> QED  BY SpecInv, <1>1, PTL

\* No process takes requests from an incomplete file (app.py:23), however many
\* start together and wherever they crash.
THEOREM NobodyServesEarly == Spec => []ServesComplete
<1>1. Inv => ServesComplete
  BY DEF Inv, TypeOK, ServesComplete, Complete, Reached, Versioned, Tables,
         AtVersion, Stages
<1> QED  BY SpecInv, <1>1, PTL

\* The version row is not ahead of the columns (store/schema.py:88-96).
THEOREM VersionIsLast == Spec => []VersionLast
<1>1. Inv => VersionLast
  BY DEF Inv
<1> QED  BY SpecInv, <1>1, PTL
=============================================================================
