---------------------------- MODULE StartupProofs ----------------------------
(***************************************************************************)
(* For all versions and all histories of setups, crashes and upgrades: a   *)
(* setup that ends has made the whole schema, with one row of each kind,   *)
(* and whoever serves the mount has usable statements.                     *)
(*                                                                         *)
(* A setup that runs has made what the statements before "at" make (Made), *)
(* whether in this run or an earlier one, since tables and rows are never  *)
(* dropped.  Roots are counted by their indices: two of them are one; and  *)
(* the Drive thread has cleared no parent unless a directory came first,   *)
(* since row 1 was the root it takes it for; if one did, row 1 is that or  *)
(* another directory for good (RootOK).  That the statements of --setup    *)
(* survive dbcache_close rests on there being some (Prepared): the         *)
(* connection is then busy.                                                *)
(***************************************************************************)
EXTENDS Startup, FiniteSetTheorems, SequenceTheorems, TLAPS

Entries == rows["dfs_entry"]

RootOK ==
    /\ \A i, j \in DOMAIN Entries : Entries[i] = "root" /\ Entries[j] = "root" => i = j
    /\ ~early /\ Entries # <<>> =>
           /\ Entries[1] = "root"
           /\ \A i \in DOMAIN Entries : Entries[i] # "directory" => i = 1
    /\ early => Entries # <<>> /\ Entries[1] # "root"

OthersOnce == \A t \in AllTables \ {"dfs_entry"} : Len(rows[t]) <= 1

\* What statement k of the schema is for is there.
Effect(k) ==
    /\ Schema[k][2] \in tables
    /\ Schema[k][1] = "row" => ~RowMissing(Schema[k][2])

\* What TypeOK says of the database.
DbType ==
    /\ tables \subseteq AllTables
    /\ DOMAIN rows = AllTables
    /\ rows["dfs_version"] \in Seq(Versions)
    /\ rows["dfs_entry"] \in Seq({"root", "directory", "parentless"})
    /\ \A t \in AllTables \ {"dfs_version", "dfs_entry"} : rows[t] \in Seq({"row"})
    /\ \A t \in AllTables : rows[t] # <<>> => t \in tables

Database == DbType /\ RootOK /\ OthersOnce

\* What TypeOK says of the rest.
ProcType ==
    /\ basedir \in BOOLEAN /\ setup \in BOOLEAN /\ early \in BOOLEAN
    /\ program \in Versions
    /\ pc \in PCs /\ at \in 0..Len(Schema)
    /\ sql \in 0..2 /\ open \subseteq 1..2
    /\ stmts \in [tables : SUBSET AllTables, conn : 0..2]
    /\ crashes \in Nat

Made ==
    /\ setup /\ pc = "schema" => at < Len(Schema) /\ \A k \in 1..at : Effect(k)
    /\ setup /\ pc \notin {"open", "schema"} => Complete
    /\ pc \in {"open", "schema", "drive_setup", "close"} => setup
    /\ pc \in {"down", "open"} => at = 0

Prepared ==
    /\ pc \in {"schema", "prepare"} => sql \in open
    /\ pc = "prepare" => sql # 0
    /\ setup /\ pc \in {"drive_setup", "close", "mkdir", "reopen", "running"} =>
           stmts.tables = AllTables /\ stmts.conn \in open
    /\ pc = "running" => stmts.tables = tables /\ stmts.conn \in open

IInv == Database /\ ProcType /\ Made /\ Prepared

-----------------------------------------------------------------------------
(* The schema                                                               *)

LEMMA LenSchema == Len(Schema) = 8
BY DEF Schema

LEMMA NoStatementsType == NoStatements \in [tables : SUBSET AllTables, conn : 0..2]
BY DEF NoStatements

LEMMA SchemaFacts ==
    /\ Len(Schema) = 8
    /\ \A k \in 1..8 : Schema[k][1] \in {"create", "row"} /\ Schema[k][2] \in AllTables
    /\ Schema[1] = <<"create", "dfs_version">> /\ Schema[2] = <<"row", "dfs_version">>
    /\ Schema[3] = <<"create", "dfs_entry">> /\ Schema[4] = <<"create", "dfs_token">>
    /\ Schema[5] = <<"row", "dfs_entry">> /\ Schema[6] = <<"row", "dfs_token">>
    /\ Schema[7] = <<"create", "dfs_change">> /\ Schema[8] = <<"row", "dfs_change">>
<1>1. /\ Len(Schema) = 8
      /\ Schema[1] = <<"create", "dfs_version">> /\ Schema[2] = <<"row", "dfs_version">>
      /\ Schema[3] = <<"create", "dfs_entry">> /\ Schema[4] = <<"create", "dfs_token">>
      /\ Schema[5] = <<"row", "dfs_entry">> /\ Schema[6] = <<"row", "dfs_token">>
      /\ Schema[7] = <<"create", "dfs_change">> /\ Schema[8] = <<"row", "dfs_change">>
    BY DEF Schema
<1>2. \A k \in 1..8 : k \in {1, 2, 3, 4, 5, 6, 7, 8}
    OBVIOUS
<1> QED BY <1>1, <1>2 DEF AllTables

\* A row is inserted into a table that an earlier statement has created.
LEMMA CreatedBefore ==
    ASSUME at \in 0..7, \A k \in 1..at : Effect(k), Schema[at + 1][1] = "row"
    PROVE  Schema[at + 1][2] \in tables
<1>1. at + 1 \in {2, 5, 6, 8}
    <2>1. at \in {0, 1, 2, 3, 4, 5, 6, 7}
        OBVIOUS
    <2> QED BY <2>1, SchemaFacts
<1> QED BY <1>1, SchemaFacts DEF Effect

LEMMA EffectsComplete ==
    ASSUME DbType', \A k \in 1..8 : Effect(k)'
    PROVE  Complete'
<1>1. \A t \in AllTables : t \in tables'
    BY SchemaFacts DEF Effect, AllTables
<1>2. \A t \in AllTables : ~RowMissing(t)'
    BY SchemaFacts DEF Effect, AllTables
<1> QED BY <1>1, <1>2 DEF Complete, DbType

-----------------------------------------------------------------------------
(* Tables and rows are only added.                                          *)

Grows ==
    /\ tables \subseteq tables' /\ DOMAIN rows' = AllTables
    /\ \A t \in AllTables : rows'[t] = rows[t] \/ \E x : rows'[t] = Append(rows[t], x)

LEMMA RowsType ==
    ASSUME DbType, NEW t \in AllTables
    PROVE  rows[t] \in Seq(Versions \cup {"root", "directory", "parentless", "row"})
<1>1. rows["dfs_version"] \in Seq(Versions) /\ rows["dfs_entry"] \in Seq({"root", "directory", "parentless"})
    BY DEF DbType
<1>2. t \notin {"dfs_version", "dfs_entry"} => rows[t] \in Seq({"row"})
    BY DEF DbType
<1> QED BY <1>1, <1>2

LEMMA GrowsKeeps ==
    ASSUME DbType, Grows
    PROVE  /\ \A t \in AllTables : ~RowMissing(t) => ~RowMissing(t)'
           /\ \A k \in 1..8 : Effect(k) => Effect(k)'
<1>1. ASSUME NEW t \in AllTables, ~RowMissing(t) PROVE ~RowMissing(t)'
    <2>1. rows'[t] = rows[t] \/ \E x : rows'[t] = Append(rows[t], x)
        BY DEF Grows
    <2>2. rows[t] \in Seq(Versions \cup {"root", "directory", "parentless", "row"})
        BY RowsType
    <2>3. /\ Len(rows[t]) <= Len(rows'[t])
          /\ \A i \in 1..Len(rows[t]) : i \in DOMAIN rows'[t] /\ rows'[t][i] = rows[t][i]
        <3>1. CASE rows'[t] = rows[t]
            BY <2>2, <3>1
        <3>2. CASE \E x : rows'[t] = Append(rows[t], x)
            <4>1. PICK x : rows'[t] = Append(rows[t], x)
                BY <3>2
            <4> QED BY <2>2, <4>1, AppendProperties
        <3> QED BY <2>1, <3>1, <3>2
    <2> QED BY <1>1, <2>2, <2>3 DEF RowMissing, Parentless
<1>2. ASSUME NEW k \in 1..8, Effect(k) PROVE Effect(k)'
    BY <1>1, <1>2, SchemaFacts DEF Effect, Grows
<1> QED BY <1>1, <1>2

LEMMA SameDatabase ==
    ASSUME Database, UNCHANGED <<tables, early>>,
           DOMAIN rows' = AllTables, \A u \in AllTables : rows'[u] = rows[u]
    PROVE  Database' /\ Grows
<1>1. Entries' = Entries
    BY DEF Entries, AllTables
<1>2. DbType'
    BY <1>1 DEF Database, DbType, Entries, AllTables
<1> QED BY <1>1, <1>2 DEF Database, RootOK, OthersOnce, Grows

LEMMA FirstRowType ==
    ASSUME program \in Versions
    PROVE  /\ FirstRow("dfs_version") \in Versions
           /\ FirstRow("dfs_entry") = "root"
           /\ \A t \in AllTables \ {"dfs_version", "dfs_entry"} : FirstRow(t) = "row"
BY DEF FirstRow, AllTables

LEMMA ExecuteStep ==
    ASSUME Database, program \in Versions, NEW what \in {"create", "row"}, NEW t \in AllTables,
           what = "row" => t \in tables,
           Execute(what, t), UNCHANGED early
    PROVE  /\ Database' /\ Grows
           /\ t \in tables' /\ (what = "row" => ~RowMissing(t)')
<1>1. CASE what = "create"
    <2>1. tables' = tables \cup {t} /\ rows' = rows
        BY <1>1 DEF Execute
    <2> QED BY <1>1, <2>1 DEF Database, DbType, RootOK, OthersOnce, Entries, Grows
<1>2. CASE what = "row" /\ ~RowMissing(t)
    <2>1. tables' = tables /\ rows' = [rows EXCEPT ![t] = rows[t]]
        BY <1>2 DEF Execute
    <2>2. DOMAIN rows' = AllTables /\ \A u \in AllTables : rows'[u] = rows[u]
        BY <2>1 DEF Database, DbType
    <2> QED BY <1>2, <2>1, <2>2, SameDatabase DEF RowMissing, Parentless
<1>3. CASE what = "row" /\ RowMissing(t)
    <2>1. /\ tables' = tables /\ t \in tables
          /\ rows' = [rows EXCEPT ![t] = Append(rows[t], FirstRow(t))]
        BY <1>3 DEF Execute
    <2>2. /\ DOMAIN rows' = AllTables
          /\ rows'[t] = Append(rows[t], FirstRow(t))
          /\ \A u \in AllTables \ {t} : rows'[u] = rows[u]
        BY <2>1 DEF Database, DbType
    <2>3. Grows
        BY <2>1, <2>2 DEF Grows
    <2>4. CASE t = "dfs_entry"
        <3>1. /\ Entries \in Seq({"root", "directory", "parentless"})
              /\ Entries' = Append(Entries, "root")
              /\ \A i \in DOMAIN Entries : Entries[i] = "directory"
            BY <1>3, <2>2, <2>4, FirstRowType
               DEF Database, DbType, Entries, RowMissing, Parentless
        <3>2. /\ Entries' \in Seq({"root", "directory", "parentless"})
              /\ Len(Entries') = Len(Entries) + 1 /\ DOMAIN Entries' = 1..(Len(Entries) + 1)
              /\ Entries'[Len(Entries) + 1] = "root"
              /\ \A i \in 1..Len(Entries) : Entries'[i] = Entries[i]
            BY <3>1, AppendProperties
        <3>3. DbType'
            BY <2>1, <2>2, <2>4, <3>2 DEF Database, DbType, Entries, AllTables
        <3>4. RootOK'
            <4>1. \A i \in DOMAIN Entries' : Entries'[i] = "root" => i = Len(Entries) + 1
                BY <3>1, <3>2
            <4>2. ~early => Entries = <<>>
                <5>1. SUFFICES ASSUME ~early, Entries # <<>> PROVE FALSE
                    OBVIOUS
                <5>2. Entries[1] = "root" /\ 1 \in DOMAIN Entries
                    BY <3>1, <5>1, EmptySeq DEF Database, RootOK
                <5> QED BY <3>1, <5>2
            <4>3. ~early => /\ Entries'[1] = "root"
                            /\ \A i \in DOMAIN Entries' : i = 1
                <5>1. SUFFICES ASSUME ~early
                               PROVE  /\ Entries'[1] = "root"
                                      /\ \A i \in DOMAIN Entries' : i = 1
                    OBVIOUS
                <5>2. Len(Entries) = 0
                    BY <4>2, <5>1
                <5> QED BY <3>2, <5>2
            <4>4. ASSUME early PROVE Entries' # <<>> /\ Entries'[1] # "root"
                <5>1. Entries # <<>> /\ Entries[1] # "root"
                    BY <4>4 DEF Database, RootOK
                <5>2. 1 \in 1..Len(Entries)
                    BY <3>1, <5>1, EmptySeq
                <5> QED BY <3>1, <3>2, <5>1, <5>2
            <4> QED BY <2>1, <4>1, <4>3, <4>4 DEF RootOK
        <3>5. OthersOnce'
            BY <2>2, <2>4 DEF Database, OthersOnce
        <3>6. ~RowMissing(t)'
            BY <2>4, <3>2, <3>1 DEF RowMissing, Parentless, Entries
        <3> QED BY <2>1, <2>3, <3>3, <3>4, <3>5, <3>6 DEF Database
    <2>5. CASE t # "dfs_entry"
        <3>1. rows[t] = <<>>
            BY <1>3, <2>5 DEF RowMissing
        <3>2. rows'[t] = <<FirstRow(t)>>
            BY <2>2, <3>1
        <3>3. DbType'
            <4>1. \A S : FirstRow(t) \in S => rows'[t] \in Seq(S)
                BY <3>2
            <4>2. CASE t = "dfs_version"
                BY <2>1, <2>2, <4>1, <4>2, FirstRowType DEF Database, DbType, AllTables
            <4>3. CASE t \in AllTables \ {"dfs_version", "dfs_entry"}
                <5>1. rows'[t] \in Seq({"row"})
                    BY <4>1, <4>3, FirstRowType
                <5> QED BY <2>1, <2>2, <4>3, <5>1 DEF Database, DbType, AllTables
            <4> QED BY <2>5, <4>2, <4>3
        <3>4. RootOK'
            BY <2>2, <2>5 DEF Database, RootOK, Entries, AllTables
        <3>5. OthersOnce'
            <4>1. Len(rows'[t]) = 1
                BY <3>2
            <4> QED BY <2>2, <4>1 DEF Database, OthersOnce
        <3>6. ~RowMissing(t)'
            BY <2>5, <3>2 DEF RowMissing
        <3> QED BY <2>1, <2>3, <3>3, <3>4, <3>5, <3>6 DEF Database
    <2> QED BY <2>4, <2>5
<1> QED BY <1>1, <1>2, <1>3

LEMMA MakeDirectoryDb ==
    ASSUME Database, MakeDirectory, "dfs_entry" \in tables
    PROVE  Database' /\ Grows
<1>1. /\ rows' = [rows EXCEPT !["dfs_entry"] = Append(Entries, "directory")]
      /\ tables' = tables /\ early' = (early \/ RowMissing("dfs_entry"))
    BY DEF MakeDirectory, Entries
<1>2. /\ DOMAIN rows' = AllTables /\ "dfs_entry" \in AllTables
      /\ Entries' = Append(Entries, "directory")
      /\ \A u \in AllTables \ {"dfs_entry"} : rows'[u] = rows[u]
    BY <1>1 DEF Database, DbType, Entries, AllTables
<1>3. Entries \in Seq({"root", "directory", "parentless"})
    BY DEF Database, DbType, Entries
<1>4. /\ Entries' \in Seq({"root", "directory", "parentless"})
      /\ DOMAIN Entries' = 1..(Len(Entries) + 1)
      /\ Entries'[Len(Entries) + 1] = "directory"
      /\ \A i \in 1..Len(Entries) : Entries'[i] = Entries[i]
    BY <1>2, <1>3, AppendProperties
<1>5. DbType'
    BY <1>1, <1>2, <1>4 DEF Database, DbType, Entries, AllTables
<1>6. RootOK'
    <2>1. \A i \in DOMAIN Entries' : Entries'[i] = "root" => i \in DOMAIN Entries /\ Entries[i] = "root"
        BY <1>3, <1>4
    <2>2. ~early' => /\ Entries'[1] = "root"
                     /\ \A i \in DOMAIN Entries' : Entries'[i] # "directory" => i = 1
        <3>1. SUFFICES ASSUME ~early, ~RowMissing("dfs_entry")
                       PROVE  /\ Entries'[1] = "root"
                              /\ \A i \in DOMAIN Entries' : Entries'[i] # "directory" => i = 1
            BY <1>1
        <3>2. Entries # <<>>
            BY <3>1, <1>3 DEF RowMissing, Parentless, Entries
        <3>3. /\ Entries[1] = "root" /\ 1 \in 1..Len(Entries)
              /\ \A i \in 1..Len(Entries) : Entries[i] # "directory" => i = 1
            BY <3>1, <3>2, <1>3, EmptySeq DEF Database, RootOK
        <3> QED BY <3>3, <1>4
    <2>3. Entries' # <<>>
        BY <1>3, <1>4
    <2>4. ASSUME early' PROVE Entries'[1] # "root"
        <3>1. CASE Entries = <<>>
            BY <1>2, <3>1
        <3>2. CASE Entries # <<>>
            <4>1. 1 \in 1..Len(Entries) /\ DOMAIN Entries = 1..Len(Entries)
                BY <1>3, <3>2, EmptySeq
            <4>2. Entries[1] # "root"
                BY <1>1, <2>4, <4>1 DEF Database, RootOK, RowMissing, Parentless, Entries
            <4> QED BY <1>4, <4>1, <4>2
        <3> QED BY <3>1, <3>2
    <2> QED BY <2>1, <2>2, <2>3, <2>4 DEF Database, RootOK
<1>7. OthersOnce'
    BY <1>2 DEF Database, OthersOnce
<1> QED BY <1>1, <1>2, <1>5, <1>6, <1>7 DEF Database, Grows, Entries

-----------------------------------------------------------------------------
(* The steps of main                                                        *)

LEMMA DbStays ==
    ASSUME IInv, UNCHANGED <<tables, rows, early>>
    PROVE  /\ Database' /\ (Complete => Complete')
           /\ \A k \in 1..8 : Effect(k) => Effect(k)'
<1>1. Database /\ DOMAIN rows = AllTables
    BY DEF IInv, Database, DbType
<1>2. Database'
    BY <1>1, SameDatabase
<1> QED BY <1>2 DEF Complete, Effect, RowMissing, Parentless

LEMMA InitIInv == Init => IInv
<1> SUFFICES ASSUME Init PROVE IInv
    OBVIOUS
<1>1. rows = [t \in AllTables |-> <<>>] /\ Entries = <<>> /\ \A t \in AllTables : rows[t] = <<>>
    BY DEF Init, Entries, AllTables
<1>2. Database
    <2>1. DbType
        BY <1>1 DEF Init, DbType, AllTables
    <2>2. RootOK
        BY <1>1 DEF RootOK, Init
    <2>3. OthersOnce
        BY <1>1 DEF OthersOnce
    <2> QED BY <2>1, <2>2, <2>3 DEF Database
<1>3. ProcType
    <2>1. at \in 0..Len(Schema) /\ sql \in 0..2 /\ crashes \in Nat
        BY LenSchema DEF Init
    <2>2. basedir \in BOOLEAN /\ setup \in BOOLEAN /\ early \in BOOLEAN
        BY Zenon DEF Init
    <2> QED BY <2>1, <2>2, NoStatementsType DEF Init, ProcType, PCs
<1>4. Made /\ Prepared
    BY DEF Init, Made, Prepared
<1> QED BY <1>2, <1>3, <1>4 DEF IInv

LEMMA EndStep ==
    ASSUME IInv, UNCHANGED <<tables, rows, early>>, Die,
           basedir' \in BOOLEAN, program' \in Versions, crashes' \in Nat
    PROVE  IInv'
<1>1. Database'
    BY DbStays
<1>2. ProcType'
    <2>1. at' \in 0..Len(Schema) /\ sql' \in 0..2
        BY LenSchema DEF Die
    <2>2. setup' \in BOOLEAN /\ early' \in BOOLEAN
        BY Zenon DEF Die, IInv, ProcType
    <2> QED BY <2>1, <2>2, NoStatementsType DEF Die, ProcType, PCs
<1>3. Made' /\ Prepared'
    BY DEF Die, Made, Prepared
<1> QED BY <1>1, <1>2, <1>3 DEF IInv

LEMMA OutsideStep ==
    ASSUME IInv, Upgrade \/ Crash \/ Unmount \/ VersionMismatch
    PROVE  IInv'
<1> USE DEF IInv
<1>1. CASE Upgrade
    <2>1. Database' /\ (Complete => Complete')
        BY <1>1, DbStays DEF Upgrade, dbVars
    <2>2. ProcType'
        BY <1>1 DEF Upgrade, dbVars, procVars, ProcType
    <2>3. Made' /\ Prepared'
        BY <1>1, <2>1 DEF Upgrade, dbVars, procVars, Made, Prepared
    <2> QED BY <2>1, <2>2, <2>3
<1>2. CASE Crash
    BY <1>2, EndStep DEF Crash, dbVars, ProcType
<1>3. CASE Unmount
    BY <1>3, EndStep DEF Unmount, dbVars, ProcType
<1>4. CASE VersionMismatch
    BY <1>4, EndStep DEF VersionMismatch, dbVars, ProcType
<1> QED BY <1>1, <1>2, <1>3, <1>4

LEMMA StartStep == ASSUME IInv, NEW s \in BOOLEAN, Start(s) PROVE IInv'
<1> USE DEF IInv
<1>1. Database'
    BY DbStays DEF Start, dbVars
<1>2. ProcType'
    BY DEF Start, dbVars, ProcType, PCs
<1>3. Made' /\ Prepared'
    BY DEF Start, dbVars, Made, Prepared
<1> QED BY <1>1, <1>2, <1>3

LEMMA OpenFirstStep == ASSUME IInv, OpenFirst PROVE IInv'
<1> USE DEF IInv
<1>1. CASE basedir
    <2>1. Database' /\ (Complete => Complete')
        BY DbStays DEF OpenFirst, dbVars
    <2>2. ProcType'
        BY <1>1 DEF OpenFirst, dbVars, ProcType, PCs
    <2>3. Made' /\ Prepared'
        BY <1>1, LenSchema DEF OpenFirst, dbVars, Made, Prepared
    <2> QED BY <2>1, <2>2, <2>3
<1>2. CASE ~basedir
    BY <1>2, EndStep DEF OpenFirst, dbVars, ProcType
<1> QED BY <1>1, <1>2

\* One statement of the schema: what it is for is there afterwards, and what the others are
\* for stays.
LEMMA SchemaStepStep == ASSUME IInv, SchemaStep PROVE IInv'
<1>1. /\ setup /\ at \in 0..7 /\ \A k \in 1..at : Effect(k)
      /\ Database /\ DbType /\ program \in Versions /\ ProcType
    <2>1. setup /\ at \in 0..8 /\ at < 8 /\ \A k \in 1..at : Effect(k)
        BY SchemaFacts DEF IInv, SchemaStep, Made, ProcType
    <2> QED BY <2>1 DEF IInv, Database, ProcType
<1>2. PICK n \in 1..8 : n = at + 1
    BY <1>1
<1>3. /\ Schema[n][1] \in {"create", "row"} /\ Schema[n][2] \in AllTables
      /\ Schema[n][1] = "row" => Schema[n][2] \in tables
      /\ Execute(Schema[n][1], Schema[n][2]) /\ UNCHANGED early
    BY <1>1, <1>2, SchemaFacts, CreatedBefore DEF SchemaStep
<1>4. /\ Database' /\ Grows
      /\ Schema[n][2] \in tables' /\ (Schema[n][1] = "row" => ~RowMissing(Schema[n][2])')
    BY <1>1, <1>3, ExecuteStep
<1>5. at' = n /\ setup' = setup
    BY <1>2 DEF SchemaStep
<1>6. \A k \in 1..n : Effect(k)'
    <2>1. SUFFICES ASSUME NEW k \in 1..n PROVE Effect(k)'
        OBVIOUS
    <2>2. CASE k \in 1..at
        <3>1. k \in 1..8
            BY <1>1, <2>2
        <3> QED BY <1>1, <1>4, <2>2, <3>1, GrowsKeeps
    <2>3. CASE k = n
        BY <1>4, <2>3 DEF Effect
    <2> QED BY <1>1, <1>2, <2>2, <2>3
<1>7. ProcType'
    BY <1>1, <1>2, <1>5, LenSchema DEF SchemaStep, ProcType, PCs
<1>8. Made'
    <2>1. CASE n = 8
        <3>1. Complete'
            BY <1>4, <1>6, <2>1, EffectsComplete DEF Database
        <3>2. pc' = "prepare"
            BY <1>5, <2>1, LenSchema DEF SchemaStep
        <3> QED BY <3>1, <3>2 DEF Made
    <2>2. CASE n # 8
        <3>1. pc' = "schema" /\ at' < Len(Schema)
            BY <1>2, <1>5, <2>2, LenSchema DEF SchemaStep
        <3> QED BY <1>1, <1>5, <1>6, <3>1 DEF Made
    <2> QED BY <2>1, <2>2
<1>9. Prepared'
    BY <1>1 DEF IInv, SchemaStep, Prepared, ProcType, PCs
<1> QED BY <1>4, <1>7, <1>8, <1>9 DEF IInv

\* The statements are prepared on the connection in use, of the tables there are.
LEMMA PrepareStep == ASSUME IInv, Prepare PROVE IInv'
<1>1. Database' /\ (Complete => Complete')
    BY DbStays DEF Prepare, dbVars
<1>2. ProcType'
    <2>1. stmts' \in [tables : SUBSET AllTables, conn : 0..2]
        BY DEF IInv, Database, DbType, ProcType, Prepare
    <2> QED BY <2>1 DEF IInv, Prepare, dbVars, ProcType, PCs
<1>3. Made'
    BY <1>1 DEF IInv, Prepare, Made
<1>4. Prepared'
    <2>1. stmts'.tables = tables /\ stmts'.conn = sql /\ sql \in open
        BY DEF IInv, Prepare, Prepared
    <2> QED BY <2>1 DEF IInv, Prepare, dbVars, Made, Prepared, Complete
<1> QED BY <1>1, <1>2, <1>3, <1>4 DEF IInv

LEMMA DriveSetupStep == ASSUME IInv, DriveSetup PROVE IInv'
<1>1. CASE Die
    BY <1>1, EndStep DEF IInv, DriveSetup, dbVars, ProcType
<1>2. CASE ~Die
    <2>1. Database' /\ (Complete => Complete')
        BY DbStays DEF DriveSetup, dbVars
    <2>2. ProcType' /\ Made' /\ Prepared'
        BY <1>2, <2>1 DEF IInv, DriveSetup, dbVars, ProcType, PCs, Made, Prepared
    <2> QED BY <2>1, <2>2 DEF IInv
<1> QED BY <1>1, <1>2

\* The connection of the statements stays open: there are statements.
LEMMA CloseStep == ASSUME IInv, Close PROVE IInv'
<1>1. Database' /\ (Complete => Complete')
    BY DbStays DEF Close, dbVars
<1>2. ProcType' /\ Made'
    BY <1>1 DEF IInv, Close, dbVars, ProcType, PCs, Made
<1>3. setup /\ stmts.tables # {} /\ stmts.tables = AllTables /\ stmts.conn \in open
    BY DEF IInv, Close, Made, Prepared, AllTables
<1>4. Prepared'
    BY <1>3 DEF Close, Prepared
<1> QED BY <1>1, <1>2, <1>4 DEF IInv

LEMMA MkdirStep == ASSUME IInv, Mkdir PROVE IInv'
<1>1. Database' /\ (Complete => Complete')
    BY DbStays DEF Mkdir
<1>2. ProcType' /\ Made' /\ Prepared'
    BY <1>1 DEF IInv, Mkdir, ProcType, PCs, Made, Prepared
<1> QED BY <1>1, <1>2 DEF IInv

LEMMA ReopenStep == ASSUME IInv, Reopen PROVE IInv'
<1>1. Database' /\ (Complete => Complete')
    BY DbStays DEF Reopen, dbVars
<1>2. ProcType' /\ Made'
    BY <1>1 DEF IInv, Reopen, dbVars, ProcType, PCs, Made
<1>3. Prepared'
    BY DEF IInv, Reopen, dbVars, Made, Prepared, Complete
<1> QED BY <1>1, <1>2, <1>3 DEF IInv

LEMMA MakeDirectoryStep == ASSUME IInv, MakeDirectory PROVE IInv'
<1>1. Database /\ DbType /\ "dfs_entry" \in tables
    BY DEF IInv, Database, MakeDirectory, Prepared
<1>2. Database' /\ Grows
    BY <1>1, MakeDirectoryDb
<1>3. Complete => Complete'
    BY <1>1, <1>2, GrowsKeeps DEF MakeDirectory, Complete
<1>4. ProcType'
    <2>1. early' \in BOOLEAN
        BY DEF MakeDirectory
    <2> QED BY <2>1 DEF IInv, MakeDirectory, procVars, ProcType
<1>5. Made' /\ Prepared'
    BY <1>3 DEF IInv, MakeDirectory, procVars, Made, Prepared
<1> QED BY <1>2, <1>4, <1>5 DEF IInv

\* Where the Drive thread clears a parent, a directory was made before there was a root.
LEMMA UpdateRootStep == ASSUME IInv, UpdateRoot PROVE IInv'
<1>1. /\ Database /\ DbType /\ Entries \in Seq({"root", "directory", "parentless"})
      /\ Entries # <<>> /\ Entries[1] = "directory" /\ DOMAIN rows = AllTables
    BY DEF IInv, Database, DbType, UpdateRoot, Entries
<1>2. /\ DOMAIN rows' = AllTables
      /\ Entries' = [Entries EXCEPT ![1] = "parentless"]
      /\ \A t \in AllTables \ {"dfs_entry"} : rows'[t] = rows[t]
    BY <1>1 DEF UpdateRoot, Entries, AllTables
<1>3. /\ 1 \in DOMAIN Entries /\ DOMAIN Entries' = DOMAIN Entries
      /\ Entries' \in Seq({"root", "directory", "parentless"})
      /\ Entries' # <<>> /\ Entries'[1] = "parentless"
      /\ \A i \in DOMAIN Entries \ {1} : Entries'[i] = Entries[i]
    BY <1>1, <1>2, EmptySeq
<1>4. early /\ early' = early
    BY <1>1 DEF UpdateRoot, Database, RootOK
<1>5. RootOK'
    BY <1>1, <1>3, <1>4 DEF Database, RootOK
<1>6. DbType'
    BY <1>1, <1>2, <1>3 DEF UpdateRoot, DbType, Entries, AllTables
<1>7. OthersOnce'
    BY <1>1, <1>2 DEF Database, OthersOnce
<1>8. Complete => Complete'
    <2>1. ~RowMissing("dfs_entry")'
        BY <1>3 DEF RowMissing, Parentless, Entries
    <2> QED BY <1>2, <2>1 DEF UpdateRoot, Complete, RowMissing
<1>9. ProcType' /\ Made' /\ Prepared'
    BY <1>8 DEF IInv, UpdateRoot, procVars, ProcType, Made, Prepared
<1> QED BY <1>5, <1>6, <1>7, <1>9 DEF IInv, Database

LEMMA NextIInv == IInv /\ [Next]_vars => IInv'
<1> SUFFICES ASSUME IInv, [Next]_vars PROVE IInv'
    OBVIOUS
<1>1. CASE OpenFirst \/ SchemaStep \/ Prepare \/ DriveSetup \/ Close \/ Mkdir \/ Reopen
    BY <1>1, OpenFirstStep, SchemaStepStep, PrepareStep, DriveSetupStep, CloseStep, MkdirStep,
       ReopenStep
<1>2. CASE MakeDirectory \/ UpdateRoot
    BY <1>2, MakeDirectoryStep, UpdateRootStep
<1>3. CASE Upgrade \/ Crash \/ Unmount \/ VersionMismatch
    BY <1>3, OutsideStep
<1>4. CASE \E s \in BOOLEAN : Start(s)
    BY <1>4, StartStep
<1>5. CASE UNCHANGED vars
    <2>1. Database' /\ (Complete => Complete') /\ \A k \in 1..8 : Effect(k) => Effect(k)'
        BY <1>5, DbStays DEF vars, dbVars
    <2>2. ProcType' /\ Prepared'
        BY <1>5 DEF vars, dbVars, procVars, IInv, ProcType, Prepared
    <2>3. Made'
        <3>1. pc' = pc /\ setup' = setup /\ at' = at
            BY <1>5 DEF vars, procVars
        <3>2. setup /\ pc = "schema" => \A k \in 1..at : k \in 1..8
            BY LenSchema DEF IInv, Made, ProcType
        <3> QED BY <2>1, <3>1, <3>2 DEF IInv, Made
    <2> QED BY <2>1, <2>2, <2>3 DEF IInv
<1> QED BY <1>1, <1>2, <1>3, <1>4, <1>5 DEF Next, MainStep

LEMMA Invariance == Spec => []IInv
<1> QED BY InitIInv, NextIInv, PTL DEF Spec

-----------------------------------------------------------------------------
(* The theorems                                                             *)

\* The database, the connections and main keep their types (main.c, dbcache.c).
THEOREM StartupTypeCorrect == Spec => []TypeOK
<1>1. IInv => TypeOK
    BY DEF IInv, Database, DbType, ProcType, TypeOK
<1> QED BY <1>1, Invariance, PTL

\* There is one "/", one token, one change and one version, however setups are cut short
\* (dbcache_setup_schema); and "/" is row 1 and alone without a parent, unless a directory
\* was made before it.
THEOREM OneOfEachCorrect == Spec => []OneOfEach
<1>1. ASSUME IInv PROVE OneOfEach
    <2>1. RootOK /\ OthersOnce /\ Entries \in Seq({"root", "directory", "parentless"})
        BY <1>1 DEF IInv, Database, DbType, Entries
    <2>2. Cardinality(Roots) <= 1
        <3>1. CASE Roots = {}
            BY <3>1, FS_EmptySet
        <3>2. CASE Roots # {}
            <4>1. PICK i \in Roots : TRUE
                BY <3>2
            <4>2. Roots = {i}
                BY <2>1, <4>1 DEF RootOK, Roots, Entries
            <4> QED BY <4>2, FS_Singleton
        <3> QED BY <3>1, <3>2
    <2>3. ~early => Roots \subseteq {1} /\ Parentless \subseteq {1}
        BY <2>1, EmptySeq DEF RootOK, Roots, Parentless, Entries
    <2> QED BY <2>1, <2>2, <2>3 DEF OneOfEach, OthersOnce
<1> QED BY <1>1, Invariance, PTL

\* A setup that ends has made the whole schema, as far as its tests ask for it; "/" is then row
\* 1 if no directory was made before it, and never will be otherwise (dbcache_setup_schema).
THEOREM SetupCorrect == Spec => []SetupCompletes
<1>1. ASSUME IInv PROVE SetupCompletes
    <2>1. SUFFICES ASSUME setup, pc \notin {"open", "schema"}
                   PROVE  Complete /\ (1 \in Roots <=> ~early)
        BY DEF SetupCompletes
    <2>2. Complete /\ RootOK /\ Entries \in Seq({"root", "directory", "parentless"})
        BY <1>1, <2>1 DEF IInv, Made, Database, DbType, Entries
    <2>3. Entries # <<>>
        BY <2>2 DEF Complete, RowMissing, Parentless, Entries, AllTables
    <2>4. 1 \in DOMAIN Entries
        BY <2>2, <2>3, EmptySeq
    <2> QED BY <2>2, <2>3, <2>4 DEF RootOK, Roots, Entries
<1> QED BY <1>1, Invariance, PTL

\* The mount is served with statements of every table there is, on an open connection (main,
\* dbcache_setup, dbcache_close).
THEOREM StatementsCorrect == Spec => []StatementsUsable
<1>1. IInv => StatementsUsable
    BY DEF IInv, Prepared, StatementsUsable
<1> QED BY <1>1, Invariance, PTL

=============================================================================
