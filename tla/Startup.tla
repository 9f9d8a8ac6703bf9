------------------------------- MODULE Startup -------------------------------
(***************************************************************************)
(* How drive-fuse-sync comes up: main (src/src/main.c) with and without    *)
(* --setup, dbcache_open, _setup_schema, _setup and _close                 *)
(* (src/src/dbcache.c), the schema statement by statement.  SQLite commits *)
(* each statement by itself, and the process may be killed between any     *)
(* two; the directory and the database stay.                               *)
(***************************************************************************)
EXTENDS Integers, Sequences, FiniteSets

CONSTANTS
    Versions,       \* the versions of the schema that programs bring
    MaxRows,        \* bounds: FUSE makes no directory in a table of this size,
    MaxCrashes      \*   and how often the process is killed

ASSUME StartupAssumption == Versions \subseteq Nat /\ MaxRows \in Nat /\ MaxCrashes \in Nat

VARIABLES
    basedir,        \* the directory of the database is there
    tables,         \* the tables of the database
    rows,           \* the rows of each: a version; the root, a directory, or one that has
                    \*   lost its parent; or just a row
    program,        \* the version of the program installed
    pc,             \* where main is
    setup,          \* --setup
    at,             \* how many statements of the schema have been executed
    sql,            \* the connection in use, 0 for none
    open,           \* the connections that are open
    stmts,          \* the prepared statements: of which tables, on which connection
    early,          \* history: a directory was made in a table without a root
    crashes

dbVars == <<basedir, tables, rows>>
procVars == <<pc, setup, at, sql, open, stmts>>
vars == <<dbVars, procVars, program, early, crashes>>

AllTables == {"dfs_version", "dfs_entry", "dfs_token", "dfs_change"}

\* What dbcache_setup_schema executes.  The indexes are left out.
Schema == <<
    <<"create", "dfs_version">>, <<"row", "dfs_version">>, <<"create", "dfs_entry">>,
    <<"create", "dfs_token">>, <<"row", "dfs_entry">>, <<"row", "dfs_token">>,
    <<"create", "dfs_change">>, <<"row", "dfs_change">> >>

NoStatements == [tables |-> {}, conn |-> 0]

PCs == {"down", "open", "schema", "prepare", "drive_setup", "close", "mkdir", "reopen", "running"}

TypeOK ==
    /\ basedir \in BOOLEAN /\ setup \in BOOLEAN /\ early \in BOOLEAN
    /\ tables \subseteq AllTables
    /\ DOMAIN rows = AllTables
    /\ rows["dfs_version"] \in Seq(Versions)
    /\ rows["dfs_entry"] \in Seq({"root", "directory", "parentless"})
    /\ \A t \in AllTables \ {"dfs_version", "dfs_entry"} : rows[t] \in Seq({"row"})
    /\ \A t \in AllTables : rows[t] # <<>> => t \in tables
    /\ program \in Versions
    /\ pc \in PCs /\ at \in 0..Len(Schema)
    /\ sql \in 0..2 /\ open \subseteq 1..2
    /\ stmts \in [tables : SUBSET AllTables, conn : 0..2]
    /\ crashes \in Nat

Init ==
    /\ basedir = FALSE
    /\ tables = {} /\ rows = [t \in AllTables |-> <<>>]
    /\ program \in Versions
    /\ pc = "down" /\ setup = FALSE /\ at = 0
    /\ sql = 0 /\ open = {} /\ stmts = NoStatements
    /\ early = FALSE /\ crashes = 0

-----------------------------------------------------------------------------
(* The end of a process, of its connections and its statements.             *)

Die ==
    /\ pc' = "down" /\ setup' = FALSE /\ at' = 0
    /\ sql' = 0 /\ open' = {} /\ stmts' = NoStatements

Start(s) ==
    /\ pc = "down"
    /\ setup' = s
    /\ pc' = IF s THEN "open" ELSE "mkdir"
    /\ UNCHANGED <<dbVars, at, sql, open, stmts, program, early, crashes>>

Upgrade ==
    /\ pc = "down"
    /\ \E v \in Versions : v > program /\ program' = v
    /\ UNCHANGED <<dbVars, procVars, early, crashes>>

Crash ==
    /\ pc # "down" /\ crashes < MaxCrashes
    /\ crashes' = crashes + 1
    /\ Die /\ UNCHANGED <<dbVars, program, early>>

-----------------------------------------------------------------------------
(* main                                                                     *)

\* dbcache_open, before the directory is made.
OpenFirst ==
    /\ pc = "open"
    /\ IF basedir
       THEN pc' = "schema" /\ sql' = 1 /\ open' = {1} /\ UNCHANGED <<setup, at, stmts>>
       ELSE Die
    /\ UNCHANGED <<dbVars, program, early, crashes>>

\* Mutation: the root is inserted like the row of any other table.
FirstRow_noRoot(t) == IF t = "dfs_version" THEN program ELSE "row"

FirstRow(t) ==
    CASE t = "dfs_version" -> program [] t = "dfs_entry" -> "root" [] OTHER -> "row"

\* The rows of dfs_entry with parent NULL: "/", and a directory UpdateRoot took for it.
Parentless == {i \in DOMAIN rows["dfs_entry"] : rows["dfs_entry"][i] # "directory"}

\* The condition of the INSERT: SELECT ... WHERE parent IS NULL finds nothing, nor do the
\* SELECTs of the other tables, which take any row.
RowMissing(t) == IF t = "dfs_entry" THEN Parentless = {} ELSE rows[t] = <<>>

\* Mutation: the row is inserted whether or not there is one.
Execute_blindly(what, t) ==
    \/ /\ what = "create"
       /\ tables' = tables \cup {t}
       /\ UNCHANGED rows
    \/ /\ what = "row"
       /\ rows' = [rows EXCEPT ![t] = Append(@, FirstRow(t))]
       /\ UNCHANGED tables

\* CREATE TABLE IF NOT EXISTS, or a row where there is none.
Execute(what, t) ==
    \/ /\ what = "create"
       /\ tables' = tables \cup {t}
       /\ UNCHANGED rows
    \/ /\ what = "row"
       /\ rows' = [rows EXCEPT ![t] =
                      IF t \in tables /\ RowMissing(t) THEN Append(@, FirstRow(t)) ELSE @]
       /\ UNCHANGED tables

\* The database is another version's.
Mismatch ==
    /\ Schema[at + 1] = <<"row", "dfs_version">>
    /\ rows["dfs_version"] # <<>> /\ rows["dfs_version"][1] # program

\* Mutation: a version that is there is taken to mean that the rest is, too.
SchemaStep_skipsRest ==
    /\ pc = "schema" /\ ~Mismatch
    /\ Execute(Schema[at + 1][1], Schema[at + 1][2])
    /\ at' = IF at = 1 /\ rows["dfs_version"] # <<>> THEN Len(Schema) ELSE at + 1
    /\ pc' = IF at' = Len(Schema) THEN "prepare" ELSE "schema"
    /\ UNCHANGED <<basedir, setup, sql, open, stmts, program, early, crashes>>

SchemaStep ==
    /\ pc = "schema" /\ ~Mismatch
    /\ Execute(Schema[at + 1][1], Schema[at + 1][2])
    /\ at' = at + 1
    /\ pc' = IF at' = Len(Schema) THEN "prepare" ELSE "schema"
    /\ UNCHANGED <<basedir, setup, sql, open, stmts, program, early, crashes>>

VersionMismatch ==
    /\ pc = "schema" /\ Mismatch
    /\ Die /\ UNCHANGED <<dbVars, program, early, crashes>>

\* dbcache_setup: a statement on a table that is not there is NULL, and unnoticed.
Prepare ==
    /\ pc = "prepare"
    /\ stmts' = [tables |-> tables, conn |-> sql]
    /\ pc' = IF setup THEN "drive_setup" ELSE "running"
    /\ UNCHANGED <<dbVars, setup, at, sql, open, program, early, crashes>>

\* An empty code ends the program; any other goes to Drive, and the tokens are stored.
DriveSetup ==
    /\ pc = "drive_setup"
    /\ \/ Die
       \/ pc' = "close" /\ UNCHANGED <<setup, at, sql, open, stmts>>
    /\ UNCHANGED <<dbVars, program, early, crashes>>

\* Mutation: the connection is closed, and its statements with it.
Close_all ==
    /\ pc = "close" /\ pc' = "mkdir"
    /\ open' = open \ {sql}
    /\ UNCHANGED <<dbVars, setup, at, sql, stmts, program, early, crashes>>

\* dbcache_close: sqlite3_close refuses (SQLITE_BUSY) while the connection has statements,
\* which nobody finalizes.
Close ==
    /\ pc = "close" /\ pc' = "mkdir"
    /\ open' = IF stmts.conn = sql /\ stmts.tables # {} THEN open ELSE open \ {sql}
    /\ UNCHANGED <<dbVars, setup, at, sql, stmts, program, early, crashes>>

\* Mutation: the directory is left to setup.
Mkdir_bySetup ==
    /\ pc = "mkdir" /\ pc' = "reopen"
    /\ basedir' = (basedir \/ setup)
    /\ UNCHANGED <<tables, rows, setup, at, sql, open, stmts, program, early, crashes>>

Mkdir ==
    /\ pc = "mkdir" /\ pc' = "reopen"
    /\ basedir' = TRUE
    /\ UNCHANGED <<tables, rows, setup, at, sql, open, stmts, program, early, crashes>>

\* dbcache_open on a new connection; the statements are prepared only without --setup.
Reopen ==
    /\ pc = "reopen" /\ pc' = IF setup THEN "running" ELSE "prepare"
    /\ sql' = 2 /\ open' = open \cup {2}
    /\ UNCHANGED <<dbVars, setup, at, stmts, program, early, crashes>>

\* drive_stop, dbcache_close.
Unmount ==
    /\ pc = "running"
    /\ Die /\ UNCHANGED <<dbVars, program, early, crashes>>

\* dbcache_mkdir works as soon as its statement does, root or no root.
MakeDirectory ==
    /\ pc = "running"
    /\ "dfs_entry" \in stmts.tables /\ stmts.conn \in open
    /\ Len(rows["dfs_entry"]) < MaxRows
    /\ rows' = [rows EXCEPT !["dfs_entry"] = Append(@, "directory")]
    /\ early' = (early \/ RowMissing("dfs_entry"))
    /\ UNCHANGED <<basedir, tables, procVars, program, crashes>>

\* The scan begins with dbcache_update of the root, whatever the Drive has answered and
\* whatever row 1 is: its parent is set to NULL.  Once a change token is stored there is no
\* scan, but then there has been one.  (The rows a scan adds have a parent, like those of
\* MakeDirectory, and need a row 1.)
UpdateRoot ==
    /\ pc = "running"
    /\ "dfs_entry" \in stmts.tables /\ stmts.conn \in open
    /\ rows["dfs_entry"] # <<>> /\ rows["dfs_entry"][1] = "directory"
    /\ rows' = [rows EXCEPT !["dfs_entry"][1] = "parentless"]
    /\ UNCHANGED <<basedir, tables, procVars, program, early, crashes>>

MainStep ==
    \/ OpenFirst \/ SchemaStep \/ VersionMismatch \/ Prepare \/ DriveSetup \/ Close
    \/ Mkdir \/ Reopen

Next ==
    \/ MainStep \/ Unmount \/ MakeDirectory \/ UpdateRoot \/ Crash \/ Upgrade
    \/ \E s \in BOOLEAN : Start(s)

Spec == Init /\ [][Next]_vars

(* The program runs, is ended some time, and is started with and without    *)
(* --setup again and again.                                                 *)
FairSpec ==
    /\ Spec
    /\ WF_vars(MainStep) /\ WF_vars(Unmount)
    /\ SF_vars(Start(TRUE)) /\ SF_vars(Start(FALSE))

-----------------------------------------------------------------------------
(* Correctness                                                              *)

Roots == {i \in DOMAIN rows["dfs_entry"] : rows["dfs_entry"][i] = "root"}

\* What the tests of dbcache_setup_schema ask for.
Complete == tables = AllTables /\ \A t \in AllTables : ~RowMissing(t)

\* However often setup was cut short and repeated there is one token, one change and one
\* version, and no second "/" is inserted (dbcache_setup_schema).  "/" is row 1 and the only
\* row without a parent, as the rest of the code takes it to be, unless a directory was made
\* in a half made table before.
OneOfEach ==
    /\ \A t \in AllTables \ {"dfs_entry"} : Len(rows[t]) <= 1
    /\ Cardinality(Roots) <= 1
    /\ ~early => Roots \subseteq {1} /\ Parentless \subseteq {1}

\* A setup that comes to its end has made every table and has found or made a row for every
\* test, whatever an earlier one left, and nothing is lost afterwards.  "/" is then row 1,
\* which dbcache_mkdir and dbcache_update take for the root, unless a directory was made in a
\* half made table: no setup ever repairs that (dbcache_setup_schema).
SetupCompletes ==
    setup /\ pc \notin {"open", "schema"} => Complete /\ (1 \in Roots <=> ~early)

\* While the mount is served the statements of every table there is are prepared on a
\* connection that is open, after --setup too, where they belong to the connection that
\* main has tried to close (main, dbcache_setup, dbcache_close).
StatementsUsable ==
    pc = "running" => stmts.tables = tables /\ stmts.conn \in open

\* Who tries both ways gets a complete database in the end, or one of another version than
\* the program: --setup alone never makes the directory it needs (main).
Installed == <>(Complete \/ (rows["dfs_version"] # <<>> /\ rows["dfs_version"][1] # program))

=============================================================================
