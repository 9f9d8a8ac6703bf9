------------------------------ MODULE DbCache ------------------------------
(***************************************************************************)
(* The SQLite metadata cache of drive-fuse-sync (src/src/dbcache.c): the   *)
(* table dfs_entry, one row for every directory entry the mount shows, and *)
(* the one-row table dfs_change, which holds the Drive change token.       *)
(*                                                                         *)
(* Here every dbcache_* function is one atomic step.  No statement deletes *)
(* a row, so the ids are 1, 2, ... and the table is a sequence: the row    *)
(* with id i is entries[i].  Row 1 is the root of the mount.               *)
(***************************************************************************)
EXTENDS Integers, Sequences, SequencesExt

CONSTANTS
    Uuids,      \* the ids Google Drive gives its files
    Root,       \* the Drive id of "My Drive", what the alias "root" stands for
    Names,      \* the file names
    RootName,   \* "/", the name of row 1
    Tokens,     \* the change tokens Drive hands out
    Empty,      \* the C string ""
    Null        \* SQL NULL

ASSUME DbAssumption ==
    /\ Root \in Uuids
    /\ Empty # Null /\ Null \notin Nat
    /\ {Empty, Null} \cap (Uuids \cup Names \cup Tokens) = {}
    /\ RootName \notin Names \cup {Empty, Null}

VARIABLES
    entries,    \* dfs_entry
    change      \* dfs_change.id, Empty until a whole scan has been recorded

tableVars == <<entries, change>>

Dir == 1
File == 2

Row == [uuid : Uuids \cup {Empty, Null}, name : Names \cup {RootName},
        type : {Dir, File}, sync : {-1, 0, 1}, parent : Nat \cup {Null}]

RootRow == [uuid |-> Null, name |-> RootName, type |-> Dir, sync |-> 0, parent |-> Null]

TableTypeOK == entries \in Seq(Row) /\ change \in Tokens \cup {Empty}

TableInit == entries = <<RootRow>> /\ change = Empty

-----------------------------------------------------------------------------
(* The queries.  Where several rows match, the code takes the first row of  *)
(* the result, which the index on the column yields in the order of the ids.*)

ByUuid(u) == {i \in DOMAIN entries : entries[i].uuid = u}

ByNamePar(n, p) == {i \in DOMAIN entries : entries[i].name = n /\ entries[i].parent = p}

ByPar(p) == {i \in DOMAIN entries : entries[i].parent = p}

First(ids) == CHOOSE i \in ids : \A j \in ids : i <= j

\* The id a path leads to from the root, 0 standing for -ENOENT.
FindByPath(path) ==
    FoldLeft(LAMBDA id, n : IF id = 0 \/ ByNamePar(n, id) = {} THEN 0 ELSE First(ByNamePar(n, id)),
             1, path)

\* The ids dbcache_listdir passes to its callback.
Listdir(path) == IF FindByPath(path) = 0 THEN {} ELSE ByPar(FindByPath(path))

-----------------------------------------------------------------------------
(* dbcache_update, called for every file a scan meets.  "f" is what Drive   *)
(* answered about the file.                                                 *)

Answers == [uuid : Uuids \cup {Empty}, name : Names \cup {RootName, Empty},
            parent : Uuids \cup {Empty}, kind : {"folder", "file", "native"}]

NewRow(f, p) ==
    [uuid |-> f.uuid, name |-> f.name, type |-> IF f.kind = "folder" THEN Dir ELSE File,
     sync |-> 1, parent |-> p]

\* Mutations: UPDATE forgets the parent, or resets sync.
updbyid_keepsParent(u, p, id) == entries' = [entries EXCEPT ![id].uuid = u]
updbyid_setsSync(u, p, id) ==
    entries' = [entries EXCEPT ![id] =
        [uuid |-> u, name |-> @.name, type |-> @.type, sync |-> 1, parent |-> p]]

\* UPDATE dfs_entry SET uuid = ?, parent = ? WHERE id = ?
updbyid(u, p, id) ==
    entries' = [entries EXCEPT ![id] =
        [uuid |-> u, name |-> @.name, type |-> @.type, sync |-> @.sync, parent |-> p]]

\* Mutation: a file without a parent is inserted like any other, at the top.
UpdateRoot_inserts(f) == f.parent = Empty /\ entries' = Append(entries, NewRow(f, 1))

\* An answer without a parent is taken for the root's.
UpdateRoot(f) ==
    /\ f.parent = Empty
    /\ updbyid(f.uuid, Null, 1)

\* A known file: of all Drive says, only its parent is brought up to date.
MoveEntry(f) ==
    /\ f.parent # Empty
    /\ ByUuid(f.uuid) # {}
    /\ ByUuid(f.parent) # {}
    /\ updbyid(f.uuid, First(ByUuid(f.parent)), First(ByUuid(f.uuid)))

\* Mutation: the row is inserted without looking for the uuid first.
InsertEntry_blindly(f) ==
    /\ f.parent # Empty
    /\ ByUuid(f.parent) # {}
    /\ entries' = Append(entries, NewRow(f, First(ByUuid(f.parent))))

InsertEntry(f) ==
    /\ f.parent # Empty
    /\ ByUuid(f.uuid) = {}
    /\ ByUuid(f.parent) # {}
    /\ entries' = Append(entries, NewRow(f, First(ByUuid(f.parent))))

\* Mutation: a file whose parent has no row goes to the top.
RejectOrphan_atRoot(f) ==
    /\ f.parent # Empty
    /\ ByUuid(f.parent) = {}
    /\ entries' = IF ByUuid(f.uuid) = {} THEN Append(entries, NewRow(f, 1)) ELSE entries

\* A file whose parent has no row is refused (rc = -1, which recurse ignores).
RejectOrphan(f) ==
    /\ f.parent # Empty
    /\ ByUuid(f.parent) = {}
    /\ UNCHANGED entries

dbcache_update(f) ==
    /\ UpdateRoot(f) \/ MoveEntry(f) \/ InsertEntry(f) \/ RejectOrphan(f)
    /\ UNCHANGED change

-----------------------------------------------------------------------------
(* dbcache_mkdir and dbcache_rmdir, called by FUSE.  They read the id of    *)
(* the directory they walk into from a column that is not in the result, so *)
(* it is always 0, and they never advance to the next component: below the  *)
(* top level both act on the name of the first component under parent 0.    *)

WalkFails(path) == Len(path) > 1 /\ ByNamePar(path[1], 1) = {}

ParentReached(path) == IF Len(path) = 1 THEN 1 ELSE 0

LocalRow(n, p) == [uuid |-> Null, name |-> n, type |-> Dir, sync |-> 0, parent |-> p]

dbcache_mkdir(path) ==
    /\ entries' = IF WalkFails(path) THEN entries
                  ELSE Append(entries, LocalRow(path[1], ParentReached(path)))
    /\ UNCHANGED change

RmdirMatches(path) ==
    IF WalkFails(path) THEN {} ELSE ByNamePar(path[1], ParentReached(path))

\* Mutation: whatever bears the name is marked, without the test for ENOTDIR.
dbcache_rmdir_anything(path) ==
    /\ entries' = IF RmdirMatches(path) = {} THEN entries
                  ELSE [entries EXCEPT ![First(RmdirMatches(path))].sync = -1]
    /\ UNCHANGED change

\* The row of a directory is kept, with sync -1; anything else is -ENOTDIR.
dbcache_rmdir(path) ==
    LET id == First(RmdirMatches(path))
    IN  /\ entries' = IF RmdirMatches(path) = {} \/ entries[id].type # Dir THEN entries
                      ELSE [entries EXCEPT ![id].sync = -1]
        /\ UNCHANGED change

dbcache_change_store(t) == change' = t /\ UNCHANGED entries

=============================================================================
