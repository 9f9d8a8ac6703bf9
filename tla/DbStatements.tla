---------------------------- MODULE DbStatements ----------------------------
(***************************************************************************)
(* The functions of the metadata cache (src/src/dbcache.c) statement by    *)
(* statement.  DbCache takes each of them for one atomic step; here they   *)
(* are what they are, a dozen calls into SQLite each, made by the Drive    *)
(* thread and by the threads of libfuse on one connection and one set of   *)
(* prepared statements.  dbcache_update, _findbypath and _listdir hold     *)
(* dbcache_mutex all the way; dbcache_mkdir and _rmdir hold nothing.       *)
(*                                                                         *)
(* SQLite serialises the calls on a connection.  A prepared statement      *)
(* keeps its parameters over a reset; a parameter cannot be bound while    *)
(* the statement stands on a row or has come to its end (SQLITE_MISUSE,    *)
(* which nobody looks at); and a step at the end starts all over again.    *)
(***************************************************************************)
EXTENDS DbCache, FiniteSets

CONSTANTS
    Workers,        \* the threads of libfuse
    DriveThread,
    Nobody,
    Tables,         \* what dfs_entry may hold at first
    Files,          \* the answers dbcache_update is called with
    Paths,          \* the paths FUSE is asked about
    MaxUpdates,     \* bounds: how many calls the Drive thread makes,
    MaxCalls        \*   and each thread of libfuse

Threads == Workers \cup {DriveThread}

\* A table as scans and calls that never met leave it (TableInv and TombstonesAreFolders of
\* DriveSync): row 1 is the root and no other row is, a Drive file has one row, and only
\* directories are marked.
Settled(T) ==
    /\ T # <<>> /\ T[1].parent = Null /\ T[1].name = RootName /\ T[1].uuid \in {Null, Empty, Root}
    /\ \A i \in DOMAIN T \ {1} : T[i].uuid \in {Null} \cup (Uuids \ {Root})
    /\ \A i, j \in DOMAIN T : T[i].uuid = T[j].uuid /\ T[i].uuid \in Uuids => i = j
    /\ \A i \in DOMAIN T : T[i].sync = -1 => T[i].type = Dir /\ i # 1

ASSUME StatementsAssumption ==
    /\ DriveThread \notin Workers /\ Nobody \notin Threads
    /\ Tables \subseteq Seq(Row) /\ \A T \in Tables : Settled(T)
    /\ Files \subseteq Answers
    /\ \A file \in Files :        \* only the root, or no file at all, is without a parent
          IF file.parent = Empty THEN file.uuid \in {Empty, Root}
          ELSE file.uuid \in Uuids \ {Root} /\ file.name # Empty
    /\ Paths \subseteq Seq(Names) \ {<<>>}
    /\ {MaxUpdates, MaxCalls} \subseteq Nat

VARIABLES
    selbynampar,    \* SELECT ... WHERE name = ? AND parent = ?, and the row it stands on
    insertentry,    \* INSERT INTO dfs_entry ...
    updsyncdelid,   \* UPDATE dfs_entry SET sync = -1 WHERE id = ?
    dbcache_mutex,
    frame,          \* of each thread, its call and where it is in it
    calls,          \* how many calls it has begun
    seen,           \* history: what its call, made atomically, would have done at each
                    \*   moment since it began
    disturbed,      \* history: an unlocked call has touched a statement it is using
    overlapped      \* history: this has happened to anyone

stmtVars == <<selbynampar, insertentry, updsyncdelid>>
vars == <<tableVars, stmtVars, dbcache_mutex, frame, calls, seen, disturbed, overlapped>>

Ready == "ready"    \* reset: parameters may be bound
OnRow == "row"
Halted == "halted"

Idle == [pc |-> "idle", op |-> "none", arg |-> <<>>, depth |-> 0, parent |-> 0, id |-> 0,
         result |-> <<>>]

Init ==
    /\ entries \in Tables /\ change = Empty
    /\ selbynampar = [run |-> Ready, name |-> Null, parent |-> Null, row |-> 0]
    /\ insertentry = [run |-> Ready, uuid |-> Null, name |-> Null, type |-> Null, sync |-> Null,
                      parent |-> Null]
    /\ updsyncdelid = [run |-> Ready, id |-> Null]
    /\ dbcache_mutex = Nobody
    /\ frame = [t \in Threads |-> Idle]
    /\ calls = [t \in Threads |-> 0]
    /\ seen = [t \in Threads |-> {}]
    /\ disturbed = [t \in Threads |-> FALSE]
    /\ overlapped = FALSE

-----------------------------------------------------------------------------
(* What a call does when nothing comes between: the id it finds, the ids it *)
(* lists, the row it inserts, marks or files under another.                 *)

None == <<"none">>

UpdateOutcome(f) ==
    IF f.parent = Empty THEN <<"file", 1, Null>>
    ELSE IF ByUuid(f.parent) = {} THEN None
    ELSE IF ByUuid(f.uuid) = {} THEN <<"insert", NewRow(f, First(ByUuid(f.parent)))>>
    ELSE <<"file", First(ByUuid(f.uuid)), First(ByUuid(f.parent))>>

\* Once the first name of the path has been found: mkdir and rmdir go on from there
\* without looking at it again.
MkdirOutcome(path) == <<"insert", LocalRow(path[1], ParentReached(path))>>

RmdirOutcome(path) ==
    LET ids == ByNamePar(path[1], ParentReached(path))
    IN  IF ids = {} \/ entries[First(ids)].type # Dir THEN None ELSE <<"mark", First(ids)>>

Walked == <<"walked">>

Outcome(op, arg) ==
    CASE op = "find"   -> <<"found", FindByPath(arg)>>
      [] op = "list"   -> <<"listed", Listdir(arg)>>
      [] op = "update" -> UpdateOutcome(arg)
      [] op = "mkdir"  -> MkdirOutcome(arg)
      [] op = "rmdir"  -> RmdirOutcome(arg)

\* What a call that begins and ends now does.
AtOnce(op, arg) ==
    IF op \notin {"mkdir", "rmdir"} THEN {Outcome(op, arg)}
    ELSE IF WalkFails(arg) THEN {None} ELSE {Walked, Outcome(op, arg)}

Locks(op) == op \in {"update", "find", "list"}

UsesNampar(pc) == pc \in {"bindname", "bindparent", "step", "readid", "readtype"}
UsesInsert(pc) == pc \in {"binduuid", "bindfname", "binddata", "bindfparent", "insert"}
UsesMark(pc) == pc \in {"bindid", "mark"}

Using(t, s) ==
    \/ s = "selbynampar" /\ UsesNampar(frame[t].pc)
    \/ s = "insertentry" /\ UsesInsert(frame[t].pc)
    \/ s = "updsyncdelid" /\ UsesMark(frame[t].pc)

\* A thread whose statement is touched while it uses it, unless both hold the mutex.
Victims(t, s) ==
    {u \in Threads \ {t} : Using(u, s) /\ ~(Locks(frame[t].op) /\ Locks(frame[u].op))}

-----------------------------------------------------------------------------
(* Steps of thread t in its frame, and what they leave alone.               *)

At(t, pc) == frame[t].pc = pc

Goto(t, to) == frame' = [frame EXCEPT ![t].pc = to]

Finish(t, result) == frame' = [frame EXCEPT ![t].pc = "return", ![t].result = result]

KeepCalls == UNCHANGED <<dbcache_mutex, calls>>
KeepTable == UNCHANGED tableVars

\* Touching statement s.
Touch(t, s) ==
    /\ disturbed' = [u \in Threads |-> disturbed[u] \/ u \in Victims(t, s)]
    /\ overlapped' = (overlapped \/ Victims(t, s) # {})

TouchNothing == UNCHANGED <<disturbed, overlapped>>

\* Where a call goes when it has the mutex, or need not have it.
Entry(op, arg) ==
    CASE op = "update" -> "known"
      [] op = "mkdir" /\ Len(arg) = 1 -> "resetinsert"
      [] op = "list" /\ Len(arg) = 0 -> "rows"
      [] op = "find" /\ Len(arg) = 0 -> "root"
      [] OTHER -> "reset"

Begin(t, op, arg) ==
    /\ At(t, "idle") 
    /\ calls[t] < IF t = DriveThread THEN MaxUpdates ELSE MaxCalls
    /\ frame' = [frame EXCEPT ![t] =
          [Idle EXCEPT !.pc = IF Locks(op) THEN "lock" ELSE Entry(op, arg),
                       !.op = op, !.arg = arg, !.depth = 1, !.parent = 1,
                       !.result = IF op = "list" THEN <<"listed", {}>> ELSE <<>>]]
    /\ calls' = [calls EXCEPT ![t] = @ + 1]
    /\ disturbed' = [disturbed EXCEPT ![t] = FALSE]
    /\ UNCHANGED <<dbcache_mutex, stmtVars, tableVars, overlapped>>

\* Mutation: the mutex is not taken.
Lock_without(t) ==
    /\ At(t, "lock")
    /\ Goto(t, Entry(frame[t].op, frame[t].arg))
    /\ UNCHANGED <<dbcache_mutex, calls, stmtVars, tableVars>> /\ TouchNothing

Lock(t) ==
    /\ At(t, "lock") /\ dbcache_mutex = Nobody
    /\ dbcache_mutex' = t
    /\ Goto(t, Entry(frame[t].op, frame[t].arg))
    /\ UNCHANGED <<calls, stmtVars, tableVars>> /\ TouchNothing

\* Mutation: a path that is not there is answered without giving the mutex back.
Return_earlyKeepsLock(t) ==
    /\ At(t, "return")
    /\ dbcache_mutex' = IF Locks(frame[t].op) /\ frame[t].result # <<"found", 0>>
                        THEN Nobody ELSE dbcache_mutex
    /\ frame' = [frame EXCEPT ![t] = Idle]
    /\ UNCHANGED <<calls, stmtVars, tableVars>> /\ TouchNothing

Return(t) ==
    /\ At(t, "return")
    /\ dbcache_mutex' = IF Locks(frame[t].op) THEN Nobody ELSE dbcache_mutex
    /\ frame' = [frame EXCEPT ![t] = Idle]
    /\ UNCHANGED <<calls, stmtVars, tableVars>> /\ TouchNothing

-----------------------------------------------------------------------------
(* Looking up a name in a directory.  mkdir and rmdir look up the first     *)
(* name of their path every time, mkdir once if there are more names than   *)
(* one, rmdir once or twice; the others look up name after name.            *)

NameOf(c) == IF Locks(c.op) THEN c.arg[c.depth] ELSE c.arg[1]

LastLookup(c) == c.depth = IF c.op = "rmdir" /\ Len(c.arg) > 1 THEN 2 ELSE Len(c.arg)

Reset(t) ==
    /\ At(t, "reset") /\ Goto(t, "bindname")
    /\ selbynampar' = [selbynampar EXCEPT !.run = Ready, !.row = 0]
    /\ Touch(t, "selbynampar") /\ KeepCalls /\ KeepTable
    /\ UNCHANGED <<insertentry, updsyncdelid>>

BindName(t) ==
    /\ At(t, "bindname") /\ Goto(t, "bindparent")
    /\ selbynampar' = IF selbynampar.run = Ready
                      THEN [selbynampar EXCEPT !.name = NameOf(frame[t])] ELSE selbynampar
    /\ Touch(t, "selbynampar") /\ KeepCalls /\ KeepTable
    /\ UNCHANGED <<insertentry, updsyncdelid>>

BindParent(t) ==
    /\ At(t, "bindparent") /\ Goto(t, "step")
    /\ selbynampar' = IF selbynampar.run = Ready
                      THEN [selbynampar EXCEPT !.parent = frame[t].parent] ELSE selbynampar
    /\ Touch(t, "selbynampar") /\ KeepCalls /\ KeepTable
    /\ UNCHANGED <<insertentry, updsyncdelid>>

\* The rows a step has yet to come to: those behind the current one, or all of them.
RowsAhead ==
    {i \in ByNamePar(selbynampar.name, selbynampar.parent) :
        selbynampar.run = OnRow => i > selbynampar.row}

Step(t) ==
    /\ At(t, "step")
    /\ selbynampar' =
          IF RowsAhead = {} THEN [selbynampar EXCEPT !.run = Halted, !.row = 0]
          ELSE [selbynampar EXCEPT !.run = OnRow, !.row = First(RowsAhead)]
    /\ IF RowsAhead # {} THEN Goto(t, "readid")
       ELSE Finish(t, CASE frame[t].op = "find" -> <<"found", 0>>
                        [] frame[t].op = "list" -> frame[t].result
                        [] OTHER -> None)
    /\ Touch(t, "selbynampar") /\ KeepCalls /\ KeepTable
    /\ UNCHANGED <<insertentry, updsyncdelid>>

\* The columns are read from wherever the statement then stands, 0 if on no row.
ReadId(t) ==
    LET c == frame[t] IN
    /\ At(t, "readid")
    /\ frame' = [frame EXCEPT ![t] =
          CASE c.op = "mkdir" -> [c EXCEPT !.pc = "resetinsert", !.parent = 0]
            [] c.op = "rmdir" /\ LastLookup(c) -> [c EXCEPT !.pc = "readtype", !.id = selbynampar.row]
            [] c.op = "rmdir" /\ ~LastLookup(c) -> [c EXCEPT !.pc = "reset", !.parent = 0, !.depth = 2]
            [] c.op = "find" /\ LastLookup(c) ->
                  [c EXCEPT !.pc = "return", !.result = <<"found", selbynampar.row>>]
            [] c.op = "list" /\ LastLookup(c) -> [c EXCEPT !.pc = "rows", !.parent = selbynampar.row]
            [] OTHER -> [c EXCEPT !.pc = "reset", !.parent = selbynampar.row, !.depth = @ + 1]]
    /\ UNCHANGED stmtVars /\ TouchNothing /\ KeepCalls /\ KeepTable

\* rmdir: the type of the row, which must be a directory's.
ReadType(t) ==
    /\ At(t, "readtype")
    /\ IF selbynampar.row # 0 /\ entries[selbynampar.row].type = Dir
       THEN Goto(t, "resetmark") ELSE Finish(t, None)
    /\ UNCHANGED stmtVars /\ TouchNothing /\ KeepCalls /\ KeepTable

-----------------------------------------------------------------------------
(* Marking and listing.                                                     *)

ResetMark(t) ==
    /\ At(t, "resetmark") /\ Goto(t, "bindid")
    /\ updsyncdelid' = [updsyncdelid EXCEPT !.run = Ready]
    /\ Touch(t, "updsyncdelid") /\ KeepCalls /\ KeepTable
    /\ UNCHANGED <<selbynampar, insertentry>>

BindId(t) ==
    /\ At(t, "bindid") /\ Goto(t, "mark")
    /\ updsyncdelid' = IF updsyncdelid.run = Ready
                       THEN [updsyncdelid EXCEPT !.id = frame[t].id] ELSE updsyncdelid
    /\ Touch(t, "updsyncdelid") /\ KeepCalls /\ KeepTable
    /\ UNCHANGED <<selbynampar, insertentry>>

Mark(t) ==
    /\ At(t, "mark") /\ Finish(t, <<"mark", updsyncdelid.id>>)
    /\ entries' = IF updsyncdelid.id \in DOMAIN entries
                  THEN [entries EXCEPT ![updsyncdelid.id].sync = -1] ELSE entries
    /\ updsyncdelid' = [updsyncdelid EXCEPT !.run = Halted]
    /\ Touch(t, "updsyncdelid") /\ KeepCalls
    /\ UNCHANGED <<change, selbynampar, insertentry>>

\* findbypath of "/": selbyid is used nowhere else, and row 1 is there.
FindRoot(t) ==
    /\ At(t, "root") /\ Finish(t, <<"found", 1>>)
    /\ UNCHANGED stmtVars /\ TouchNothing /\ KeepCalls /\ KeepTable

\* selbypar is listdir's alone.  It yields the rows in the order of their ids, a row
\* that is inserted meanwhile, the last of them all, included.
NextRow(t) ==
    LET ahead == {i \in ByPar(frame[t].parent) : i > frame[t].id}
    IN  /\ At(t, "rows")
        /\ IF ahead = {} THEN Goto(t, "return")
           ELSE frame' = [frame EXCEPT ![t].id = First(ahead),
                                       ![t].result[2] = @ \cup {First(ahead)}]
        /\ UNCHANGED stmtVars /\ TouchNothing /\ KeepCalls /\ KeepTable

-----------------------------------------------------------------------------
(* dbcache_update: selbyuuid and updbyid are its own, so a lookup or an     *)
(* update with them is one step.                                            *)

\* The row of the file itself, the root's if it has no parent.
LookupUuid(t) ==
    LET file == frame[t].arg IN
    /\ At(t, "known")
    /\ frame' = [frame EXCEPT
          ![t].id = IF file.parent = Empty THEN 1
                    ELSE IF ByUuid(file.uuid) = {} THEN 0 ELSE First(ByUuid(file.uuid)),
          ![t].parent = IF file.parent = Empty THEN Null ELSE @,
          ![t].pc = IF file.parent = Empty THEN "file" ELSE "parent"]
    /\ UNCHANGED stmtVars /\ TouchNothing /\ KeepCalls /\ KeepTable

\* Mutation: the id of the parent overwrites the file's.
LookupParent_asId(t) ==
    LET p == ByUuid(frame[t].arg.parent) IN
    /\ At(t, "parent")
    /\ IF p = {} THEN Finish(t, None)
       ELSE frame' = [frame EXCEPT ![t].parent = First(p), ![t].id = First(p),
                          ![t].pc = IF frame[t].id = 0 THEN "resetinsert" ELSE "file"]
    /\ UNCHANGED stmtVars /\ TouchNothing /\ KeepCalls /\ KeepTable

LookupParent(t) ==
    LET p == ByUuid(frame[t].arg.parent) IN
    /\ At(t, "parent")
    /\ IF p = {} THEN Finish(t, None)
       ELSE frame' = [frame EXCEPT ![t].parent = First(p),
                          ![t].pc = IF frame[t].id = 0 THEN "resetinsert" ELSE "file"]
    /\ UNCHANGED stmtVars /\ TouchNothing /\ KeepCalls /\ KeepTable

FileEntry(t) ==
    /\ At(t, "file")
    /\ updbyid(frame[t].arg.uuid, frame[t].parent, frame[t].id)
    /\ Finish(t, <<"file", frame[t].id, frame[t].parent>>)
    /\ UNCHANGED <<change, stmtVars>> /\ TouchNothing /\ KeepCalls

-----------------------------------------------------------------------------
(* insertentry, by update with the mutex and by mkdir without.  The columns *)
(* without a variable of their own are bound with the type and sync.        *)

RowOf(c) ==
    IF c.op = "update" THEN NewRow(c.arg, c.parent) ELSE LocalRow(c.arg[1], c.parent)

\* Mutation: the statement is used as the last call left it.
ResetInsert_missing(t) ==
    /\ At(t, "resetinsert") /\ Goto(t, "binduuid")
    /\ Touch(t, "insertentry") /\ KeepCalls /\ KeepTable
    /\ UNCHANGED stmtVars

ResetInsert(t) ==
    /\ At(t, "resetinsert") /\ Goto(t, "binduuid")
    /\ insertentry' = [insertentry EXCEPT !.run = Ready]
    /\ Touch(t, "insertentry") /\ KeepCalls /\ KeepTable
    /\ UNCHANGED <<selbynampar, updsyncdelid>>

\* A text is bound by a pointer into the frame of the caller (SQLITE_STATIC): a statement that
\* is executed after the one who bound it has returned, which only torn rows come of, may
\* read anything there; the model has it read what was bound.
BindInsert(t, from, to, bound) ==
    /\ At(t, from) /\ Goto(t, to)
    /\ insertentry' = IF insertentry.run = Ready THEN bound ELSE insertentry
    /\ Touch(t, "insertentry") /\ KeepCalls /\ KeepTable
    /\ UNCHANGED <<selbynampar, updsyncdelid>>

BindFields(t) ==
    LET row == RowOf(frame[t]) IN
    \/ BindInsert(t, "binduuid", "bindfname", [insertentry EXCEPT !.uuid = row.uuid])
    \/ BindInsert(t, "bindfname", "binddata", [insertentry EXCEPT !.name = row.name])
    \/ BindInsert(t, "binddata", "bindfparent",
                  [insertentry EXCEPT !.type = row.type, !.sync = row.sync])
    \/ BindInsert(t, "bindfparent", "insert", [insertentry EXCEPT !.parent = row.parent])

BoundRow == [uuid |-> insertentry.uuid, name |-> insertentry.name, type |-> insertentry.type,
             sync |-> insertentry.sync, parent |-> insertentry.parent]

Insert(t) ==
    /\ At(t, "insert") /\ Finish(t, <<"insert", BoundRow>>)
    /\ entries' = Append(entries, BoundRow)
    /\ insertentry' = [insertentry EXCEPT !.run = Halted]
    /\ Touch(t, "insertentry") /\ KeepCalls
    /\ UNCHANGED <<change, selbynampar, updsyncdelid>>

-----------------------------------------------------------------------------
(* The kernel holds a directory's lock while it makes or removes a name in  *)
(* it, and a removed directory's own.                                       *)

DirOf(path) == SubSeq(path, 1, Len(path) - 1)

KernelLocks(op, path) == IF op = "rmdir" THEN {DirOf(path), path} ELSE {DirOf(path)}

KernelAllows(op, path) ==
    \A w \in Workers :
        frame[w].op \in {"mkdir", "rmdir"} =>
            KernelLocks(op, path) \cap KernelLocks(frame[w].op, frame[w].arg) = {}

\* The FUSE operations hand the path on and, in a callback that has no effect on the cache,
\* what they find back to the kernel.
fuseapi_getattr(w, path) == Begin(w, "find", path)
fuseapi_readdir(w, path) == Begin(w, "list", path)
fuseapi_mkdir(w, path) == KernelAllows("mkdir", path) /\ Begin(w, "mkdir", path)
fuseapi_rmdir(w, path) == KernelAllows("rmdir", path) /\ Begin(w, "rmdir", path)

FuseCall(w) ==
    \/ \E path \in Paths \cup {<<>>} : fuseapi_getattr(w, path) \/ fuseapi_readdir(w, path)
    \/ \E path \in Paths : fuseapi_mkdir(w, path) \/ fuseapi_rmdir(w, path)

DriveCall == \E f \in Files : Begin(DriveThread, "update", f)

InCall(t) ==
    \/ Lock(t) \/ Return(t)
    \/ Reset(t) \/ BindName(t) \/ BindParent(t) \/ Step(t) \/ ReadId(t) \/ ReadType(t)
    \/ ResetMark(t) \/ BindId(t) \/ Mark(t)
    \/ FindRoot(t) \/ NextRow(t)
    \/ LookupUuid(t) \/ LookupParent(t) \/ FileEntry(t)
    \/ ResetInsert(t) \/ BindFields(t) \/ Insert(t)

\* Every step shows the calls under way one more state.
Observe ==
    seen' = [t \in Threads |->
                IF frame'[t].pc = "idle" THEN {}
                ELSE seen[t] \cup AtOnce(frame[t].op, frame[t].arg)'
                     \cup {Outcome(frame[t].op, frame[t].arg)' : w \in seen[t] \cap {Walked}}]

\* All calls have been made and have returned.  Any other state without a step, such as one
\* after a call that kept the mutex, is a deadlock.
Finished ==
    /\ \A t \in Threads : At(t, "idle")
    /\ UNCHANGED vars

Next ==
    \/ (DriveCall \/ (\E w \in Workers : FuseCall(w)) \/ (\E t \in Threads : InCall(t))) /\ Observe
    \/ Finished

Spec == Init /\ [][Next]_vars

-----------------------------------------------------------------------------
(* Correctness                                                             *)

PCs == {"idle", "lock", "return", "root", "rows", "known", "parent", "file", "reset", "bindname",
        "bindparent", "step", "readid", "readtype", "resetmark", "bindid", "mark",
        "resetinsert", "binduuid", "bindfname", "binddata", "bindfparent", "insert"}

\* Types, and what the mutex is for: whoever holds it is in the middle of a locked call.
TypeOK ==
    /\ TableTypeOK
    /\ selbynampar.run \in {Ready, OnRow, Halted} /\ selbynampar.row \in {0} \cup DOMAIN entries
    /\ insertentry.run \in {Ready, Halted} /\ updsyncdelid.run \in {Ready, Halted}
    /\ \A t \in Threads :
          /\ frame[t].pc \in PCs /\ frame[t].id \in Nat /\ frame[t].parent \in Nat \cup {Null}
          /\ dbcache_mutex = t <=> Locks(frame[t].op) /\ frame[t].pc \notin {"idle", "lock"}
    /\ dbcache_mutex \in Threads \cup {Nobody}

\* A call no statement of which was touched by an unlocked call while it used it does and
\* answers what it would have done and answered all at once at some moment since it began
\* (dbcache_update, _findbypath, _listdir, _mkdir, _rmdir).  The walk of the last two to the
\* first name of a longer path may have been right at an earlier moment than the rest.
LoneCallsLinear ==
    \A t \in Threads : At(t, "return") /\ ~disturbed[t] => frame[t].result \in seen[t]

\* As long as no two calls have met in a statement there is one row at most for a Drive
\* file, and rmdir's mark is on directories only, however the calls are interleaved.
LoneTableSound ==
    ~overlapped =>
        /\ \A u \in Uuids : Cardinality(ByUuid(u)) <= 1
        /\ \A i \in DOMAIN entries : entries[i].sync = -1 => entries[i].type = Dir /\ i # 1

\* Calls that do meet in a statement may write nonsense into new rows, and set marks at
\* random, but no existing row takes another name, type or (but for the root) uuid, and
\* only rows of Drive files are filed elsewhere.
RowsKeepIdentity ==
    [][\A i \in DOMAIN entries :
          /\ i \in DOMAIN entries'
          /\ entries'[i].name = entries[i].name /\ entries'[i].type = entries[i].type
          /\ i # 1 => entries'[i].uuid = entries[i].uuid
          /\ entries'[i].parent # entries[i].parent => entries[i].uuid # Null]_vars

=============================================================================
