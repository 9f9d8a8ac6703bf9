------------------------- MODULE DbStatementsProofs -------------------------
(***************************************************************************)
(* For any number of threads, any paths and any interleaving of their      *)
(* calls into SQLite: the table stays a table, the mutex is held by        *)
(* exactly the locked call that is under way, and no entry turns into      *)
(* another, however calls without the mutex meet those with it.            *)
(*                                                                         *)
(* Why a torn row is a row all the same: a statement that has come to its  *)
(* end has all its parameters (Parameters), and one that has been reset is *)
(* given, by whichever thread, all of them before it is executed (Bound).  *)
(* Why no entry turns into another: between its lookups and its UPDATE the *)
(* Drive thread has the row of the very file it was told about (Filing),   *)
(* and nobody else changes the uuid of a row.                              *)
(*                                                                         *)
(* And a call that meets nobody in a statement is as good as atomic, which *)
(* the second half proves in two steps.  LInv: a statement such a call is  *)
(* using holds what the call has given it and stands where it has left it  *)
(* (Lone), since whoever touches it disturbs the call; so what it inserts  *)
(* is its own row, and the file dbcache_update has not found is still not  *)
(* there when it inserts it (Stale: a mkdir that was disturbed may insert  *)
(* the uuid an earlier INSERT has left, of a file that has its row or is   *)
(* about to have it).                                                      *)
(* CInv: what the call has still to do is among what it would have done at *)
(* once at some moment since it began (Tells, of the history "seen").  The *)
(* directory a walk has come to is where the names so far lead (Trail) to  *)
(* the end of it, and a listing is whole up to the row it has come to      *)
(* (Listed): nothing is filed elsewhere under dbcache_mutex, and the rows  *)
(* mkdir adds are behind all others and hide none of them.                 *)
(***************************************************************************)
EXTENDS DbStatements, DbCacheProofs, FiniteSetTheorems

AnyName == Names \cup {RootName}

Root1 ==
    /\ entries # <<>>
    /\ entries[1].uuid = Null => entries[1].parent = Null

Selects ==
    /\ selbynampar = [run |-> selbynampar.run, name |-> selbynampar.name,
                      parent |-> selbynampar.parent, row |-> selbynampar.row]
    /\ selbynampar.run \in {Ready, OnRow, Halted}
    /\ selbynampar.row \in {0} \cup DOMAIN entries

Marks ==
    /\ updsyncdelid = [run |-> updsyncdelid.run, id |-> updsyncdelid.id]
    /\ updsyncdelid.run \in {Ready, Halted}

Parameters ==
    /\ insertentry = [run |-> insertentry.run, uuid |-> insertentry.uuid, name |-> insertentry.name,
                      type |-> insertentry.type, sync |-> insertentry.sync,
                      parent |-> insertentry.parent]
    /\ insertentry.run \in {Ready, Halted}
    /\ insertentry.uuid \in Uuids \cup {Empty, Null}
    /\ insertentry.parent \in Nat \cup {Null}
    /\ insertentry.run = Halted =>
           insertentry.name \in AnyName /\ insertentry.type \in {Dir, File}
           /\ insertentry.sync \in {-1, 0, 1}

Bound(c) ==
    /\ c.pc \in {"binddata", "bindfparent", "insert"} => insertentry.name \in AnyName
    /\ c.pc \in {"bindfparent", "insert"} =>
           insertentry.type \in {Dir, File} /\ insertentry.sync \in {-1, 0, 1}

Inserting(pc) == pc = "resetinsert" \/ UsesInsert(pc)

Ops == {"none", "find", "list", "mkdir", "rmdir", "update"}

FrameShape(c) ==
    c = [pc |-> c.pc, op |-> c.op, arg |-> c.arg, depth |-> c.depth, parent |-> c.parent,
         id |-> c.id, result |-> c.result]

CallType(t, c) ==
    /\ c.pc \in PCs /\ c.op \in Ops
    /\ c.id \in Nat /\ c.parent \in Nat \cup {Null}
    /\ c.pc = "idle" <=> c.op = "none"
    /\ c.op = "update" => t = DriveThread /\ c.arg \in Files
    /\ c.op \in {"mkdir", "rmdir"} => c.arg \in Paths
    /\ c.op \in {"find", "list"} => c.arg \in Paths \cup {<<>>}
    /\ c.pc = "lock" => Locks(c.op)
    /\ c.pc \in {"known", "parent", "file"} => c.op = "update"
    /\ Inserting(c.pc) => c.op \in {"update", "mkdir"}
    /\ Inserting(c.pc) /\ c.op = "update" => c.arg.parent # Empty

OwnRow(c) == c.id \in DOMAIN entries /\ entries[c.id].uuid = c.arg.uuid

Filing(c) ==
    /\ c.pc = "parent" => c.arg.parent # Empty /\ (c.id = 0 \/ OwnRow(c))
    /\ c.pc = "file" => IF c.arg.parent = Empty THEN c.id = 1 /\ c.parent = Null ELSE OwnRow(c)

CallOK(t) ==
    FrameShape(frame[t]) /\ CallType(t, frame[t]) /\ Bound(frame[t]) /\ Filing(frame[t])

Frames == DOMAIN frame = Threads /\ \A t \in Threads : CallOK(t)

InSection(c) == Locks(c.op) /\ c.pc \notin {"idle", "lock"}

Mutex ==
    /\ dbcache_mutex \in Threads \cup {Nobody}
    /\ \A t \in Threads : dbcache_mutex = t <=> InSection(frame[t])

Table == TableTypeOK /\ Root1

IInv == Table /\ Selects /\ Marks /\ Parameters /\ Frames /\ Mutex

-----------------------------------------------------------------------------
(* What a step of thread t does to the frames.                              *)

Others(t) == DOMAIN frame' = Threads /\ \A u \in Threads \ {t} : frame'[u] = frame[u]

Moves(t, to) ==
    /\ Others(t)
    /\ FrameShape(frame[t])'
    /\ frame[t].pc' = to
    /\ frame[t].op' = frame[t].op /\ frame[t].arg' = frame[t].arg
    /\ frame[t].depth' = frame[t].depth
    /\ frame[t].parent' = frame[t].parent /\ frame[t].id' = frame[t].id

LEMMA GotoMoves ==
    ASSUME Frames, NEW t \in Threads, NEW to, Goto(t, to)
    PROVE  Moves(t, to)
<1>1. FrameShape(frame[t]) /\ DOMAIN frame = Threads
    BY DEF Frames, CallOK
<1>2. Others(t) /\ frame'[t] = [frame[t] EXCEPT !.pc = to]
    BY <1>1 DEF Goto, Others
<1> QED BY <1>1, <1>2 DEF FrameShape, Moves

LEMMA FinishMoves ==
    ASSUME Frames, NEW t \in Threads, NEW r, Finish(t, r)
    PROVE  Moves(t, "return")
<1>1. FrameShape(frame[t]) /\ DOMAIN frame = Threads
    BY DEF Frames, CallOK
<1>2. Others(t) /\ frame'[t] = [[frame[t] EXCEPT !.pc = "return"] EXCEPT !.result = r]
    BY <1>1 DEF Finish, Others
<1> QED BY <1>1, <1>2 DEF FrameShape, Moves

ParametersKept ==
    /\ insertentry.name \in AnyName => insertentry'.name \in AnyName
    /\ insertentry.type \in {Dir, File} => insertentry'.type \in {Dir, File}
    /\ insertentry.sync \in {-1, 0, 1} => insertentry'.sync \in {-1, 0, 1}

UuidsKept == \A i \in DOMAIN entries : i \in DOMAIN entries' /\ entries'[i].uuid = entries[i].uuid

\* The other threads are where they were, and what they have bound or looked up stands.
LEMMA FramesStep ==
    ASSUME Frames, NEW t \in Threads, Others(t), CallOK(t)',
           ParametersKept, UuidsKept \/ t = DriveThread
    PROVE  Frames'
<1>1. ASSUME NEW u \in Threads \ {t} PROVE CallOK(u)'
    <2>1. CallOK(u) /\ frame'[u] = frame[u]
        BY <1>1 DEF Frames, Others
    <2>2. FrameShape(frame[u])' /\ CallType(u, frame[u])'
        BY <2>1 DEF CallOK, FrameShape, CallType
    <2>3. Bound(frame[u])'
        BY <2>1 DEF CallOK, Bound, ParametersKept
    <2>4. Filing(frame[u])'
        <3>1. CASE UuidsKept
            BY <2>1, <3>1 DEF CallOK, Filing, OwnRow, UuidsKept
        <3>2. CASE t = DriveThread
            BY <1>1, <2>1, <3>2 DEF CallOK, CallType, Filing
        <3> QED BY <3>1, <3>2
    <2> QED BY <2>2, <2>3, <2>4 DEF CallOK
<1> QED BY <1>1 DEF Frames, Others

LEMMA MutexStep ==
    ASSUME Mutex, NEW t \in Threads, Others(t), UNCHANGED dbcache_mutex,
           InSection(frame[t])' <=> InSection(frame[t])
    PROVE  Mutex'
<1>1. ASSUME NEW u \in Threads PROVE (dbcache_mutex = u <=> InSection(frame[u]))'
    <2>1. CASE u = t
        BY <2>1 DEF Mutex
    <2>2. CASE u # t
        BY <2>2 DEF Mutex, Others, InSection
    <2> QED BY <2>1, <2>2
<1> QED BY <1>1 DEF Mutex

\* A step in the middle of a call that leaves the table and the INSERT alone.
LEMMA Continue ==
    ASSUME IInv, NEW t \in Threads, NEW to \in PCs \ {"idle", "lock", "known", "parent", "file"},
           ~Inserting(to), Moves(t, to), frame[t].pc \notin {"idle", "lock"},
           UNCHANGED <<tableVars, insertentry, dbcache_mutex>>, Selects', Marks'
    PROVE  IInv'
<1>1. Table' /\ Parameters'
    BY DEF IInv, Table, TableTypeOK, Root1, tableVars, Parameters
<1>2. CallOK(t)'
    <2>1. CallOK(t)
        BY DEF IInv, Frames
    <2>2. CallType(t, frame[t])'
        BY <2>1 DEF CallOK, CallType, Moves
    <2>3. Bound(frame[t])'
        BY DEF Moves, Bound, Inserting, UsesInsert
    <2>4. Filing(frame[t])'
        BY DEF Moves, Filing
    <2> QED BY <2>2, <2>3, <2>4 DEF CallOK, Moves
<1>3. Frames'
    BY <1>2, FramesStep DEF IInv, Moves, ParametersKept, UuidsKept, tableVars
<1>4. Mutex'
    BY MutexStep DEF IInv, Moves, InSection
<1> QED BY <1>1, <1>3, <1>4 DEF IInv

-----------------------------------------------------------------------------
(* selbynampar                                                              *)

LEMMA NamesIds == TableTypeOK => \A n, p : ByNamePar(n, p) \in SUBSET DOMAIN entries
BY DEF ByNamePar

LEMMA FirstIsRow ==
    ASSUME TableTypeOK, NEW ids \in SUBSET DOMAIN entries, ids # {}
    PROVE  First(ids) \in ids /\ First(ids) \in DOMAIN entries /\ First(ids) \in Nat
<1>1. ids \in SUBSET Nat
    BY TableShape
<1> QED BY <1>1, FirstIsMember

LEMMA ResetStep == ASSUME IInv, NEW t \in Threads, Reset(t) PROVE IInv'
<1>1. Selects' /\ Marks'
    BY DEF IInv, Reset, Selects, Marks, KeepTable, tableVars
<1>2. Moves(t, "bindname")
    BY GotoMoves DEF IInv, Reset
<1> QED BY <1>1, <1>2, Continue DEF Reset, At, KeepTable, KeepCalls, PCs, Inserting, UsesInsert

LEMMA BindNameStep == ASSUME IInv, NEW t \in Threads, BindName(t) PROVE IInv'
<1>1. Selects' /\ Marks'
    BY DEF IInv, BindName, Selects, Marks, KeepTable, tableVars
<1>2. Moves(t, "bindparent")
    BY GotoMoves DEF IInv, BindName
<1> QED BY <1>1, <1>2, Continue DEF BindName, At, KeepTable, KeepCalls, PCs, Inserting, UsesInsert

LEMMA BindParentStep == ASSUME IInv, NEW t \in Threads, BindParent(t) PROVE IInv'
<1>1. Selects' /\ Marks'
    BY DEF IInv, BindParent, Selects, Marks, KeepTable, tableVars
<1>2. Moves(t, "step")
    BY GotoMoves DEF IInv, BindParent
<1> QED BY <1>1, <1>2, Continue DEF BindParent, At, KeepTable, KeepCalls, PCs, Inserting, UsesInsert

LEMMA StepStep == ASSUME IInv, NEW t \in Threads, Step(t) PROVE IInv'
<1>1. RowsAhead \in SUBSET DOMAIN entries
    BY NamesIds DEF IInv, Table, RowsAhead
<1>2. RowsAhead # {} => First(RowsAhead) \in DOMAIN entries
    BY <1>1, FirstIsRow DEF IInv, Table
<1>3. Selects' /\ Marks'
    BY <1>2 DEF IInv, Step, Selects, Marks, KeepTable, tableVars
<1>4. \E to \in {"readid", "return"} : Moves(t, to)
    BY GotoMoves, FinishMoves DEF IInv, Step
<1> QED BY <1>3, <1>4, Continue DEF Step, At, KeepTable, KeepCalls, PCs, Inserting, UsesInsert

\* The columns are read: of all fields only those of path lookups change.
LEMMA ReadIdStep == ASSUME IInv, NEW t \in Threads, ReadId(t) PROVE IInv'
<1> DEFINE c == frame[t]
<1>1. /\ CallOK(t) /\ c.pc = "readid" /\ DOMAIN frame = Threads
      /\ selbynampar.row \in Nat
    BY TableShape DEF IInv, Frames, ReadId, At, Selects, Table
<1>2. Others(t)
    BY <1>1 DEF ReadId, Others
<1>3. \/ c.op = "mkdir" /\ frame'[t] = [c EXCEPT !.pc = "resetinsert", !.parent = 0]
      \/ /\ \/ frame'[t] = [c EXCEPT !.pc = "readtype", !.id = selbynampar.row]
            \/ frame'[t] = [c EXCEPT !.pc = "reset", !.parent = 0, !.depth = 2]
            \/ frame'[t] = [c EXCEPT !.pc = "return", !.result = <<"found", selbynampar.row>>]
            \/ frame'[t] = [c EXCEPT !.pc = "rows", !.parent = selbynampar.row]
            \/ frame'[t] = [c EXCEPT !.pc = "reset", !.parent = selbynampar.row, !.depth = @ + 1]
    <2> DEFINE new ==
          CASE c.op = "mkdir" -> [c EXCEPT !.pc = "resetinsert", !.parent = 0]
            [] c.op = "rmdir" /\ LastLookup(c) -> [c EXCEPT !.pc = "readtype", !.id = selbynampar.row]
            [] c.op = "rmdir" /\ ~LastLookup(c) -> [c EXCEPT !.pc = "reset", !.parent = 0, !.depth = 2]
            [] c.op = "find" /\ LastLookup(c) ->
                  [c EXCEPT !.pc = "return", !.result = <<"found", selbynampar.row>>]
            [] c.op = "list" /\ LastLookup(c) -> [c EXCEPT !.pc = "rows", !.parent = selbynampar.row]
            [] OTHER -> [c EXCEPT !.pc = "reset", !.parent = selbynampar.row, !.depth = @ + 1]
    <2>1. frame' = [frame EXCEPT ![t] = new]
        BY DEF ReadId
    <2>2. frame'[t] = new
        BY <1>1, <2>1
    <2>3. CASE c.op = "mkdir"
        BY <2>2, <2>3
    <2>4. CASE c.op = "rmdir" /\ LastLookup(c)
        BY <2>2, <2>4
    <2>5. CASE c.op = "rmdir" /\ ~LastLookup(c)
        BY <2>2, <2>5
    <2>6. CASE c.op = "find" /\ LastLookup(c)
        BY <2>2, <2>6
    <2>7. CASE c.op = "list" /\ LastLookup(c)
        BY <2>2, <2>7
    <2>8. CASE c.op \notin {"mkdir", "rmdir"} /\ ~(c.op \in {"find", "list"} /\ LastLookup(c))
        BY <2>2, <2>8
    <2> QED BY <2>3, <2>4, <2>5, <2>6, <2>7, <2>8
<1> HIDE DEF c
<1>4. /\ FrameShape(frame'[t])
      /\ frame'[t].pc \in {"resetinsert", "readtype", "reset", "return", "rows"}
      /\ frame'[t].pc = "resetinsert" => c.op = "mkdir"
      /\ frame'[t].op = c.op /\ frame'[t].arg = c.arg
      /\ frame'[t].id \in Nat /\ frame'[t].parent \in Nat \cup {Null}
    <2>1. FrameShape(c) /\ c.id \in Nat /\ c.parent \in Nat \cup {Null}
        BY <1>1 DEF CallOK, CallType, c
    <2>2. CASE c.op = "mkdir" /\ frame'[t] = [c EXCEPT !.pc = "resetinsert", !.parent = 0]
        <3>1. frame'[t] = [pc |-> "resetinsert", op |-> c.op, arg |-> c.arg, depth |-> c.depth,
                           parent |-> 0, id |-> c.id, result |-> c.result]
            BY <2>1, <2>2 DEF FrameShape
        <3> QED BY <2>1, <2>2, <3>1 DEF FrameShape
    <2>3. CASE frame'[t] = [c EXCEPT !.pc = "readtype", !.id = selbynampar.row]
        BY <1>1, <2>1, <2>3 DEF FrameShape
    <2>4. CASE frame'[t] = [c EXCEPT !.pc = "reset", !.parent = 0, !.depth = 2]
        <3>1. frame'[t] = [pc |-> "reset", op |-> c.op, arg |-> c.arg, depth |-> 2,
                           parent |-> 0, id |-> c.id, result |-> c.result]
            BY <2>1, <2>4 DEF FrameShape
        <3> QED BY <2>1, <3>1 DEF FrameShape
    <2>5. CASE frame'[t] = [c EXCEPT !.pc = "return", !.result = <<"found", selbynampar.row>>]
        BY <2>1, <2>5 DEF FrameShape
    <2>6. CASE frame'[t] = [c EXCEPT !.pc = "rows", !.parent = selbynampar.row]
        BY <1>1, <2>1, <2>6 DEF FrameShape
    <2>7. CASE frame'[t] = [c EXCEPT !.pc = "reset", !.parent = selbynampar.row, !.depth = @ + 1]
        BY <1>1, <2>1, <2>7 DEF FrameShape
    <2> QED BY <1>3, <2>2, <2>3, <2>4, <2>5, <2>6, <2>7
<1>5. CallOK(t)'
    <2>1. FrameShape(frame[t])'
        BY <1>4 DEF FrameShape
    <2>2. CallType(t, frame[t])'
        BY <1>1, <1>4 DEF c, CallOK, CallType, PCs, Inserting, UsesInsert
    <2>3. Bound(frame[t])' /\ Filing(frame[t])'
        BY <1>4 DEF Bound, Filing
    <2> QED BY <2>1, <2>2, <2>3 DEF CallOK
<1>6. UNCHANGED <<entries, change, selbynampar, insertentry, updsyncdelid, dbcache_mutex>>
    BY DEF ReadId, stmtVars, KeepCalls, KeepTable, tableVars
<1>7. Table' /\ Selects' /\ Marks' /\ Parameters'
    BY <1>6 DEF IInv, Table, TableTypeOK, Root1, Selects, Marks, Parameters
<1>8. Frames'
    BY <1>2, <1>5, <1>6, FramesStep DEF IInv, ParametersKept, UuidsKept
<1>9. Mutex'
    BY <1>1, <1>2, <1>4, <1>6, MutexStep DEF IInv, InSection, c
<1> QED BY <1>7, <1>8, <1>9 DEF IInv

LEMMA ReadTypeStep == ASSUME IInv, NEW t \in Threads, ReadType(t) PROVE IInv'
<1>1. Selects' /\ Marks'
    BY DEF IInv, ReadType, Selects, Marks, KeepTable, tableVars, stmtVars
<1>2. \E to \in {"resetmark", "return"} : Moves(t, to)
    BY GotoMoves, FinishMoves DEF IInv, ReadType
<1> QED BY <1>1, <1>2, Continue
        DEF ReadType, At, KeepTable, KeepCalls, PCs, Inserting, UsesInsert, stmtVars

-----------------------------------------------------------------------------
(* updsyncdelid and the listings                                            *)

LEMMA ResetMarkStep == ASSUME IInv, NEW t \in Threads, ResetMark(t) PROVE IInv'
<1>1. Selects' /\ Marks'
    BY DEF IInv, ResetMark, Selects, Marks, KeepTable, tableVars
<1>2. Moves(t, "bindid")
    BY GotoMoves DEF IInv, ResetMark
<1> QED BY <1>1, <1>2, Continue DEF ResetMark, At, KeepTable, KeepCalls, PCs, Inserting, UsesInsert

LEMMA BindIdStep == ASSUME IInv, NEW t \in Threads, BindId(t) PROVE IInv'
<1>1. Selects' /\ Marks'
    BY DEF IInv, BindId, Selects, Marks, KeepTable, tableVars
<1>2. Moves(t, "mark")
    BY GotoMoves DEF IInv, BindId
<1> QED BY <1>1, <1>2, Continue DEF BindId, At, KeepTable, KeepCalls, PCs, Inserting, UsesInsert

LEMMA FindRootStep == ASSUME IInv, NEW t \in Threads, FindRoot(t) PROVE IInv'
<1>1. Selects' /\ Marks'
    BY DEF IInv, FindRoot, Selects, Marks, KeepTable, tableVars, stmtVars
<1>2. Moves(t, "return")
    BY FinishMoves DEF IInv, FindRoot
<1> QED BY <1>1, <1>2, Continue
        DEF FindRoot, At, KeepTable, KeepCalls, PCs, Inserting, UsesInsert, stmtVars

\* A mark changes sync and nothing else, on whatever row it is.
LEMMA MarkRows ==
    ASSUME TableTypeOK, NEW t \in Threads, Mark(t)
    PROVE  /\ TableTypeOK' /\ Len(entries') = Len(entries)
           /\ \A i \in DOMAIN entries :
                  /\ entries'[i].uuid = entries[i].uuid /\ entries'[i].name = entries[i].name
                  /\ entries'[i].type = entries[i].type /\ entries'[i].parent = entries[i].parent
<1> DEFINE id == updsyncdelid.id
<1>1. change' = change
    BY DEF Mark
<1>2. CASE id \in DOMAIN entries
    <2> DEFINE r == [uuid |-> entries[id].uuid, name |-> entries[id].name,
                     type |-> entries[id].type, sync |-> -1, parent |-> entries[id].parent]
    <2>1. id \in 1..Len(entries) /\ entries[id] \in Row
        BY <1>2, TableShape
    <2>2. r \in Row /\ r = [entries[id] EXCEPT !.sync = -1]
        BY <2>1 DEF Row
    <2>3. entries' = [entries EXCEPT ![id] = r]
        BY <1>2, <2>2 DEF Mark
    <2> HIDE DEF r
    <2>4. /\ entries' \in Seq(Row) /\ Len(entries') = Len(entries)
          /\ \A j \in 1..Len(entries) : entries'[j] = IF j = id THEN r ELSE entries[j]
        BY <2>1, <2>2, <2>3, ReplaceRow
    <2> QED BY <1>1, <2>4, TableShape DEF TableTypeOK, r
<1>3. CASE id \notin DOMAIN entries
    BY <1>1, <1>3 DEF Mark, TableTypeOK
<1> QED BY <1>2, <1>3

LEMMA MarkStep == ASSUME IInv, NEW t \in Threads, Mark(t) PROVE IInv'
<1>1. /\ TableTypeOK' /\ Len(entries') = Len(entries) /\ DOMAIN entries' = DOMAIN entries
      /\ \A i \in DOMAIN entries : /\ entries'[i].uuid = entries[i].uuid
                                   /\ entries'[i].parent = entries[i].parent
    BY MarkRows, TableShape DEF IInv, Table, TableTypeOK
<1>2. Table'
    <2>1. 1 \in DOMAIN entries
        BY EmptySeq, TableShape DEF IInv, Table, TableTypeOK, Root1
    <2>2. entries' # <<>>
        BY <1>1, <2>1
    <2> QED BY <1>1, <2>1, <2>2 DEF IInv, Table, Root1
<1>3. Selects' /\ Marks' /\ Parameters'
    BY <1>1 DEF IInv, Mark, Selects, Marks, Parameters
<1>4. Moves(t, "return")
    BY FinishMoves DEF IInv, Mark
<1>5. CallOK(t)'
    <2>1. CallOK(t) /\ frame[t].pc = "mark"
        BY DEF IInv, Frames, Mark, At
    <2>2. CallType(t, frame[t])'
        BY <1>4, <2>1 DEF CallOK, CallType, Moves, PCs, Inserting, UsesInsert
    <2> QED BY <1>4, <2>2 DEF CallOK, Moves, Bound, Filing
<1>6. Frames'
    BY <1>1, <1>4, <1>5, FramesStep DEF IInv, Mark, Moves, ParametersKept, UuidsKept
<1>7. Mutex'
    BY <1>4, MutexStep DEF IInv, Mark, KeepCalls, Moves, InSection, At
<1> QED BY <1>2, <1>3, <1>6, <1>7 DEF IInv

LEMMA NextRowStep == ASSUME IInv, NEW t \in Threads, NextRow(t) PROVE IInv'
<1> DEFINE ahead == {i \in ByPar(frame[t].parent) : i > frame[t].id}
<1>1. CallOK(t) /\ frame[t].pc = "rows" /\ DOMAIN frame = Threads
    BY DEF IInv, Frames, NextRow, At
<1>2. UNCHANGED <<entries, change, selbynampar, insertentry, updsyncdelid, dbcache_mutex>>
    BY DEF NextRow, stmtVars, KeepCalls, KeepTable, tableVars
<1>3. Table' /\ Selects' /\ Marks' /\ Parameters'
    BY <1>2 DEF IInv, Table, TableTypeOK, Root1, Selects, Marks, Parameters
<1>4. CASE ahead = {}
    <2>1. Moves(t, "return")
        BY <1>4, GotoMoves DEF IInv, NextRow
    <2> QED BY <1>1, <1>2, <1>3, <2>1, Continue DEF PCs, Inserting, UsesInsert, tableVars
<1>5. CASE ahead # {}
    <2>1. First(ahead) \in Nat
        <3>1. ahead \in SUBSET DOMAIN entries
            BY DEF ByPar
        <3> QED BY <1>5, <3>1, FirstIsRow DEF IInv, Table
    <2>2. /\ Others(t)
          /\ \E r : frame'[t] = [[frame[t] EXCEPT !.id = First(ahead)] EXCEPT !.result = r]
        BY <1>1, <1>5 DEF NextRow, Others
    <2>3. \E r : frame'[t] = [pc |-> frame[t].pc, op |-> frame[t].op, arg |-> frame[t].arg,
                              depth |-> frame[t].depth, parent |-> frame[t].parent,
                              id |-> First(ahead), result |-> r]
        BY <1>1, <2>2 DEF CallOK, FrameShape
    <2> HIDE DEF ahead
    <2>4. /\ FrameShape(frame[t])'
          /\ frame[t].pc' = "rows" /\ frame[t].op' = frame[t].op /\ frame[t].arg' = frame[t].arg
          /\ frame[t].parent' = frame[t].parent /\ frame[t].id' \in Nat
        BY <1>1, <2>1, <2>3 DEF FrameShape
    <2>5. CallType(t, frame[t])'
        BY <1>1, <2>4 DEF CallOK, CallType, Inserting, UsesInsert
    <2>6. CallOK(t)'
        BY <2>4, <2>5 DEF CallOK, Bound, Filing
    <2>7. Frames' /\ Mutex'
        BY <1>1, <1>2, <2>2, <2>4, <2>6, FramesStep, MutexStep
           DEF IInv, ParametersKept, UuidsKept, InSection
    <2> QED BY <1>3, <2>7 DEF IInv
<1> QED BY <1>4, <1>5

-----------------------------------------------------------------------------
(* dbcache_update's own statements                                          *)

\* A step that changes nothing but where its thread is and what it has looked up.
LEMMA FrameOnly ==
    ASSUME IInv, NEW t \in Threads, Others(t), CallOK(t)',
           UNCHANGED <<tableVars, stmtVars, dbcache_mutex>>,
           InSection(frame[t])' <=> InSection(frame[t])
    PROVE  IInv'
<1>1. UNCHANGED <<entries, change, selbynampar, insertentry, updsyncdelid, dbcache_mutex>>
    BY DEF tableVars, stmtVars
<1>2. Table' /\ Selects' /\ Marks' /\ Parameters'
    BY <1>1 DEF IInv, Table, TableTypeOK, Root1, Selects, Marks, Parameters
<1>3. Frames'
    BY <1>1, FramesStep DEF IInv, ParametersKept, UuidsKept
<1>4. Mutex'
    BY <1>1, MutexStep DEF IInv
<1> QED BY <1>2, <1>3, <1>4 DEF IInv

LEMMA FileFields ==
    ASSUME NEW file \in Files
    PROVE  /\ file.uuid \in Uuids \cup {Empty} /\ file.uuid # Null
           /\ file.parent \in Uuids \cup {Empty} /\ file.parent # Null
           /\ file.name \in AnyName \cup {Empty}
           /\ file.parent # Empty => file.name \in AnyName
<1>1. file \in Answers
    BY StatementsAssumption
<1>2. file.uuid \in Uuids \cup {Empty} /\ file.parent \in Uuids \cup {Empty}
      /\ file.name \in Names \cup {RootName, Empty}
    BY <1>1 DEF Answers
<1> QED BY <1>2, DbAssumption, StatementsAssumption DEF AnyName

LEMMA RootIsThere ==
    IInv => /\ 1 \in DOMAIN entries /\ DOMAIN entries = 1..Len(entries) /\ Len(entries) \in Nat
            /\ TableTypeOK
BY EmptySeq, TableShape DEF IInv, Table, TableTypeOK, Root1

LEMMA UuidRow ==
    ASSUME IInv, NEW u, ByUuid(u) # {}
    PROVE  /\ First(ByUuid(u)) \in DOMAIN entries /\ First(ByUuid(u)) \in Nat
           /\ entries[First(ByUuid(u))].uuid = u
<1>1. ByUuid(u) \in SUBSET DOMAIN entries
    BY DEF ByUuid
<1>2. First(ByUuid(u)) \in ByUuid(u) /\ First(ByUuid(u)) \in Nat
    BY <1>1, FirstIsRow DEF IInv, Table
<1> QED BY <1>2 DEF ByUuid

LEMMA LookupUuidStep == ASSUME IInv, NEW t \in Threads, LookupUuid(t) PROVE IInv'
<1> DEFINE c == frame[t]
           id == IF c.arg.parent = Empty THEN 1
                 ELSE IF ByUuid(c.arg.uuid) = {} THEN 0 ELSE First(ByUuid(c.arg.uuid))
           p == IF c.arg.parent = Empty THEN Null ELSE c.parent
           to == IF c.arg.parent = Empty THEN "file" ELSE "parent"
<1>1. /\ CallOK(t) /\ c.pc = "known" /\ DOMAIN frame = Threads /\ FrameShape(c)
      /\ c.op = "update" /\ c.arg \in Files /\ t = DriveThread
    BY DEF IInv, Frames, CallOK, CallType, LookupUuid, At
<1>2. /\ UNCHANGED <<tableVars, stmtVars, dbcache_mutex>>
      /\ Others(t)
      /\ frame'[t] = [[[c EXCEPT !.id = id] EXCEPT !.parent = p] EXCEPT !.pc = to]
    BY <1>1 DEF LookupUuid, KeepTable, KeepCalls, Others
<1>3. /\ c.arg.parent = Empty => id = 1
      /\ c.arg.parent # Empty /\ id # 0 => id \in DOMAIN entries /\ entries[id].uuid = c.arg.uuid
      /\ id \in Nat
    BY UuidRow, RootIsThere
<1>4. p \in Nat \cup {Null} /\ (c.arg.parent = Empty => p = Null)
    BY <1>1 DEF CallOK, CallType
<1>5. to \in {"file", "parent"} /\ (to = "parent" <=> c.arg.parent # Empty)
    OBVIOUS
<1> HIDE DEF id, p, to
<1>6. frame'[t] = [pc |-> to, op |-> c.op, arg |-> c.arg, depth |-> c.depth, parent |-> p,
                   id |-> id, result |-> c.result]
    BY <1>1, <1>2 DEF FrameShape
<1>7. CallOK(t)'
    <2>1. /\ FrameShape(frame'[t]) /\ frame'[t].pc = to /\ frame'[t].op = c.op
          /\ frame'[t].arg = c.arg /\ frame'[t].parent = p /\ frame'[t].id = id
        BY <1>6 DEF FrameShape
    <2>2. CallType(t, frame[t])'
        BY <1>1, <1>3, <1>4, <1>5, <2>1 DEF CallType, CallOK, PCs, Ops, Inserting, UsesInsert
    <2>3. Bound(frame[t])'
        BY <1>5, <2>1 DEF Bound
    <2>4. UNCHANGED entries
        BY <1>2 DEF tableVars
    <2>5. Filing(frame[t])'
        BY <1>3, <1>4, <1>5, <2>1, <2>4 DEF Filing, OwnRow
    <2> QED BY <2>1, <2>2, <2>3, <2>5 DEF CallOK, FrameShape
<1>8. InSection(frame[t])' <=> InSection(frame[t])
    BY <1>1, <1>5, <1>6 DEF InSection
<1> QED BY <1>2, <1>7, <1>8, FrameOnly

LEMMA LookupParentStep == ASSUME IInv, NEW t \in Threads, LookupParent(t) PROVE IInv'
<1> DEFINE c == frame[t]
           ps == ByUuid(c.arg.parent)
           to == IF c.id = 0 THEN "resetinsert" ELSE "file"
<1>1. /\ CallOK(t) /\ c.pc = "parent" /\ DOMAIN frame = Threads /\ FrameShape(c)
      /\ c.op = "update" /\ c.arg \in Files /\ t = DriveThread
      /\ c.arg.parent # Empty /\ (c.id = 0 \/ OwnRow(c)) /\ c.id \in Nat
    BY DEF IInv, Frames, CallOK, CallType, Filing, LookupParent, At
<1>2. UNCHANGED <<tableVars, stmtVars, dbcache_mutex>>
    BY DEF LookupParent, KeepTable, KeepCalls
<1>3. CASE ps = {}
    <2>1. Moves(t, "return")
        BY <1>3, FinishMoves DEF IInv, LookupParent
    <2>2. UNCHANGED <<entries, change, selbynampar, insertentry, updsyncdelid, dbcache_mutex>>
        BY <1>2 DEF tableVars, stmtVars
    <2>3. Selects' /\ Marks'
        BY <2>2 DEF IInv, Selects, Marks
    <2> QED BY <1>1, <1>2, <2>1, <2>2, <2>3, Continue DEF PCs, Inserting, UsesInsert
<1>4. CASE ps # {}
    <2>1. /\ Others(t)
          /\ frame'[t] = [[c EXCEPT !.parent = First(ps)] EXCEPT !.pc = to]
        BY <1>1, <1>4 DEF LookupParent, Others
    <2>2. First(ps) \in Nat
        BY <1>4, UuidRow
    <2>3. to \in {"resetinsert", "file"} /\ (to = "file" => c.id # 0)
        OBVIOUS
    <2> HIDE DEF ps, to
    <2>4. frame'[t] = [pc |-> to, op |-> c.op, arg |-> c.arg, depth |-> c.depth,
                       parent |-> First(ps), id |-> c.id, result |-> c.result]
        BY <1>1, <2>1 DEF FrameShape
    <2>5. CallOK(t)'
        <3>1. /\ FrameShape(frame'[t]) /\ frame'[t].pc = to /\ frame'[t].op = c.op
              /\ frame'[t].arg = c.arg /\ frame'[t].parent = First(ps) /\ frame'[t].id = c.id
            BY <2>4 DEF FrameShape
        <3>2. CallType(t, frame[t])'
            BY <1>1, <2>2, <2>3, <3>1 DEF CallType, CallOK, PCs, Ops, Inserting, UsesInsert
        <3>3. Bound(frame[t])'
            BY <2>3, <3>1 DEF Bound
        <3>4. UNCHANGED entries
            BY <1>2 DEF tableVars
        <3>5. Filing(frame[t])'
            BY <1>1, <2>3, <3>1, <3>4 DEF Filing, OwnRow
        <3> QED BY <3>1, <3>2, <3>3, <3>5 DEF CallOK, FrameShape
    <2>6. InSection(frame[t])' <=> InSection(frame[t])
        BY <1>1, <2>3, <2>4 DEF InSection
    <2> QED BY <1>2, <2>1, <2>5, <2>6, FrameOnly
<1> QED BY <1>3, <1>4

Kept(i) ==
    /\ i \in DOMAIN entries'
    /\ entries'[i].name = entries[i].name /\ entries'[i].type = entries[i].type
    /\ i # 1 => entries'[i].uuid = entries[i].uuid
    /\ entries'[i].parent # entries[i].parent => entries[i].uuid # Null

\* The UPDATE files the row of the file it was called with, or gives the root its uuid.
LEMMA FileRows ==
    ASSUME IInv, NEW t \in Threads, FileEntry(t)
    PROVE  /\ t = DriveThread
           /\ Table' /\ DOMAIN entries' = DOMAIN entries
           /\ \A i \in DOMAIN entries : Kept(i)
<1> DEFINE c == frame[t]
           id == c.id
<1>1. /\ CallOK(t) /\ c.pc = "file" /\ c.op = "update" /\ c.arg \in Files /\ t = DriveThread
      /\ c.parent \in Nat \cup {Null}
    BY DEF IInv, Frames, CallOK, CallType, FileEntry, At
<1>2. /\ c.arg.uuid \in Uuids \cup {Empty} /\ c.arg.uuid # Null
    BY <1>1, FileFields
<1>3. id \in DOMAIN entries /\ ((id = 1 /\ c.parent = Null) \/ entries[id].uuid = c.arg.uuid)
    BY <1>1, RootIsThere DEF CallOK, Filing, OwnRow
<1>4. id \in 1..Len(entries) /\ entries[id] \in Row
    BY <1>3, RootIsThere, TableShape
<1> DEFINE r == [uuid |-> c.arg.uuid, name |-> entries[id].name, type |-> entries[id].type,
                 sync |-> entries[id].sync, parent |-> c.parent]
<1>5. r \in Row
    BY <1>1, <1>2, <1>4 DEF Row
<1>6. entries' = [entries EXCEPT ![id] = r] /\ change' = change
    BY DEF FileEntry, updbyid
<1>7. /\ r.uuid = c.arg.uuid /\ r.name = entries[id].name /\ r.type = entries[id].type
      /\ r.parent = c.parent
    OBVIOUS
<1> HIDE DEF r, id
<1>8. /\ entries' \in Seq(Row) /\ Len(entries') = Len(entries)
      /\ \A j \in 1..Len(entries) : entries'[j] = IF j = id THEN r ELSE entries[j]
    BY <1>4, <1>5, <1>6, RootIsThere, ReplaceRow
<1>9. TableTypeOK' /\ DOMAIN entries' = 1..Len(entries)
    <2>1. TableTypeOK'
        BY <1>6, <1>8 DEF IInv, Table, TableTypeOK
    <2>2. DOMAIN entries' = 1..Len(entries')
        BY <1>8, LenProperties
    <2> QED BY <1>8, <2>1, <2>2
<1>10. Root1'
    <2>1. entries' # <<>> /\ 1 \in 1..Len(entries)
        BY <1>9, RootIsThere
    <2>2. CASE id = 1
        BY <1>2, <1>7, <1>8, <2>1, <2>2 DEF Root1
    <2>3. CASE id # 1
        BY <1>8, <2>1, <2>3 DEF IInv, Table, Root1
    <2> QED BY <2>2, <2>3
<1>11. ASSUME NEW i \in DOMAIN entries PROVE Kept(i)
    <2>1. i \in 1..Len(entries) /\ i \in DOMAIN entries'
        BY <1>9, <1>11, RootIsThere
    <2>2. CASE i # id
        BY <1>8, <2>1, <2>2 DEF Kept
    <2>3. CASE i = id
        <3>1. entries'[i] = r
            BY <1>8, <2>1, <2>3
        <3>2. i # 1 => entries[i].uuid = c.arg.uuid
            BY <1>3, <2>3
        <3>3. c.parent # entries[i].parent => entries[i].uuid # Null
            BY <1>2, <1>3, <2>3 DEF IInv, Table, Root1
        <3> QED BY <1>7, <2>1, <2>3, <3>1, <3>2, <3>3 DEF Kept
    <2> QED BY <2>2, <2>3
<1> QED BY <1>1, <1>9, <1>10, <1>11, RootIsThere DEF Table

LEMMA FileEntryStep == ASSUME IInv, NEW t \in Threads, FileEntry(t) PROVE IInv'
<1>1. /\ t = DriveThread /\ Table' /\ DOMAIN entries' = DOMAIN entries
    BY FileRows
<1>2. UNCHANGED <<selbynampar, insertentry, updsyncdelid, dbcache_mutex>>
    BY DEF FileEntry, stmtVars, KeepCalls
<1>3. Selects' /\ Marks' /\ Parameters'
    BY <1>1, <1>2 DEF IInv, Selects, Marks, Parameters
<1>4. Moves(t, "return") /\ CallOK(t) /\ frame[t].pc = "file"
    BY FinishMoves DEF IInv, Frames, FileEntry, At
<1>5. CallOK(t)'
    <2>1. CallType(t, frame[t])'
        BY <1>4 DEF CallOK, CallType, Moves, PCs, Inserting, UsesInsert
    <2> QED BY <1>4, <2>1 DEF CallOK, Moves, Bound, Filing
<1>6. Frames'
    BY <1>1, <1>2, <1>4, <1>5, FramesStep DEF IInv, Moves, ParametersKept
<1>7. Mutex'
    BY <1>2, <1>4, MutexStep DEF IInv, Moves, InSection
<1> QED BY <1>1, <1>3, <1>6, <1>7 DEF IInv

-----------------------------------------------------------------------------
(* insertentry                                                              *)

\* A step of a call that is inserting a row, to another such step.
LEMMA InsertOn ==
    ASSUME IInv, NEW t \in Threads, Inserting(frame[t].pc),
           NEW to \in {"binduuid", "bindfname", "binddata", "bindfparent", "insert"},
           Moves(t, to), UNCHANGED <<tableVars, selbynampar, updsyncdelid, dbcache_mutex>>,
           Parameters', ParametersKept, Bound(frame[t])'
    PROVE  IInv'
<1>1. UNCHANGED <<entries, change, selbynampar, updsyncdelid, dbcache_mutex>> /\ CallOK(t)
    BY DEF tableVars, IInv, Frames
<1>2. Table' /\ Selects' /\ Marks'
    BY <1>1 DEF IInv, Table, TableTypeOK, Root1, Selects, Marks
<1>3. CallOK(t)'
    <2>1. CallType(t, frame[t])'
        BY <1>1 DEF CallOK, CallType, Moves, PCs, Inserting, UsesInsert
    <2> QED BY <2>1 DEF CallOK, Moves, Filing
<1>4. Frames'
    BY <1>1, <1>3, FramesStep DEF IInv, Moves, UuidsKept
<1>5. Mutex'
    BY <1>1, MutexStep DEF IInv, Moves, InSection, Inserting, UsesInsert
<1> QED BY <1>2, <1>4, <1>5 DEF IInv

LEMMA ResetInsertStep == ASSUME IInv, NEW t \in Threads, ResetInsert(t) PROVE IInv'
<1>1. Moves(t, "binduuid") /\ Inserting(frame[t].pc)
    BY GotoMoves DEF IInv, ResetInsert, At, Inserting
<1>2. insertentry' = [run |-> Ready, uuid |-> insertentry.uuid, name |-> insertentry.name,
                      type |-> insertentry.type, sync |-> insertentry.sync,
                      parent |-> insertentry.parent]
    BY DEF IInv, Parameters, ResetInsert
<1>3. Parameters' /\ ParametersKept
    BY <1>2 DEF IInv, Parameters, ParametersKept, Ready, Halted
<1>4. Bound(frame[t])'
    BY <1>1 DEF Moves, Bound
<1> QED BY <1>1, <1>3, <1>4, InsertOn DEF ResetInsert, KeepTable, KeepCalls

\* The row a call inserts, undisturbed, is a row.
LEMMA RowOfIsRow ==
    ASSUME IInv, NEW t \in Threads, Inserting(frame[t].pc)
    PROVE  /\ RowOf(frame[t]).uuid \in Uuids \cup {Empty, Null}
           /\ RowOf(frame[t]).name \in AnyName
           /\ RowOf(frame[t]).type \in {Dir, File} /\ RowOf(frame[t]).sync \in {-1, 0, 1}
           /\ RowOf(frame[t]).parent \in Nat \cup {Null}
<1> DEFINE c == frame[t]
<1>1. CallType(t, c)
    BY DEF IInv, Frames, CallOK
<1>2. CASE c.op = "update"
    <2>1. c.arg \in Files /\ c.arg.parent # Empty /\ c.parent \in Nat \cup {Null}
        BY <1>1, <1>2 DEF CallType
    <2>2. c.arg.uuid \in Uuids \cup {Empty} /\ c.arg.name \in AnyName
        BY <2>1, FileFields
    <2> QED BY <1>2, <2>1, <2>2 DEF RowOf, NewRow
<1>3. CASE c.op = "mkdir"
    <2>1. c.arg \in Seq(Names) \ {<<>>} /\ c.parent \in Nat \cup {Null}
        BY <1>1, <1>3, StatementsAssumption DEF CallType
    <2>2. c.arg[1] \in Names
        <3>1. c.arg \in Seq(Names) /\ c.arg # <<>>
            BY <2>1
        <3>2. Len(c.arg) \in Nat /\ Len(c.arg) # 0
            BY <3>1, EmptySeq, LenProperties
        <3> QED BY <3>1, <3>2, ElementOfSeq
    <2> QED BY <1>3, <2>1, <2>2 DEF RowOf, LocalRow, AnyName
<1> QED BY <1>1, <1>2, <1>3 DEF CallType

LEMMA BindFieldsStep == ASSUME IInv, NEW t \in Threads, BindFields(t) PROVE IInv'
<1> DEFINE row == RowOf(frame[t])
           ie == insertentry
<1>1. Inserting(frame[t].pc)
    BY DEF BindFields, BindInsert, At, Inserting, UsesInsert
<1>2. /\ row.uuid \in Uuids \cup {Empty, Null} /\ row.name \in AnyName
      /\ row.type \in {Dir, File} /\ row.sync \in {-1, 0, 1} /\ row.parent \in Nat \cup {Null}
    BY <1>1, RowOfIsRow
<1> HIDE DEF row
<1>3. Parameters /\ Bound(frame[t])
    BY DEF IInv, Frames, CallOK
<1>4. UNCHANGED <<tableVars, selbynampar, updsyncdelid, dbcache_mutex>>
    BY DEF BindFields, BindInsert, KeepTable, KeepCalls
<1>5. CASE BindInsert(t, "binduuid", "bindfname", [ie EXCEPT !.uuid = row.uuid])
    <2>1. Moves(t, "bindfname")
        BY <1>5, GotoMoves DEF IInv, BindInsert
    <2>2. \/ ie.run # Ready /\ ie' = ie
          \/ ie.run = Ready /\ ie' = [run |-> ie.run, uuid |-> row.uuid, name |-> ie.name,
                                   type |-> ie.type, sync |-> ie.sync, parent |-> ie.parent]
        BY <1>3, <1>5 DEF BindInsert, Parameters
    <2>3. Parameters' /\ ParametersKept
        BY <1>2, <1>3, <2>2 DEF Parameters, ParametersKept, Ready, Halted
    <2>4. Bound(frame[t])'
        BY <2>1 DEF Moves, Bound
    <2> QED BY <1>1, <1>4, <2>1, <2>3, <2>4, InsertOn
<1>6. CASE BindInsert(t, "bindfname", "binddata", [ie EXCEPT !.name = row.name])
    <2>1. Moves(t, "binddata")
        BY <1>6, GotoMoves DEF IInv, BindInsert
    <2>2. \/ ie.run # Ready /\ ie' = ie
          \/ ie.run = Ready /\ ie' = [run |-> ie.run, uuid |-> ie.uuid, name |-> row.name,
                                   type |-> ie.type, sync |-> ie.sync, parent |-> ie.parent]
        BY <1>3, <1>6 DEF BindInsert, Parameters
    <2>3. Parameters' /\ ParametersKept /\ ie'.name \in AnyName
        BY <1>2, <1>3, <2>2 DEF Parameters, ParametersKept, Ready, Halted
    <2>4. Bound(frame[t])'
        BY <2>1, <2>3 DEF Moves, Bound
    <2> QED BY <1>1, <1>4, <2>1, <2>3, <2>4, InsertOn
<1>7. CASE BindInsert(t, "binddata", "bindfparent", [ie EXCEPT !.type = row.type, !.sync = row.sync])
    <2>1. Moves(t, "bindfparent") /\ frame[t].pc = "binddata"
        BY <1>7, GotoMoves DEF IInv, BindInsert, At
    <2>2. \/ ie.run # Ready /\ ie' = ie
          \/ ie.run = Ready /\ ie' = [run |-> ie.run, uuid |-> ie.uuid, name |-> ie.name,
                                   type |-> row.type, sync |-> row.sync, parent |-> ie.parent]
        BY <1>3, <1>7 DEF BindInsert, Parameters
    <2>3. Parameters' /\ ParametersKept /\ ie'.type \in {Dir, File} /\ ie'.sync \in {-1, 0, 1}
        BY <1>2, <1>3, <2>2 DEF Parameters, ParametersKept, Ready, Halted
    <2>4. Bound(frame[t])'
        BY <1>3, <2>1, <2>3 DEF Moves, Bound, ParametersKept
    <2> QED BY <1>1, <1>4, <2>1, <2>3, <2>4, InsertOn
<1>8. CASE BindInsert(t, "bindfparent", "insert", [ie EXCEPT !.parent = row.parent])
    <2>1. Moves(t, "insert") /\ frame[t].pc = "bindfparent"
        BY <1>8, GotoMoves DEF IInv, BindInsert, At
    <2>2. \/ ie.run # Ready /\ ie' = ie
          \/ ie.run = Ready /\ ie' = [run |-> ie.run, uuid |-> ie.uuid, name |-> ie.name,
                                   type |-> ie.type, sync |-> ie.sync, parent |-> row.parent]
        BY <1>3, <1>8 DEF BindInsert, Parameters
    <2>3. Parameters' /\ ParametersKept
        BY <1>2, <1>3, <2>2 DEF Parameters, ParametersKept, Ready, Halted
    <2>4. Bound(frame[t])'
        BY <1>3, <2>1, <2>3 DEF Moves, Bound, ParametersKept
    <2> QED BY <1>1, <1>4, <2>1, <2>3, <2>4, InsertOn
<1> QED BY <1>5, <1>6, <1>7, <1>8 DEF BindFields, row

\* A row is inserted at the end, whoever bound what.
LEMMA InsertRows ==
    ASSUME IInv, NEW t \in Threads, Insert(t)
    PROVE  /\ Table' /\ DOMAIN entries \subseteq DOMAIN entries'
           /\ \A i \in DOMAIN entries : entries'[i] = entries[i]
<1>1. Parameters /\ Bound(frame[t]) /\ frame[t].pc = "insert"
    BY DEF IInv, Frames, CallOK, Insert, At
<1>2. BoundRow \in Row
    BY <1>1 DEF BoundRow, Row, Parameters, Bound, AnyName
<1>3. entries' = Append(entries, BoundRow) /\ change' = change
    BY DEF Insert
<1>4. PICK r \in Row : entries' = Append(entries, r)
    BY <1>2, <1>3
<1>5. /\ entries' \in Seq(Row) /\ Len(entries') = Len(entries) + 1
      /\ \A j \in 1..Len(entries) : entries'[j] = entries[j]
    BY <1>4, RootIsThere, AddRow
<1>6. DOMAIN entries' = 1..(Len(entries) + 1)
    BY <1>5, LenProperties
<1>7. Table'
    <2>1. TableTypeOK'
        BY <1>3, <1>5, RootIsThere DEF TableTypeOK
    <2>2. entries' # <<>> /\ entries'[1] = entries[1]
        BY <1>5, <1>6, RootIsThere
    <2> QED BY <2>1, <2>2 DEF IInv, Table, Root1
<1> QED BY <1>5, <1>6, <1>7, RootIsThere

LEMMA InsertStep == ASSUME IInv, NEW t \in Threads, Insert(t) PROVE IInv'
<1>1. /\ Table' /\ DOMAIN entries \subseteq DOMAIN entries'
      /\ \A i \in DOMAIN entries : entries'[i] = entries[i]
    BY InsertRows
<1>2. UNCHANGED <<selbynampar, updsyncdelid, dbcache_mutex>>
    BY DEF Insert, KeepCalls
<1>3. CallOK(t) /\ Parameters /\ frame[t].pc = "insert" /\ Moves(t, "return")
    BY FinishMoves DEF IInv, Frames, Insert, At
<1>4. insertentry' = [run |-> Halted, uuid |-> insertentry.uuid, name |-> insertentry.name,
                      type |-> insertentry.type, sync |-> insertentry.sync,
                      parent |-> insertentry.parent]
    BY <1>3 DEF Parameters, Insert
<1>5. Parameters' /\ ParametersKept
    BY <1>3, <1>4 DEF CallOK, Bound, Parameters, ParametersKept, Ready, Halted
<1>6. Selects' /\ Marks'
    BY <1>1, <1>2 DEF IInv, Selects, Marks
<1>7. CallOK(t)'
    <2>1. CallType(t, frame[t])'
        BY <1>3 DEF CallOK, CallType, Moves, PCs, Inserting, UsesInsert
    <2> QED BY <1>3, <2>1 DEF CallOK, Moves, Bound, Filing
<1>8. Frames'
    BY <1>1, <1>3, <1>5, <1>7, FramesStep DEF IInv, Moves, UuidsKept
<1>9. Mutex'
    BY <1>2, <1>3, MutexStep DEF IInv, Moves, InSection
<1> QED BY <1>1, <1>5, <1>6, <1>8, <1>9 DEF IInv

-----------------------------------------------------------------------------
(* The beginning and the end of a call, and the mutex                       *)

LEMMA EntryPoint ==
    ASSUME NEW op \in Ops \ {"none"}, NEW arg
    PROVE  LET to == Entry(op, arg) IN
           /\ to \in {"known", "resetinsert", "rows", "root", "reset"}
           /\ to = "known" <=> op = "update"
           /\ to = "resetinsert" <=> op = "mkdir" /\ Len(arg) = 1
           /\ to = "rows" <=> op = "list" /\ Len(arg) = 0
           /\ to = "root" <=> op = "find" /\ Len(arg) = 0
BY DEF Entry, Ops

LEMMA LockStep == ASSUME IInv, NEW t \in Threads, Lock(t) PROVE IInv'
<1> DEFINE op == frame[t].op
           to == Entry(op, frame[t].arg)
<1>1. CallOK(t) /\ frame[t].pc = "lock" /\ op \in Ops \ {"none"} /\ Locks(op) /\ op # "mkdir"
    BY DEF IInv, Frames, CallOK, CallType, Lock, At, Locks
<1>2. /\ to \in {"known", "resetinsert", "rows", "root", "reset"}
      /\ to = "known" <=> op = "update"
      /\ to = "resetinsert" => op = "mkdir"
    BY <1>1, EntryPoint
<1> HIDE DEF to
<1>3. Moves(t, to)
    BY GotoMoves DEF IInv, Lock, to
<1>4. UNCHANGED <<entries, change, selbynampar, insertentry, updsyncdelid>>
    BY DEF Lock, stmtVars, tableVars
<1>5. Table' /\ Selects' /\ Marks' /\ Parameters'
    BY <1>4 DEF IInv, Table, TableTypeOK, Root1, Selects, Marks, Parameters
<1>6. CallOK(t)'
    <2>1. CallType(t, frame[t])'
        BY <1>1, <1>2, <1>3 DEF CallOK, CallType, Moves, PCs, Inserting, UsesInsert
    <2> QED BY <1>1, <1>2, <1>3, <2>1 DEF CallOK, Moves, Bound, Filing
<1>7. Frames'
    BY <1>3, <1>4, <1>6, FramesStep DEF IInv, Moves, ParametersKept, UuidsKept
<1>8. Mutex'
    <2>1. dbcache_mutex = Nobody /\ dbcache_mutex' = t /\ Nobody \notin Threads
        BY StatementsAssumption DEF Lock
    <2>2. InSection(frame[t])'
        BY <1>1, <1>2, <1>3 DEF InSection, Moves
    <2>3. ASSUME NEW u \in Threads \ {t} PROVE ~InSection(frame[u])'
        <3>1. ~InSection(frame[u])
            BY <2>1 DEF IInv, Mutex
        <3>2. frame'[u] = frame[u]
            BY <1>3 DEF Moves, Others
        <3> QED BY <3>1, <3>2 DEF InSection
    <2>4. ASSUME NEW u \in Threads PROVE (dbcache_mutex = u <=> InSection(frame[u]))'
        BY <2>1, <2>2, <2>3
    <2> QED BY <2>1, <2>4 DEF Mutex
<1> QED BY <1>5, <1>7, <1>8 DEF IInv

LEMMA ReturnStep == ASSUME IInv, NEW t \in Threads, Return(t) PROVE IInv'
<1>1. CallOK(t) /\ frame[t].pc = "return" /\ DOMAIN frame = Threads
    BY DEF IInv, Frames, Return, At
<1>2. Others(t) /\ frame'[t] = Idle
    BY <1>1 DEF Return, Others
<1>3. UNCHANGED <<entries, change, selbynampar, insertentry, updsyncdelid>>
    BY DEF Return, stmtVars, tableVars
<1>4. Table' /\ Selects' /\ Marks' /\ Parameters'
    BY <1>3 DEF IInv, Table, TableTypeOK, Root1, Selects, Marks, Parameters
<1>5. CallOK(t)'
    BY <1>2 DEF CallOK, FrameShape, CallType, Bound, Filing, Idle, PCs, Ops, Inserting, UsesInsert
<1>6. Frames'
    BY <1>2, <1>3, <1>5, FramesStep DEF IInv, ParametersKept, UuidsKept
<1>7. Mutex'
    <2>1. dbcache_mutex' = IF Locks(frame[t].op) THEN Nobody ELSE dbcache_mutex
        BY DEF Return
    <2>2. ~InSection(frame[t])' /\ (dbcache_mutex = t <=> Locks(frame[t].op))
        BY <1>1, <1>2 DEF IInv, Mutex, InSection, Idle
    <2>3. ASSUME NEW u \in Threads PROVE (dbcache_mutex = u <=> InSection(frame[u]))'
        <3>1. CASE u = t
            BY <2>1, <2>2, <3>1, StatementsAssumption
        <3>2. CASE u # t
            <4>1. InSection(frame[u])' <=> dbcache_mutex = u
                BY <1>2, <3>2 DEF IInv, Mutex, InSection, Others
            <4> QED BY <2>1, <2>2, <3>2, <4>1, StatementsAssumption
        <3> QED BY <3>1, <3>2
    <2> QED BY <2>1, <2>3 DEF IInv, Mutex
<1> QED BY <1>4, <1>6, <1>7 DEF IInv

LEMMA BeginStep ==
    ASSUME IInv, NEW t \in Threads, NEW op \in Ops \ {"none"}, NEW arg, Begin(t, op, arg),
           op = "update" => t = DriveThread /\ arg \in Files,
           op \in {"mkdir", "rmdir"} => arg \in Paths,
           op \in {"find", "list"} => arg \in Paths \cup {<<>>}
    PROVE  IInv'
<1> DEFINE to == IF Locks(op) THEN "lock" ELSE Entry(op, arg)
           answer == IF op = "list" THEN <<"listed", {}>> ELSE <<>>
<1>1. frame[t].pc = "idle" /\ DOMAIN frame = Threads
    BY DEF IInv, Frames, Begin, At
<1>2. /\ to \in {"lock", "resetinsert", "rows", "root", "reset"}
      /\ to = "lock" <=> Locks(op)
      /\ to = "resetinsert" => op = "mkdir"
    BY EntryPoint DEF Locks
<1>3. /\ Others(t)
      /\ frame'[t] = [Idle EXCEPT !.pc = to, !.op = op, !.arg = arg, !.depth = 1,
                                  !.parent = 1, !.result = answer]
    BY <1>1 DEF Begin, Others
<1> HIDE DEF to, answer
<1>4. frame'[t] = [pc |-> to, op |-> op, arg |-> arg, depth |-> 1, parent |-> 1, id |-> 0,
                   result |-> answer]
    BY <1>3 DEF Idle
<1>5. UNCHANGED <<entries, change, selbynampar, insertentry, updsyncdelid, dbcache_mutex>>
    BY DEF Begin, stmtVars, tableVars
<1>6. CallOK(t)'
    <2>1. /\ FrameShape(frame'[t]) /\ frame'[t].pc = to /\ frame'[t].op = op
          /\ frame'[t].arg = arg /\ frame'[t].parent = 1 /\ frame'[t].id = 0
        BY <1>4 DEF FrameShape
    <2>2. CallType(t, frame[t])'
        BY <1>2, <2>1 DEF CallType, PCs, Ops, Inserting, UsesInsert
    <2> QED BY <1>2, <2>1, <2>2 DEF CallOK, FrameShape, Bound, Filing
<1>7. InSection(frame[t])' <=> InSection(frame[t])
    BY <1>1, <1>2, <1>4 DEF InSection
<1> QED BY <1>3, <1>5, <1>6, <1>7, FrameOnly DEF tableVars, stmtVars

LEMMA FuseCallStep == ASSUME IInv, NEW w \in Workers, FuseCall(w) PROVE IInv'
<1>1. w \in Threads
    BY DEF Threads
<1>2. PICK op \in {"find", "list", "mkdir", "rmdir"}, path \in Paths \cup {<<>>} :
          Begin(w, op, path) /\ (op \in {"mkdir", "rmdir"} => path \in Paths)
    BY DEF FuseCall, fuseapi_getattr, fuseapi_readdir, fuseapi_mkdir, fuseapi_rmdir
<1> QED BY <1>1, <1>2, BeginStep DEF Ops

LEMMA DriveCallStep == ASSUME IInv, DriveCall PROVE IInv'
<1>1. DriveThread \in Threads
    BY DEF Threads
<1>2. PICK f \in Files : Begin(DriveThread, "update", f)
    BY DEF DriveCall
<1> QED BY <1>1, <1>2, BeginStep DEF Ops

-----------------------------------------------------------------------------
LEMMA InitIInv == ASSUME Init PROVE IInv
<1>1. entries \in Tables /\ entries \in Seq(Row) /\ entries # <<>> /\ entries[1].parent = Null
    BY StatementsAssumption DEF Init, Settled
<1>2. Table
    BY <1>1 DEF Init, Table, TableTypeOK, Root1
<1>3. Selects /\ Marks /\ Parameters
    BY DEF Init, Selects, Marks, Parameters, Ready, OnRow, Halted
<1>4. Frames
    BY DEF Init, Frames, CallOK, FrameShape, CallType, Bound, Filing, Idle, PCs, Ops, Inserting,
           UsesInsert
<1>5. Mutex
    BY StatementsAssumption DEF Init, Mutex, InSection, Idle
<1> QED BY <1>2, <1>3, <1>4, <1>5 DEF IInv

\* One step per statement call of a thread.
LEMMA InCallStep == ASSUME IInv, NEW t \in Threads, InCall(t) PROVE IInv'
<1>1. CASE Lock(t)          BY <1>1, LockStep
<1>2. CASE Return(t)        BY <1>2, ReturnStep
<1>3. CASE Reset(t)         BY <1>3, ResetStep
<1>4. CASE BindName(t)      BY <1>4, BindNameStep
<1>5. CASE BindParent(t)    BY <1>5, BindParentStep
<1>6. CASE Step(t)          BY <1>6, StepStep
<1>7. CASE ReadId(t)        BY <1>7, ReadIdStep
<1>8. CASE ReadType(t)      BY <1>8, ReadTypeStep
<1>9. CASE ResetMark(t)     BY <1>9, ResetMarkStep
<1>10. CASE BindId(t)       BY <1>10, BindIdStep
<1>11. CASE Mark(t)         BY <1>11, MarkStep
<1>12. CASE FindRoot(t)     BY <1>12, FindRootStep
<1>13. CASE NextRow(t)      BY <1>13, NextRowStep
<1>14. CASE LookupUuid(t)   BY <1>14, LookupUuidStep
<1>15. CASE LookupParent(t) BY <1>15, LookupParentStep
<1>16. CASE FileEntry(t)    BY <1>16, FileEntryStep
<1>17. CASE ResetInsert(t)  BY <1>17, ResetInsertStep
<1>18. CASE BindFields(t)   BY <1>18, BindFieldsStep
<1>19. CASE Insert(t)       BY <1>19, InsertStep
<1> QED BY <1>1, <1>2, <1>3, <1>4, <1>5, <1>6, <1>7, <1>8, <1>9, <1>10, <1>11, <1>12, <1>13,
           <1>14, <1>15, <1>16, <1>17, <1>18, <1>19 DEF InCall

LEMMA StutterIInv == IInv /\ UNCHANGED vars => IInv'
BY DEF IInv, vars, stmtVars, tableVars, Table, TableTypeOK, Root1, Selects, Marks, Parameters,
       Frames, CallOK, FrameShape, CallType, Bound, Filing, OwnRow, Mutex, InSection

LEMMA NextIInv == ASSUME IInv, [Next]_vars PROVE IInv'
<1>1. CASE DriveCall
    BY <1>1, DriveCallStep
<1>2. ASSUME NEW w \in Workers, FuseCall(w) PROVE IInv'
    BY <1>2, FuseCallStep
<1>3. ASSUME NEW t \in Threads, InCall(t) PROVE IInv'
    BY <1>3, InCallStep
<1>4. CASE UNCHANGED vars
    BY <1>4, StutterIInv
<1> QED BY <1>1, <1>2, <1>3, <1>4 DEF Next, Finished

LEMMA Invariance == Spec => []IInv
BY InitIInv, NextIInv, PTL DEF Spec

LEMMA IInvTypeOK == ASSUME IInv PROVE TypeOK
<1>1. /\ TableTypeOK
      /\ selbynampar.run \in {Ready, OnRow, Halted} /\ selbynampar.row \in {0} \cup DOMAIN entries
      /\ insertentry.run \in {Ready, Halted} /\ updsyncdelid.run \in {Ready, Halted}
      /\ dbcache_mutex \in Threads \cup {Nobody}
    BY DEF IInv, Table, Selects, Marks, Parameters, Mutex
<1>2. ASSUME NEW t \in Threads
      PROVE  /\ frame[t].pc \in PCs /\ frame[t].id \in Nat /\ frame[t].parent \in Nat \cup {Null}
             /\ dbcache_mutex = t <=> Locks(frame[t].op) /\ frame[t].pc \notin {"idle", "lock"}
    BY DEF IInv, Frames, CallOK, CallType, Mutex, InSection
<1> QED BY <1>1, <1>2 DEF TypeOK

\* The table and the statements keep their types, and dbcache_mutex is held by exactly the
\* dbcache_update, _findbypath or _listdir that is past pthread_mutex_lock, for any number
\* of threads of libfuse (mkdir and rmdir do not disturb it).
THEOREM StatementsTypeCorrect == Spec => []TypeOK
BY Invariance, IInvTypeOK, PTL

-----------------------------------------------------------------------------
(* What happens to a row                                                    *)

\* The steps that write the table are three.
LEMMA WritesTable ==
    ASSUME NEW t \in Threads, InCall(t)
    PROVE  UNCHANGED entries \/ Mark(t) \/ FileEntry(t) \/ Insert(t)
BY DEF InCall, Lock, Return, Reset, BindName, BindParent, Step, ReadId, ReadType, ResetMark,
       BindId, FindRoot, NextRow, LookupUuid, LookupParent, ResetInsert, BindFields, BindInsert,
       KeepTable, tableVars

LEMMA InCallKeeps ==
    ASSUME IInv, NEW t \in Threads, InCall(t), NEW i \in DOMAIN entries
    PROVE  Kept(i)
<1>1. CASE UNCHANGED entries
    BY <1>1 DEF Kept
<1>2. CASE Mark(t)
    <2>1. DOMAIN entries' = DOMAIN entries
        BY <1>2, MarkRows, TableShape DEF IInv, Table, TableTypeOK
    <2> QED BY <1>2, <2>1, MarkRows DEF IInv, Table, Kept
<1>3. CASE FileEntry(t)
    BY <1>3, FileRows
<1>4. CASE Insert(t)
    <2>1. i \in DOMAIN entries' /\ entries'[i] = entries[i]
        BY <1>4, InsertRows
    <2> QED BY <2>1 DEF Kept
<1> QED BY <1>1, <1>2, <1>3, <1>4, WritesTable

LEMMA NextKeeps == ASSUME IInv, Next, NEW i \in DOMAIN entries PROVE Kept(i)
<1>1. CASE DriveCall
    <2>1. UNCHANGED entries
        BY <1>1 DEF DriveCall, Begin, tableVars
    <2> QED BY <2>1 DEF Kept
<1>2. ASSUME NEW w \in Workers, FuseCall(w) PROVE Kept(i)
    <2>1. UNCHANGED entries
        BY <1>2 DEF FuseCall, fuseapi_getattr, fuseapi_readdir, fuseapi_mkdir, fuseapi_rmdir, Begin,
                    tableVars
    <2> QED BY <2>1 DEF Kept
<1>3. ASSUME NEW t \in Threads, InCall(t) PROVE Kept(i)
    BY <1>3, InCallKeeps
<1>4. CASE UNCHANGED vars
    BY <1>4 DEF Kept, vars, tableVars
<1> QED BY <1>1, <1>2, <1>3, <1>4 DEF Next, Finished

\* However the calls of any number of threads meet in the prepared statements: no row is
\* lost or takes another name, type or (but for the root) uuid, and only rows of Drive files
\* are filed elsewhere (dbcache_update, dbcache_rmdir).
THEOREM RowsKeptCorrect == Spec => RowsKeepIdentity
<1>1. IInv /\ [Next]_vars =>
        [\A i \in DOMAIN entries :
            /\ i \in DOMAIN entries'
            /\ entries'[i].name = entries[i].name /\ entries'[i].type = entries[i].type
            /\ i # 1 => entries'[i].uuid = entries[i].uuid
            /\ entries'[i].parent # entries[i].parent => entries[i].uuid # Null]_vars
    BY NextKeeps DEF Kept
<1> QED BY <1>1, Invariance, PTL DEF Spec, RowsKeepIdentity

-----------------------------------------------------------------------------
(* Calls that are alone with their statements                               *)

\* What an undisturbed call has selbynampar, insertentry and updsyncdelid for.
Selected(c) ==
    /\ c.pc \in {"bindname", "bindparent", "step"} => selbynampar.run = Ready
    /\ c.pc \in {"bindparent", "step"} => selbynampar.name = NameOf(c)
    /\ c.pc = "step" => selbynampar.parent = c.parent
    /\ c.pc \in {"readid", "readtype"} =>
           selbynampar.row \in DOMAIN entries /\ entries[selbynampar.row].name = NameOf(c)
    /\ c.pc = "readtype" => c.id = selbynampar.row

Given(c) ==
    /\ UsesInsert(c.pc) => insertentry.run = Ready
    /\ c.pc \in {"bindfname", "binddata", "bindfparent", "insert"} =>
           insertentry.uuid = RowOf(c).uuid
    /\ c.pc \in {"binddata", "bindfparent", "insert"} => insertentry.name = RowOf(c).name
    /\ c.pc \in {"bindfparent", "insert"} =>
           insertentry.type = RowOf(c).type /\ insertentry.sync = RowOf(c).sync
    /\ c.pc = "insert" => insertentry.parent = RowOf(c).parent

Marking(c) ==
    /\ c.pc = "bindid" => updsyncdelid.run = Ready
    /\ c.pc = "mark" => updsyncdelid.id = c.id
    /\ c.pc \in {"resetmark", "bindid", "mark"} =>
           c.id \in DOMAIN entries \ {1} /\ entries[c.id].type = Dir

InOrder(c) == Selected(c) /\ Given(c) /\ Marking(c)

Lone == \A t \in Threads : ~disturbed[t] => InOrder(frame[t])

\* Row 1 is the root and no other row is.
Heads ==
    /\ entries[1].name = RootName /\ entries[1].uuid \in {Null, Empty, Root}
    /\ \A i \in DOMAIN entries \ {1} : entries[i].uuid \in {Null} \cup (Uuids \ {Root})

\* The uuid left in the INSERT, by whichever call, is of a row or about to be of one: what
\* mkdir inserts with it is no file that dbcache_update has yet to find missing.
Binds(u) ==
    LET c == frame[DriveThread] IN
    c.pc \in {"bindfname", "binddata", "bindfparent", "insert"} /\ c.op = "update" /\ c.arg.uuid = u

Stale ==
    /\ insertentry.uuid \in {Null} \cup (Uuids \ {Root})
    /\ insertentry.uuid # Null => ByUuid(insertentry.uuid) # {} \/ Binds(insertentry.uuid)

\* What dbcache_update has found of its file stands until it goes on from it.
RowFound(c) == c.id = IF ByUuid(c.arg.uuid) = {} THEN 0 ELSE First(ByUuid(c.arg.uuid))

LookedUp == \A t \in Threads : frame[t].pc = "parent" => RowFound(frame[t])

OneRow == \A i, j \in DOMAIN entries :
              entries[i].uuid = entries[j].uuid /\ entries[i].uuid \in Uuids => i = j

MarksOnDirs == \A i \in DOMAIN entries : entries[i].sync = -1 => entries[i].type = Dir /\ i # 1

StillMissing ==
    \A t \in Threads :
        frame[t].op = "update" /\ Inserting(frame[t].pc) => ByUuid(frame[t].arg.uuid) = {}

History == disturbed \in [Threads -> BOOLEAN] /\ overlapped \in BOOLEAN

Sound ==
    /\ \A t \in Threads : disturbed[t] => overlapped
    /\ ~overlapped => OneRow /\ MarksOnDirs /\ StillMissing

Walks == {"reset", "bindname", "bindparent", "step", "readid"}

InPlace(c) ==
    /\ c.pc \in Walks => c.op \in {"find", "list", "mkdir", "rmdir"}
    /\ c.pc \in {"readtype", "resetmark", "bindid", "mark"} => c.op = "rmdir"
    /\ c.pc = "rows" => c.op = "list"
    /\ c.pc = "root" => c.op = "find" /\ c.arg = <<>>

Places == \A t \in Threads : InPlace(frame[t])

LInv == IInv /\ History /\ Places /\ Heads /\ Stale /\ LookedUp /\ Lone /\ Sound

-----------------------------------------------------------------------------
(* What a step does to the table                                            *)

Grows ==
    /\ DOMAIN entries \subseteq DOMAIN entries'
    /\ \A i \in DOMAIN entries :
          /\ entries'[i].uuid = entries[i].uuid /\ entries'[i].name = entries[i].name
          /\ entries'[i].type = entries[i].type /\ entries'[i].parent = entries[i].parent
          /\ \A j \in DOMAIN entries' \ DOMAIN entries : i <= j

LEMMA InsertShape ==
    ASSUME IInv, NEW t \in Threads, Insert(t)
    PROVE  LET n == Len(entries) + 1 IN
           /\ n \in Nat \ {0, 1} /\ DOMAIN entries' = DOMAIN entries \cup {n}
           /\ n \notin DOMAIN entries /\ \A i \in DOMAIN entries : i <= n
           /\ entries'[n] = BoundRow /\ \A i \in DOMAIN entries : entries'[i] = entries[i]
<1>1. Parameters /\ Bound(frame[t]) /\ frame[t].pc = "insert"
    BY DEF IInv, Frames, CallOK, Insert, At
<1>2. BoundRow \in Row
    BY <1>1 DEF BoundRow, Row, Parameters, Bound, AnyName
<1>3. PICK r \in Row : r = BoundRow
    BY <1>2
<1>4. entries' = Append(entries, r)
    BY <1>3 DEF Insert
<1>5. /\ Len(entries') = Len(entries) + 1 /\ entries'[Len(entries) + 1] = r
      /\ entries' \in Seq(Row) /\ \A j \in 1..Len(entries) : entries'[j] = entries[j]
    BY <1>4, RootIsThere, AddRow
<1>6. DOMAIN entries' = 1..(Len(entries) + 1)
    BY <1>5, LenProperties
<1> QED BY <1>3, <1>5, <1>6, RootIsThere

LEMMA FileShape ==
    ASSUME IInv, NEW t \in Threads, FileEntry(t)
    PROVE  LET c == frame[t] IN
           /\ t = DriveThread /\ c.op = "update" /\ c.arg \in Files /\ c.id \in DOMAIN entries
           /\ IF c.arg.parent = Empty THEN c.id = 1 /\ c.parent = Null
              ELSE entries[c.id].uuid = c.arg.uuid
           /\ DOMAIN entries' = DOMAIN entries
           /\ \A i \in DOMAIN entries :
                  /\ entries'[i].name = entries[i].name /\ entries'[i].type = entries[i].type
                  /\ entries'[i].sync = entries[i].sync
                  /\ i # c.id => entries'[i] = entries[i]
                  /\ i = c.id => entries'[i].uuid = c.arg.uuid /\ entries'[i].parent = c.parent
<1> DEFINE c == frame[t]
           id == c.id
<1>1. /\ CallOK(t) /\ c.pc = "file" /\ c.op = "update" /\ c.arg \in Files
      /\ c.parent \in Nat \cup {Null}
    BY DEF IInv, Frames, CallOK, CallType, FileEntry, At
<1>2. c.arg.uuid \in Uuids \cup {Empty}
    BY <1>1, FileFields
<1>3. /\ id \in DOMAIN entries
      /\ IF c.arg.parent = Empty THEN id = 1 /\ c.parent = Null ELSE entries[id].uuid = c.arg.uuid
    BY <1>1, RootIsThere DEF CallOK, Filing, OwnRow
<1>4. id \in 1..Len(entries) /\ entries[id] \in Row
    BY <1>3, RootIsThere, TableShape
<1> DEFINE r == [uuid |-> c.arg.uuid, name |-> entries[id].name, type |-> entries[id].type,
                 sync |-> entries[id].sync, parent |-> c.parent]
<1>5. r \in Row
    BY <1>1, <1>2, <1>4 DEF Row
<1>6. entries' = [entries EXCEPT ![id] = r]
    BY DEF FileEntry, updbyid
<1>7. /\ r.uuid = c.arg.uuid /\ r.name = entries[id].name /\ r.type = entries[id].type
      /\ r.parent = c.parent /\ r.sync = entries[id].sync
    OBVIOUS
<1> HIDE DEF r, id
<1>8. \A j \in 1..Len(entries) : entries'[j] = IF j = id THEN r ELSE entries[j]
    BY <1>4, <1>5, <1>6, RootIsThere, ReplaceRow
<1>9. t = DriveThread /\ DOMAIN entries' = DOMAIN entries
    BY FileRows
<1>10. ASSUME NEW i \in DOMAIN entries
       PROVE  /\ entries'[i].name = entries[i].name /\ entries'[i].type = entries[i].type
              /\ entries'[i].sync = entries[i].sync
              /\ i # id => entries'[i] = entries[i]
              /\ i = id => entries'[i].uuid = c.arg.uuid /\ entries'[i].parent = c.parent
    BY <1>7, <1>8, RootIsThere
<1> QED BY <1>1, <1>3, <1>9, <1>10 DEF id

\* But for the UPDATE they leave what is found in it to be found.
LEMMA InCallGrows ==
    ASSUME IInv, NEW t \in Threads, InCall(t)
    PROVE  Grows \/ FileEntry(t)
<1>1. CASE UNCHANGED entries
    BY <1>1 DEF Grows
<1>2. CASE Mark(t)
    <2>1. DOMAIN entries' = DOMAIN entries
        BY <1>2, MarkRows, TableShape DEF IInv, Table, TableTypeOK
    <2> QED BY <1>2, <2>1, MarkRows DEF IInv, Table, Grows
<1>3. CASE Insert(t)
    BY <1>3, InsertShape DEF Grows
<1> QED BY <1>1, <1>2, <1>3, WritesTable

\* The first of the rows found stays the first when rows are added behind.
LEMMA SameFirst ==
    ASSUME NEW B \in SUBSET Nat, NEW A \in SUBSET B, A # {}, \A i \in A : \A j \in B \ A : i <= j
    PROVE  First(B) = First(A)
<1>1. First(A) \in A /\ \A j \in A : First(A) <= j
    <2>1. A \in SUBSET Nat
        OBVIOUS
    <2> QED BY <2>1, FirstIsMember
<1>2. B # {} /\ First(B) \in B /\ \A j \in B : First(B) <= j
    BY FirstIsMember
<1> DEFINE a == First(A)
           b == First(B)
<1>3. a <= b /\ b <= a /\ a \in Nat /\ b \in Nat
    BY <1>1, <1>2
<1> HIDE DEF a, b
<1>4. a = b
    BY <1>3
<1> QED BY <1>4 DEF a, b

LEMMA IdsAreNat == IInv => DOMAIN entries \in SUBSET Nat
BY RootIsThere

LEMMA UuidsGrow ==
    ASSUME IInv, IInv', Grows, NEW u
    PROVE  /\ ByUuid(u) # {} => ByUuid(u)' # {} /\ First(ByUuid(u))' = First(ByUuid(u))
<1> DEFINE A == ByUuid(u)
           B == ByUuid(u)'
<1>1. B \in SUBSET Nat
    <2>1. IInv' => (DOMAIN entries \in SUBSET Nat)'
        BY IdsAreNat, PTL
    <2> QED BY <2>1 DEF ByUuid
<1>2. A \in SUBSET B /\ \A i \in A : \A j \in B \ A : i <= j
    BY DEF ByUuid, Grows
<1> HIDE DEF A, B
<1>3. A # {} => First(B) = First(A)
    BY <1>1, <1>2, SameFirst
<1> QED BY <1>2, <1>3 DEF A, B

-----------------------------------------------------------------------------
(* What a step does to the other calls                                      *)

LEMMA InCallOthers == ASSUME IInv, NEW t \in Threads, InCall(t) PROVE Others(t)
<1>1. DOMAIN frame = Threads
    BY DEF IInv, Frames
<1>2. CASE ReadId(t)
    BY <1>1, <1>2 DEF ReadId, Others
<1>3. CASE BindFields(t)
    BY <1>1, <1>3 DEF BindFields, BindInsert, Goto, Others
<1>4. CASE LookupUuid(t) \/ LookupParent(t) \/ FileEntry(t)
    BY <1>1, <1>4 DEF LookupUuid, LookupParent, FileEntry, Goto, Finish, Others
<1>5. CASE Step(t) \/ ReadType(t) \/ Mark(t) \/ NextRow(t) \/ FindRoot(t) \/ Insert(t)
    BY <1>1, <1>5 DEF Step, ReadType, Mark, NextRow, FindRoot, Insert, Goto, Finish, Others
<1>6. CASE \/ Lock(t) \/ Return(t) \/ Reset(t) \/ BindName(t) \/ BindParent(t)
           \/ ResetMark(t) \/ BindId(t) \/ ResetInsert(t)
    BY <1>1, <1>6 DEF Lock, Return, Reset, BindName, BindParent, ResetMark, BindId, ResetInsert,
                      Goto, Others
<1> QED BY <1>2, <1>3, <1>4, <1>5, <1>6 DEF InCall

\* Whoever changes a statement, or binds and executes it, has touched it.
LEMMA Touching ==
    ASSUME NEW t \in Threads, InCall(t)
    PROVE  /\ \/ UNCHANGED selbynampar
              \/ Touch(t, "selbynampar") /\ frame[t].pc \notin {"idle", "lock"}
           /\ \/ UNCHANGED insertentry
              \/ Touch(t, "insertentry") /\ frame[t].pc \notin {"idle", "lock"}
           /\ \/ UNCHANGED updsyncdelid
              \/ Touch(t, "updsyncdelid") /\ frame[t].pc \notin {"idle", "lock"}
           /\ \/ UNCHANGED <<disturbed, overlapped>>
              \/ \E s \in {"selbynampar", "insertentry", "updsyncdelid"} : Touch(t, s)
BY DEF InCall, Lock, Return, Reset, BindName, BindParent, Step, ReadId, ReadType, ResetMark,
       BindId, Mark, FindRoot, NextRow, LookupUuid, LookupParent, FileEntry, ResetInsert,
       BindFields, BindInsert, Insert, TouchNothing, stmtVars, At

\* Whose statement is touched is disturbed, or both hold the mutex: but one thread does.
LEMMA Disturbs ==
    ASSUME IInv, NEW t \in Threads, NEW u \in Threads \ {t}, NEW s, Touch(t, s), Using(u, s),
           frame[t].pc \notin {"idle", "lock"}
    PROVE  disturbed'[u]
<1>1. frame[u].pc \notin {"idle", "lock"}
    BY DEF Using, UsesNampar, UsesInsert, UsesMark
<1>2. ~(Locks(frame[t].op) /\ Locks(frame[u].op))
    <2>1. SUFFICES ASSUME Locks(frame[t].op), Locks(frame[u].op) PROVE FALSE
        OBVIOUS
    <2>2. InSection(frame[t]) /\ InSection(frame[u])
        BY <1>1, <2>1 DEF InSection
    <2>3. dbcache_mutex = t /\ dbcache_mutex = u
        BY <2>2 DEF IInv, Mutex
    <2> QED BY <2>3
<1>3. u \in Victims(t, s)
    BY <1>2 DEF Victims
<1> QED BY <1>3 DEF Touch

LEMMA HistoryStep ==
    ASSUME IInv, History, NEW t \in Threads, InCall(t)
    PROVE  /\ History'
           /\ \A u \in Threads : disturbed[u] => disturbed'[u]
           /\ disturbed'[t] = disturbed[t]
           /\ overlapped => overlapped'
           /\ (\A u \in Threads : disturbed[u] => overlapped) =>
                  (\A u \in Threads : disturbed'[u] => overlapped')
<1>1. CASE UNCHANGED <<disturbed, overlapped>>
    BY <1>1 DEF History
<1>2. ASSUME NEW s, Touch(t, s)
      PROVE  /\ History'
             /\ \A u \in Threads : disturbed[u] => disturbed'[u]
             /\ disturbed'[t] = disturbed[t]
             /\ overlapped => overlapped'
             /\ (\A u \in Threads : disturbed[u] => overlapped) =>
                    (\A u \in Threads : disturbed'[u] => overlapped')
    <2>1. /\ disturbed' = [u \in Threads |-> disturbed[u] \/ u \in Victims(t, s)]
          /\ overlapped' = (overlapped \/ Victims(t, s) # {})
        BY <1>2 DEF Touch
    <2>2. t \notin Victims(t, s)
        BY DEF Victims
    <2>3. \A u \in Threads : disturbed[u] \in BOOLEAN
        BY DEF History
    <2>4. disturbed'[t] = disturbed[t]
        BY <2>1, <2>2, <2>3
    <2>5. \A u \in Threads : disturbed'[u] <=> disturbed[u] \/ u \in Victims(t, s)
        BY <2>1
    <2>6. History'
        BY <2>1, <2>3 DEF History
    <2> QED BY <2>1, <2>4, <2>5, <2>6
<1> QED BY <1>1, <1>2, Touching

\* The statements a call is using, if nobody disturbs it.
LEMMA Untouched ==
    ASSUME IInv, NEW t \in Threads, InCall(t), NEW u \in Threads \ {t}, ~disturbed'[u]
    PROVE  /\ UsesNampar(frame[u].pc) => UNCHANGED selbynampar
           /\ UsesInsert(frame[u].pc) => UNCHANGED insertentry
           /\ UsesMark(frame[u].pc) => UNCHANGED updsyncdelid
BY Touching, Disturbs DEF Using

LEMMA LoneOthers ==
    ASSUME IInv, History, Lone, NEW t \in Threads, InCall(t), NEW u \in Threads \ {t},
           ~disturbed'[u]
    PROVE  InOrder(frame[u])'
<1>1. frame'[u] = frame[u]
    BY InCallOthers DEF Others
<1>2. InOrder(frame[u])
    BY HistoryStep DEF Lone
<1>3. /\ UsesNampar(frame[u].pc) => UNCHANGED selbynampar
      /\ UsesInsert(frame[u].pc) => UNCHANGED insertentry
      /\ UsesMark(frame[u].pc) => UNCHANGED updsyncdelid
    BY Untouched
<1>4. \A i \in DOMAIN entries : i \in DOMAIN entries' /\ entries'[i].name = entries[i].name
                                /\ entries'[i].type = entries[i].type
    BY InCallKeeps DEF Kept
<1>5. Selected(frame[u])'
    BY <1>1, <1>2, <1>3, <1>4 DEF InOrder, Selected, UsesNampar, NameOf
<1>6. Given(frame[u])'
    BY <1>1, <1>2, <1>3 DEF InOrder, Given, UsesInsert, RowOf
<1>7. Marking(frame[u])'
    BY <1>1, <1>2, <1>3, <1>4 DEF InOrder, Marking, UsesMark
<1> QED BY <1>5, <1>6, <1>7 DEF InOrder

-----------------------------------------------------------------------------
(* A call that is not disturbed, step by step                               *)

Elsewhere == PCs \ {"bindname", "bindparent", "step", "readid", "readtype",
                    "resetmark", "bindid", "mark",
                    "binduuid", "bindfname", "binddata", "bindfparent", "insert"}

\* Away from the prepared statements nothing is expected of them.
LEMMA ElsewhereInOrder == ASSUME NEW c, c.pc' \in Elsewhere PROVE InOrder(c)'
BY DEF Elsewhere, InOrder, Selected, Given, Marking, UsesInsert

LEMMA OrderLeft ==
    ASSUME IInv, NEW t \in Threads,
           Lock(t) \/ Return(t) \/ FindRoot(t) \/ NextRow(t) \/ LookupUuid(t) \/ LookupParent(t)
               \/ FileEntry(t) \/ Mark(t) \/ Insert(t)
    PROVE  InOrder(frame[t])'
<1>1. CallOK(t) /\ DOMAIN frame = Threads
    BY DEF IInv, Frames
<1>2. FrameShape(frame[t])
    BY <1>1 DEF CallOK
<1>3. CASE Lock(t)
    <2>1. frame[t].op \in Ops \ {"none"}
        BY <1>1, <1>3 DEF CallOK, CallType, Lock, At
    <2>2. Moves(t, Entry(frame[t].op, frame[t].arg))
        BY <1>3, GotoMoves DEF IInv, Lock
    <2>3. frame'[t].pc \in {"known", "resetinsert", "rows", "root", "reset"}
        BY <2>1, <2>2, EntryPoint DEF Moves
    <2> QED BY <2>3, ElsewhereInOrder DEF Elsewhere, PCs
<1>4. CASE Return(t)
    <2>1. frame'[t].pc = "idle"
        BY <1>1, <1>4 DEF Return, Idle
    <2> QED BY <2>1, ElsewhereInOrder DEF Elsewhere, PCs
<1>5. CASE FindRoot(t) \/ FileEntry(t) \/ Mark(t) \/ Insert(t)
    <2>1. Moves(t, "return")
        BY <1>5, FinishMoves DEF IInv, FindRoot, FileEntry, Mark, Insert
    <2> QED BY <2>1, ElsewhereInOrder DEF Moves, Elsewhere, PCs
<1>6. CASE NextRow(t)
    <2>1. frame'[t].pc \in {"rows", "return"}
        BY <1>1, <1>2, <1>6 DEF NextRow, Goto, At, FrameShape
    <2> QED BY <2>1, ElsewhereInOrder DEF Elsewhere, PCs
<1>7. CASE LookupUuid(t)
    <2>1. frame'[t].pc \in {"file", "parent"}
        BY <1>1, <1>2, <1>7 DEF LookupUuid, FrameShape
    <2> QED BY <2>1, ElsewhereInOrder DEF Elsewhere, PCs
<1>8. CASE LookupParent(t)
    <2>1. frame'[t].pc \in {"return", "resetinsert", "file"}
        BY <1>1, <1>2, <1>8 DEF LookupParent, Finish, FrameShape
    <2> QED BY <2>1, ElsewhereInOrder DEF Elsewhere, PCs
<1> QED BY <1>3, <1>4, <1>5, <1>6, <1>7, <1>8

LEMMA OrderReset == ASSUME IInv, NEW t \in Threads, Reset(t) PROVE InOrder(frame[t])'
<1>1. Moves(t, "bindname")
    BY GotoMoves DEF IInv, Reset
<1>2. selbynampar'.run = Ready
    BY DEF IInv, Selects, Reset
<1> QED BY <1>1, <1>2 DEF Moves, InOrder, Selected, Given, Marking, UsesInsert

LEMMA OrderBindName ==
    ASSUME IInv, NEW t \in Threads, BindName(t), InOrder(frame[t])
    PROVE  InOrder(frame[t])'
<1>1. Moves(t, "bindparent") /\ frame[t].pc = "bindname"
    BY GotoMoves DEF IInv, BindName, At
<1>2. selbynampar'.run = Ready /\ selbynampar'.name = NameOf(frame[t])
    BY <1>1 DEF IInv, Selects, BindName, InOrder, Selected
<1> QED BY <1>1, <1>2 DEF Moves, InOrder, Selected, Given, Marking, UsesInsert, NameOf

LEMMA OrderBindParent ==
    ASSUME IInv, NEW t \in Threads, BindParent(t), InOrder(frame[t])
    PROVE  InOrder(frame[t])'
<1>1. Moves(t, "step") /\ frame[t].pc = "bindparent"
    BY GotoMoves DEF IInv, BindParent, At
<1>2. /\ selbynampar'.run = Ready /\ selbynampar'.name = NameOf(frame[t])
      /\ selbynampar'.parent = frame[t].parent
    BY <1>1 DEF IInv, Selects, BindParent, InOrder, Selected
<1> QED BY <1>1, <1>2 DEF Moves, InOrder, Selected, Given, Marking, UsesInsert, NameOf

\* Where a step goes when the call is alone: to the first row of the name, if any.
LEMMA StepFinds ==
    ASSUME IInv, NEW t \in Threads, Step(t), Selected(frame[t])
    PROVE  LET rows == ByNamePar(NameOf(frame[t]), frame[t].parent) IN
           IF rows = {} THEN Moves(t, "return")
           ELSE /\ Moves(t, "readid") /\ First(rows) \in rows /\ rows \subseteq DOMAIN entries
                /\ selbynampar'.row = First(rows)
<1> DEFINE rows == ByNamePar(NameOf(frame[t]), frame[t].parent)
<1>1. frame[t].pc = "step"
    BY DEF Step, At
<1>2. RowsAhead = rows
    <2>1. /\ selbynampar.run = Ready /\ selbynampar.name = NameOf(frame[t])
          /\ selbynampar.parent = frame[t].parent
        BY <1>1 DEF Selected
    <2> QED BY <2>1 DEF RowsAhead, Ready, OnRow
<1>3. rows \in SUBSET DOMAIN entries
    BY DEF ByNamePar
<1> HIDE DEF rows
<1>4. CASE rows = {}
    BY <1>2, <1>4, FinishMoves DEF IInv, Step, rows
<1>5. CASE rows # {}
    <2>1. First(rows) \in rows
        BY <1>3, <1>5, FirstIsRow DEF IInv, Table
    <2>2. selbynampar'.row = First(rows)
        BY <1>2, <1>5 DEF IInv, Selects, Step
    <2>3. Moves(t, "readid")
        BY <1>2, <1>5, GotoMoves DEF IInv, Step
    <2> QED BY <1>3, <1>5, <2>1, <2>2, <2>3 DEF rows
<1> QED BY <1>4, <1>5

LEMMA OrderStep ==
    ASSUME IInv, NEW t \in Threads, Step(t), InOrder(frame[t])
    PROVE  InOrder(frame[t])'
<1> DEFINE rows == ByNamePar(NameOf(frame[t]), frame[t].parent)
<1>1. IF rows = {} THEN Moves(t, "return")
      ELSE /\ Moves(t, "readid") /\ First(rows) \in rows /\ rows \subseteq DOMAIN entries
           /\ selbynampar'.row = First(rows)
    BY StepFinds DEF InOrder
<1>2. CASE rows = {}
    BY <1>1, <1>2, ElsewhereInOrder DEF Moves, Elsewhere, PCs
<1>3. CASE rows # {}
    <2>1. /\ selbynampar'.row \in DOMAIN entries
          /\ entries[selbynampar'.row].name = NameOf(frame[t])
        BY <1>1, <1>3 DEF ByNamePar
    <2>2. UNCHANGED entries
        BY DEF Step, KeepTable, tableVars
    <2>3. Moves(t, "readid") /\ NameOf(frame[t])' = NameOf(frame[t])
        BY <1>1, <1>3 DEF Moves, NameOf
    <2>4. Selected(frame[t])'
        BY <2>1, <2>2, <2>3 DEF Moves, Selected
    <2> QED BY <2>3, <2>4 DEF Moves, InOrder, Given, Marking, UsesInsert
<1> QED BY <1>2, <1>3

\* The frame of call c at pc, with new locals.
With(c, pc, depth, parent, id, result) ==
    [pc |-> pc, op |-> c.op, arg |-> c.arg, depth |-> depth, parent |-> parent, id |-> id,
     result |-> result]

LEMMA WithFields ==
    \A c, pc, depth, parent, id, result :
        LET d == With(c, pc, depth, parent, id, result) IN
        /\ d.pc = pc /\ d.op = c.op /\ d.arg = c.arg /\ d.depth = depth /\ d.parent = parent
        /\ d.id = id /\ d.result = result
BY DEF With

LEMMA GotoFrame ==
    ASSUME IInv, NEW t \in Threads, NEW to, Goto(t, to)
    PROVE  LET c == frame[t] IN frame'[t] = With(c, to, c.depth, c.parent, c.id, c.result)
<1>1. FrameShape(frame[t]) /\ DOMAIN frame = Threads
    BY DEF IInv, Frames, CallOK
<1>2. frame'[t] = [frame[t] EXCEPT !.pc = to]
    BY <1>1 DEF Goto
<1> QED BY <1>1, <1>2 DEF FrameShape, With

LEMMA FinishFrame ==
    ASSUME IInv, NEW t \in Threads, NEW r, Finish(t, r)
    PROVE  LET c == frame[t] IN frame'[t] = With(c, "return", c.depth, c.parent, c.id, r)
<1>1. FrameShape(frame[t]) /\ DOMAIN frame = Threads
    BY DEF IInv, Frames, CallOK
<1>2. frame'[t] = [[frame[t] EXCEPT !.pc = "return"] EXCEPT !.result = r]
    BY <1>1 DEF Finish
<1> QED BY <1>1, <1>2 DEF FrameShape, With

\* Where a call goes from a row of selbynampar.
LEMMA ReadIdFrame ==
    ASSUME IInv, NEW t \in Threads, ReadId(t)
    PROVE  LET c == frame[t]
               row == selbynampar.row
           IN  /\ c.op = "mkdir" =>
                      frame'[t] = With(c, "resetinsert", c.depth, 0, c.id, c.result)
               /\ c.op = "rmdir" /\ LastLookup(c) =>
                      frame'[t] = With(c, "readtype", c.depth, c.parent, row, c.result)
               /\ c.op = "rmdir" /\ ~LastLookup(c) =>
                      frame'[t] = With(c, "reset", 2, 0, c.id, c.result)
               /\ c.op = "find" /\ LastLookup(c) =>
                      frame'[t] = With(c, "return", c.depth, c.parent, c.id, <<"found", row>>)
               /\ c.op = "list" /\ LastLookup(c) =>
                      frame'[t] = With(c, "rows", c.depth, row, c.id, c.result)
               /\ c.op \in {"find", "list"} /\ ~LastLookup(c) =>
                      frame'[t] = With(c, "reset", c.depth + 1, row, c.id, c.result)
<1> DEFINE c == frame[t]
           row == selbynampar.row
           new ==
          CASE c.op = "mkdir" -> [c EXCEPT !.pc = "resetinsert", !.parent = 0]
            [] c.op = "rmdir" /\ LastLookup(c) -> [c EXCEPT !.pc = "readtype", !.id = selbynampar.row]
            [] c.op = "rmdir" /\ ~LastLookup(c) -> [c EXCEPT !.pc = "reset", !.parent = 0, !.depth = 2]
            [] c.op = "find" /\ LastLookup(c) ->
                  [c EXCEPT !.pc = "return", !.result = <<"found", selbynampar.row>>]
            [] c.op = "list" /\ LastLookup(c) -> [c EXCEPT !.pc = "rows", !.parent = selbynampar.row]
            [] OTHER -> [c EXCEPT !.pc = "reset", !.parent = selbynampar.row, !.depth = @ + 1]
<1>1. DOMAIN frame = Threads /\ FrameShape(c)
    BY DEF IInv, Frames, CallOK
<1>2. c = [pc |-> c.pc, op |-> c.op, arg |-> c.arg, depth |-> c.depth, parent |-> c.parent,
           id |-> c.id, result |-> c.result]
    BY <1>1 DEF FrameShape
<1>3. frame'[t] = new
    <2>1. frame' = [frame EXCEPT ![t] = new]
        BY DEF ReadId
    <2> QED BY <1>1, <2>1
<1> HIDE DEF c
<1>4. ASSUME c.op = "mkdir" PROVE frame'[t] = With(c, "resetinsert", c.depth, 0, c.id, c.result)
    <2>1. frame'[t] = [c EXCEPT !.pc = "resetinsert", !.parent = 0]
        BY <1>3, <1>4
    <2> QED BY <1>2, <2>1 DEF With
<1>5. ASSUME c.op = "rmdir", LastLookup(c)
      PROVE  frame'[t] = With(c, "readtype", c.depth, c.parent, row, c.result)
    <2>1. frame'[t] = [c EXCEPT !.pc = "readtype", !.id = row]
        BY <1>3, <1>5
    <2> QED BY <1>2, <2>1 DEF With
<1>6. ASSUME c.op = "rmdir", ~LastLookup(c)
      PROVE  frame'[t] = With(c, "reset", 2, 0, c.id, c.result)
    <2>1. frame'[t] = [c EXCEPT !.pc = "reset", !.parent = 0, !.depth = 2]
        BY <1>3, <1>6
    <2> QED BY <1>2, <2>1 DEF With
<1>7. ASSUME c.op = "find", LastLookup(c)
      PROVE  frame'[t] = With(c, "return", c.depth, c.parent, c.id, <<"found", row>>)
    <2>1. frame'[t] = [c EXCEPT !.pc = "return", !.result = <<"found", row>>]
        BY <1>3, <1>7
    <2> QED BY <1>2, <2>1 DEF With
<1>8. ASSUME c.op = "list", LastLookup(c)
      PROVE  frame'[t] = With(c, "rows", c.depth, row, c.id, c.result)
    <2>1. frame'[t] = [c EXCEPT !.pc = "rows", !.parent = row]
        BY <1>3, <1>8
    <2> QED BY <1>2, <2>1 DEF With
<1>9. ASSUME c.op \in {"find", "list"}, ~LastLookup(c)
      PROVE  frame'[t] = With(c, "reset", c.depth + 1, row, c.id, c.result)
    <2>1. frame'[t] = [c EXCEPT !.pc = "reset", !.parent = row, !.depth = @ + 1]
        BY <1>3, <1>9
    <2> QED BY <1>2, <2>1 DEF With
<1> QED BY <1>4, <1>5, <1>6, <1>7, <1>8, <1>9 DEF c

LEMMA OrderReadId ==
    ASSUME IInv, NEW t \in Threads, ReadId(t), InOrder(frame[t]),
           frame[t].op \in {"find", "list", "mkdir", "rmdir"}
    PROVE  InOrder(frame[t])'
<1> DEFINE c == frame[t]
<1>1. c.pc = "readid" /\ UNCHANGED <<selbynampar, entries>>
    BY DEF ReadId, At, stmtVars, KeepTable, tableVars
<1>2. CASE c.op = "rmdir" /\ LastLookup(c)
    <2>1. frame'[t] = With(c, "readtype", c.depth, c.parent, selbynampar.row, c.result)
        BY <1>2, ReadIdFrame
    <2>2. selbynampar.row \in DOMAIN entries /\ entries[selbynampar.row].name = c.arg[1]
        BY <1>1, <1>2 DEF InOrder, Selected, NameOf, Locks
    <2>3. /\ frame'[t].pc = "readtype" /\ frame'[t].id = selbynampar.row
          /\ frame'[t].op = "rmdir" /\ frame'[t].arg = c.arg
        BY <1>2, <2>1, WithFields
    <2>4. Selected(frame[t])'
        BY <1>1, <2>2, <2>3 DEF Selected, NameOf, Locks
    <2> QED BY <2>3, <2>4 DEF InOrder, Given, Marking, UsesInsert
<1>3. CASE ~(c.op = "rmdir" /\ LastLookup(c))
    <2>1. frame'[t].pc \in {"resetinsert", "reset", "return", "rows"}
        <3>1. CASE c.op = "mkdir"
            BY <3>1, ReadIdFrame, WithFields
        <3>2. CASE c.op = "rmdir"
            BY <1>3, <3>2, ReadIdFrame, WithFields
        <3>3. CASE c.op \in {"find", "list"} /\ LastLookup(c)
            BY <3>3, ReadIdFrame, WithFields
        <3>4. CASE c.op \in {"find", "list"} /\ ~LastLookup(c)
            BY <3>4, ReadIdFrame, WithFields
        <3> QED BY <3>1, <3>2, <3>3, <3>4
    <2> QED BY <2>1, ElsewhereInOrder DEF Elsewhere, PCs
<1> QED BY <1>2, <1>3

\* The row rmdir has found bears a name of FUSE, so it is not the root's.
LEMMA FirstNames ==
    ASSUME NEW path \in Paths
    PROVE  path \in Seq(Names) /\ Len(path) \in Nat \ {0} /\ path[1] \in Names /\ path[1] # RootName
<1>1. path \in Seq(Names) /\ path # <<>>
    BY StatementsAssumption
<1>2. Len(path) \in Nat /\ Len(path) # 0
    BY <1>1, EmptySeq, LenProperties
<1>3. path[1] \in Names
    BY <1>1, <1>2, ElementOfSeq
<1> QED BY <1>1, <1>2, <1>3, DbAssumption

LEMMA OrderReadType ==
    ASSUME IInv, Heads, NEW t \in Threads, ReadType(t), InOrder(frame[t]), frame[t].op = "rmdir"
    PROVE  InOrder(frame[t])'
<1> DEFINE c == frame[t]
           row == selbynampar.row
<1>1. c.pc = "readtype" /\ UNCHANGED entries
    BY DEF ReadType, At, KeepTable, tableVars
<1>2. CASE entries[row].type = Dir
    <2>1. row \in DOMAIN entries /\ entries[row].name = c.arg[1] /\ c.id = row
        BY <1>1 DEF InOrder, Selected, NameOf, Locks
    <2>2. row # 0
        BY <2>1, RootIsThere
    <2>3. row # 1
        <3>1. c.arg \in Paths
            BY DEF IInv, Frames, CallOK, CallType
        <3> QED BY <2>1, <3>1, FirstNames DEF Heads
    <2>4. Moves(t, "resetmark")
        BY <1>2, <2>2, GotoMoves DEF IInv, ReadType
    <2>5. Marking(frame[t])'
        BY <1>1, <1>2, <2>1, <2>3, <2>4 DEF Moves, Marking
    <2> QED BY <2>4, <2>5 DEF Moves, InOrder, Selected, Given, UsesInsert
<1>3. CASE entries[row].type # Dir
    <2>1. Moves(t, "return")
        BY <1>3, FinishMoves DEF IInv, ReadType
    <2> QED BY <2>1, ElsewhereInOrder DEF Moves, Elsewhere, PCs
<1> QED BY <1>2, <1>3

LEMMA OrderResetMark ==
    ASSUME IInv, NEW t \in Threads, ResetMark(t), InOrder(frame[t])
    PROVE  InOrder(frame[t])'
<1>1. Moves(t, "bindid") /\ frame[t].pc = "resetmark" /\ UNCHANGED entries
    BY GotoMoves DEF IInv, ResetMark, At, KeepTable, tableVars
<1>2. updsyncdelid'.run = Ready
    BY DEF IInv, Marks, ResetMark
<1> QED BY <1>1, <1>2 DEF Moves, InOrder, Selected, Given, Marking, UsesInsert

LEMMA OrderBindId ==
    ASSUME IInv, NEW t \in Threads, BindId(t), InOrder(frame[t])
    PROVE  InOrder(frame[t])'
<1>1. Moves(t, "mark") /\ frame[t].pc = "bindid" /\ UNCHANGED entries
    BY GotoMoves DEF IInv, BindId, At, KeepTable, tableVars
<1>2. updsyncdelid'.id = frame[t].id
    BY <1>1 DEF IInv, Marks, BindId, InOrder, Marking
<1> QED BY <1>1, <1>2 DEF Moves, InOrder, Selected, Given, Marking, UsesInsert

LEMMA OrderResetInsert ==
    ASSUME IInv, NEW t \in Threads, ResetInsert(t)
    PROVE  InOrder(frame[t])'
<1>1. Moves(t, "binduuid")
    BY GotoMoves DEF IInv, ResetInsert
<1>2. insertentry'.run = Ready
    BY DEF IInv, Parameters, ResetInsert
<1> QED BY <1>1, <1>2 DEF Moves, InOrder, Selected, Given, Marking

LEMMA OrderBindFields ==
    ASSUME IInv, NEW t \in Threads, BindFields(t), InOrder(frame[t])
    PROVE  InOrder(frame[t])'
<1> DEFINE row == RowOf(frame[t])
           ie == insertentry
<1>1. ie = [run |-> ie.run, uuid |-> ie.uuid, name |-> ie.name, type |-> ie.type,
            sync |-> ie.sync, parent |-> ie.parent]
    BY DEF IInv, Parameters
<1>2. ASSUME NEW to, Moves(t, to) PROVE RowOf(frame[t])' = row
    BY <1>2 DEF Moves, RowOf
<1> HIDE DEF row
<1>3. CASE BindInsert(t, "binduuid", "bindfname", [ie EXCEPT !.uuid = row.uuid])
    <2>1. Moves(t, "bindfname") /\ frame[t].pc = "binduuid"
        BY <1>3, GotoMoves DEF IInv, BindInsert, At
    <2>2. ie.run = Ready
        BY <2>1 DEF InOrder, Given, UsesInsert
    <2>3. ie' = [run |-> ie.run, uuid |-> row.uuid, name |-> ie.name, type |-> ie.type,
                 sync |-> ie.sync, parent |-> ie.parent]
        BY <1>1, <1>3, <2>2 DEF BindInsert
    <2>4. Given(frame[t])'
        BY <1>2, <2>1, <2>2, <2>3 DEF Moves, Given
    <2> QED BY <2>1, <2>4 DEF Moves, InOrder, Selected, Marking
<1>4. CASE BindInsert(t, "bindfname", "binddata", [ie EXCEPT !.name = row.name])
    <2>1. Moves(t, "binddata") /\ frame[t].pc = "bindfname"
        BY <1>4, GotoMoves DEF IInv, BindInsert, At
    <2>2. ie.run = Ready /\ ie.uuid = row.uuid
        BY <2>1 DEF InOrder, Given, UsesInsert, row
    <2>3. ie' = [run |-> ie.run, uuid |-> ie.uuid, name |-> row.name, type |-> ie.type,
                 sync |-> ie.sync, parent |-> ie.parent]
        BY <1>1, <1>4, <2>2 DEF BindInsert
    <2>4. Given(frame[t])'
        BY <1>2, <2>1, <2>2, <2>3 DEF Moves, Given
    <2> QED BY <2>1, <2>4 DEF Moves, InOrder, Selected, Marking
<1>5. CASE BindInsert(t, "binddata", "bindfparent", [ie EXCEPT !.type = row.type, !.sync = row.sync])
    <2>1. Moves(t, "bindfparent") /\ frame[t].pc = "binddata"
        BY <1>5, GotoMoves DEF IInv, BindInsert, At
    <2>2. ie.run = Ready /\ ie.uuid = row.uuid /\ ie.name = row.name
        BY <2>1 DEF InOrder, Given, UsesInsert, row
    <2>3. ie' = [run |-> ie.run, uuid |-> ie.uuid, name |-> ie.name, type |-> row.type,
                 sync |-> row.sync, parent |-> ie.parent]
        BY <1>1, <1>5, <2>2 DEF BindInsert
    <2>4. Given(frame[t])'
        BY <1>2, <2>1, <2>2, <2>3 DEF Moves, Given
    <2> QED BY <2>1, <2>4 DEF Moves, InOrder, Selected, Marking
<1>6. CASE BindInsert(t, "bindfparent", "insert", [ie EXCEPT !.parent = row.parent])
    <2>1. Moves(t, "insert") /\ frame[t].pc = "bindfparent"
        BY <1>6, GotoMoves DEF IInv, BindInsert, At
    <2>2. /\ ie.run = Ready /\ ie.uuid = row.uuid /\ ie.name = row.name
          /\ ie.type = row.type /\ ie.sync = row.sync
        BY <2>1 DEF InOrder, Given, UsesInsert, row
    <2>3. ie' = [run |-> ie.run, uuid |-> ie.uuid, name |-> ie.name, type |-> ie.type,
                 sync |-> ie.sync, parent |-> row.parent]
        BY <1>1, <1>6, <2>2 DEF BindInsert
    <2>4. Given(frame[t])'
        BY <1>2, <2>1, <2>2, <2>3 DEF Moves, Given
    <2> QED BY <2>1, <2>4 DEF Moves, InOrder, Selected, Marking
<1> QED BY <1>3, <1>4, <1>5, <1>6 DEF BindFields, row

-----------------------------------------------------------------------------
(* The whole of the invariant, in a step inside a call                      *)

\* A path of FUSE is empty, or it has a name.
LEMMA PathLength ==
    ASSUME NEW path \in Paths \cup {<<>>}
    PROVE  /\ path \in Seq(Names) /\ Len(path) \in Nat /\ (Len(path) = 0 <=> path = <<>>)
           /\ DOMAIN path = 1..Len(path)
<1>1. path \in Seq(Names)
    BY StatementsAssumption, EmptySeq
<1> QED BY <1>1, EmptySeq, LenProperties

\* Only dbcache_update's own lookups lead to its other one, and to its INSERT.
Arrives(t) ==
    /\ InPlace(frame[t])'
    /\ frame[t].pc' = "parent" => LookupUuid(t)
    /\ (frame[t].op = "update" /\ Inserting(frame[t].pc))' =>
           LookupParent(t) \/ ResetInsert(t) \/ BindFields(t)

LEMMA PlaceStep ==
    ASSUME IInv, NEW t \in Threads, InCall(t), InPlace(frame[t])
    PROVE  Arrives(t)
<1> DEFINE c == frame[t]
<1>1. CallType(t, c) /\ DOMAIN frame = Threads
    BY DEF IInv, Frames, CallOK
<1>2. CASE Lock(t)
    <2>1. c.pc = "lock" /\ c.op \in Ops \ {"none"} /\ Moves(t, Entry(c.op, c.arg))
        BY <1>1, <1>2, GotoMoves DEF IInv, Lock, At, CallType
    <2>2. c.op \in {"find", "list"} /\ Len(c.arg) = 0 => c.arg = <<>>
        BY <1>1, PathLength DEF CallType
    <2> QED BY <2>1, <2>2, EntryPoint
            DEF Arrives, Inserting, UsesInsert, Moves, InPlace, Walks, CallType, Ops
<1>3. CASE Return(t)
    <2>1. frame'[t] = Idle
        BY <1>1, <1>3 DEF Return
    <2> QED BY <2>1 DEF Arrives, Inserting, UsesInsert, Idle, InPlace, Walks
<1>4. CASE Reset(t) \/ BindName(t) \/ BindParent(t)
    <2>1. c.pc \in Walks /\ \E to \in Walks : Moves(t, to)
        BY <1>4, GotoMoves DEF IInv, Reset, BindName, BindParent, At, Walks
    <2> QED BY <2>1 DEF Arrives, Inserting, UsesInsert, Moves, InPlace, Walks
<1>5. CASE Step(t)
    <2>1. c.pc = "step" /\ \E to \in {"readid", "return"} : Moves(t, to)
        BY <1>5, GotoMoves, FinishMoves DEF IInv, Step, At
    <2> QED BY <2>1 DEF Arrives, Inserting, UsesInsert, Moves, InPlace, Walks
<1>6. CASE ReadId(t)
    <2>1. c.op \in {"find", "list", "mkdir", "rmdir"}
        BY <1>6 DEF ReadId, At, InPlace, Walks
    <2>2. /\ frame'[t].op = c.op
          /\ frame'[t].pc \in {"resetinsert", "readtype", "reset", "return", "rows"}
          /\ frame'[t].pc = "readtype" => c.op = "rmdir"
          /\ frame'[t].pc = "rows" => c.op = "list"
        <3>1. CASE c.op = "mkdir"
            BY <1>6, <3>1, ReadIdFrame, WithFields
        <3>2. CASE c.op = "rmdir"
            BY <1>6, <3>2, ReadIdFrame, WithFields
        <3>3. CASE c.op = "find"
            BY <1>6, <3>3, ReadIdFrame, WithFields
        <3>4. CASE c.op = "list"
            BY <1>6, <3>4, ReadIdFrame, WithFields
        <3> QED BY <2>1, <3>1, <3>2, <3>3, <3>4
    <2> QED BY <2>1, <2>2 DEF Arrives, Inserting, UsesInsert, InPlace, Walks
<1>7. CASE ReadType(t) \/ ResetMark(t) \/ BindId(t) \/ Mark(t)
    <2>1. c.op = "rmdir"
        BY <1>7 DEF ReadType, ResetMark, BindId, Mark, At, InPlace
    <2>2. \E to \in {"resetmark", "bindid", "mark", "return"} : Moves(t, to)
        BY <1>7, GotoMoves, FinishMoves DEF IInv, ReadType, ResetMark, BindId, Mark
    <2> QED BY <2>1, <2>2 DEF Arrives, Inserting, UsesInsert, Moves, InPlace, Walks
<1>8. CASE NextRow(t)
    <2>1. c.op = "list" /\ FrameShape(c)
        BY <1>8 DEF NextRow, At, InPlace, IInv, Frames, CallOK
    <2>2. frame'[t].op = c.op /\ frame'[t].pc \in {"rows", "return"}
        BY <1>1, <1>8, <2>1 DEF NextRow, Goto, At, FrameShape
    <2> QED BY <2>1, <2>2 DEF Arrives, Inserting, UsesInsert, InPlace, Walks
<1>9. CASE FindRoot(t) \/ FileEntry(t) \/ Insert(t)
    <2>1. Moves(t, "return")
        BY <1>9, FinishMoves DEF IInv, FindRoot, FileEntry, Insert
    <2> QED BY <2>1 DEF Arrives, Inserting, UsesInsert, Moves, InPlace, Walks
<1>10. CASE LookupUuid(t) \/ LookupParent(t)
    <2>1. FrameShape(c)
        BY DEF IInv, Frames, CallOK
    <2>2. ASSUME LookupUuid(t) PROVE frame'[t].pc \in {"file", "parent"}
        <3> DEFINE id == IF c.arg.parent = Empty THEN 1
                         ELSE IF ByUuid(c.arg.uuid) = {} THEN 0 ELSE First(ByUuid(c.arg.uuid))
                   p == IF c.arg.parent = Empty THEN Null ELSE c.parent
                   to == IF c.arg.parent = Empty THEN "file" ELSE "parent"
        <3>1. frame'[t] = [[[c EXCEPT !.id = id] EXCEPT !.parent = p] EXCEPT !.pc = to]
            BY <1>1, <2>2 DEF LookupUuid
        <3>2. to \in {"file", "parent"}
            OBVIOUS
        <3> HIDE DEF c, id, p, to
        <3> QED BY <2>1, <3>1, <3>2 DEF FrameShape
    <2>3. LookupParent(t) => frame'[t].pc \in {"file", "return", "resetinsert"}
        BY <1>1, <2>1 DEF LookupParent, Finish, FrameShape
    <2> QED BY <1>10, <2>2, <2>3 DEF Arrives, Inserting, UsesInsert, InPlace, Walks
<1>11. CASE ResetInsert(t) \/ BindFields(t)
    <2>1. \E to \in {"binduuid", "bindfname", "binddata", "bindfparent", "insert"} : Moves(t, to)
        BY <1>11, GotoMoves DEF IInv, ResetInsert, BindFields, BindInsert
    <2> QED BY <1>11, <2>1 DEF Arrives, Inserting, UsesInsert, Moves, InPlace, Walks
<1> QED BY <1>2, <1>3, <1>4, <1>5, <1>6, <1>7, <1>8, <1>9, <1>10, <1>11 DEF InCall

LEMMA HeadsStep == ASSUME IInv, Heads, Stale, NEW t \in Threads, InCall(t) PROVE Heads'
<1>1. /\ 1 \in DOMAIN entries
      /\ \A i \in DOMAIN entries : /\ i \in DOMAIN entries' /\ entries'[i].name = entries[i].name
                                   /\ i # 1 => entries'[i].uuid = entries[i].uuid
    BY InCallKeeps, RootIsThere DEF Kept
<1>2. CASE UNCHANGED entries
    BY <1>2 DEF Heads
<1>3. CASE Mark(t)
    <2>1. DOMAIN entries' = DOMAIN entries /\ entries'[1].uuid = entries[1].uuid
        BY <1>1, <1>3, MarkRows, TableShape DEF IInv, Table, TableTypeOK
    <2> QED BY <1>1, <2>1 DEF Heads
<1>4. CASE FileEntry(t)
    <2> DEFINE c == frame[t]
    <2>1. /\ DOMAIN entries' = DOMAIN entries /\ c.arg \in Files
          /\ c.arg.parent # Empty => entries[c.id].uuid = c.arg.uuid
          /\ 1 # c.id => entries'[1] = entries[1]
          /\ 1 = c.id => entries'[1].uuid = c.arg.uuid
        BY <1>1, <1>4, FileShape
    <2>2. c.arg.parent = Empty => c.arg.uuid \in {Empty, Root}
        BY <2>1, StatementsAssumption
    <2> QED BY <1>1, <2>1, <2>2 DEF Heads
<1>5. CASE Insert(t)
    <2> DEFINE n == Len(entries) + 1
    <2>1. /\ DOMAIN entries' = DOMAIN entries \cup {n} /\ n # 1
          /\ entries'[n] = BoundRow /\ entries'[1] = entries[1]
        BY <1>1, <1>5, InsertShape
    <2>2. entries'[n].uuid = insertentry.uuid
        BY <2>1 DEF BoundRow
    <2> HIDE DEF n
    <2> QED BY <1>1, <2>1, <2>2 DEF Heads, Stale
<1> QED BY <1>2, <1>3, <1>4, <1>5, WritesTable

\* A Drive file that has a row keeps it.
LEMMA RowStays ==
    ASSUME IInv, Heads, NEW t \in Threads, InCall(t), NEW u \in Uuids \ {Root}, ByUuid(u) # {}
    PROVE  ByUuid(u)' # {}
<1>1. PICK i \in DOMAIN entries : entries[i].uuid = u
    BY DEF ByUuid
<1>2. i # 1
    BY <1>1, DbAssumption DEF Heads
<1>3. i \in DOMAIN entries' /\ entries'[i].uuid = u
    BY <1>1, <1>2, InCallKeeps DEF Kept
<1> QED BY <1>3 DEF ByUuid

LEMMA UpdatedFile ==
    ASSUME NEW file \in Files, file.parent # Empty
    PROVE  file.uuid \in Uuids \ {Root} /\ file.uuid # Null
BY StatementsAssumption, DbAssumption

LEMMA StaleStep ==
    ASSUME IInv, Heads, Stale, NEW t \in Threads, InCall(t)
    PROVE  Stale'
<1> DEFINE u == insertentry.uuid
           c == frame[t]
<1>1. DriveThread \in Threads /\ Others(t) /\ CallType(t, c)
    BY InCallOthers DEF Threads, IInv, Frames, CallOK
<1>2. CASE insertentry'.uuid = u
    <2>1. SUFFICES ASSUME u # Null PROVE ByUuid(u)' # {} \/ Binds(u)'
        <3>1. PICK v : v = insertentry'.uuid
            OBVIOUS
        <3> QED BY <1>2, <3>1 DEF Stale, ByUuid, Binds
    <2>2. u \in Uuids \ {Root}
        BY <2>1 DEF Stale
    <2>3. CASE ByUuid(u) # {}
        <3>1. PICK v \in Uuids \ {Root} : v = u
            BY <2>2
        <3>2. ByUuid(v)' # {}
            BY <2>3, <3>1, RowStays
        <3> QED BY <1>2, <3>1, <3>2 DEF ByUuid
    <2>4. CASE Binds(u) /\ t # DriveThread
        BY <1>1, <1>2, <2>4 DEF Binds, Others
    <2>5. CASE Binds(u) /\ t = DriveThread
        <3>1. c.pc \in {"bindfname", "binddata", "bindfparent", "insert"}
            BY <2>5 DEF Binds
        <3>2. BindFields(t) \/ Insert(t)
            BY <3>1 DEF InCall, At, Lock, Return, Reset, BindName, BindParent, Step, ReadId,
                        ReadType, ResetMark, BindId, Mark, FindRoot, NextRow, LookupUuid,
                        LookupParent, FileEntry, ResetInsert
        <3>3. CASE BindFields(t)
            <4>1. \E to \in {"bindfname", "binddata", "bindfparent", "insert"} : Moves(t, to)
                BY <3>3, GotoMoves DEF IInv, BindFields, BindInsert
            <4> QED BY <1>2, <2>5, <4>1 DEF Binds, Moves
        <3>4. CASE Insert(t)
            <4> DEFINE n == Len(entries) + 1
            <4>1. n \in DOMAIN entries' /\ entries'[n] = BoundRow
                BY <3>4, InsertShape
            <4>2. entries'[n].uuid = u
                BY <4>1 DEF BoundRow
            <4> QED BY <1>2, <4>1, <4>2 DEF ByUuid
        <3> QED BY <3>2, <3>3, <3>4
    <2> QED BY <2>1, <2>3, <2>4, <2>5 DEF Stale
<1>3. CASE insertentry'.uuid # u
    <2>1. BindInsert(t, "binduuid", "bindfname", [insertentry EXCEPT !.uuid = RowOf(c).uuid])
        <3>1. UNCHANGED insertentry \/ ResetInsert(t) \/ BindFields(t) \/ Insert(t)
            BY DEF InCall, Lock, Return, Reset, BindName, BindParent, Step, ReadId, ReadType,
                   ResetMark, BindId, Mark, FindRoot, NextRow, LookupUuid, LookupParent,
                   FileEntry, stmtVars
        <3>2. Parameters
            BY DEF IInv
        <3>3. ResetInsert(t) => insertentry'.uuid = u
            BY <3>2 DEF ResetInsert, Parameters
        <3>4. Insert(t) => insertentry'.uuid = u
            BY <3>2 DEF Insert, Parameters
        <3>5. BindInsert(t, "bindfname", "binddata", [insertentry EXCEPT !.name = RowOf(c).name])
                  => insertentry'.uuid = u
            BY <3>2 DEF BindInsert, Parameters
        <3>6. BindInsert(t, "binddata", "bindfparent",
                         [insertentry EXCEPT !.type = RowOf(c).type, !.sync = RowOf(c).sync])
                  => insertentry'.uuid = u
            BY <3>2 DEF BindInsert, Parameters
        <3>7. BindInsert(t, "bindfparent", "insert", [insertentry EXCEPT !.parent = RowOf(c).parent])
                  => insertentry'.uuid = u
            BY <3>2 DEF BindInsert, Parameters
        <3> QED BY <1>3, <3>1, <3>3, <3>4, <3>5, <3>6, <3>7 DEF BindFields
    <2>2. Moves(t, "bindfname") /\ c.pc = "binduuid"
        BY <2>1, GotoMoves DEF IInv, BindInsert, At
    <2>3. insertentry'.uuid = RowOf(c).uuid
        BY <1>3, <2>1 DEF BindInsert, IInv, Parameters
    <2>4. CASE c.op = "update"
        <3>1. RowOf(c).uuid = c.arg.uuid
            BY <2>4 DEF RowOf, NewRow
        <3>2. c.arg \in Files /\ c.arg.parent # Empty /\ t = DriveThread
            BY <1>1, <2>2, <2>4 DEF CallType, Inserting, UsesInsert
        <3>3. c.arg.uuid \in Uuids \ {Root}
            BY <3>2, UpdatedFile
        <3>4. Binds(c.arg.uuid)'
            <4>1. PICK v : v = c.arg.uuid
                OBVIOUS
            <4>2. Binds(v)'
                BY <2>2, <2>4, <3>2, <4>1 DEF Moves, Binds
            <4> QED BY <2>2, <2>4, <3>2 DEF Moves, Binds
        <3> QED BY <2>2, <2>3, <2>4, <3>1, <3>2, <3>3 DEF Moves, Stale, Binds
    <2>5. CASE c.op # "update"
        <3>1. RowOf(c).uuid = Null
            BY <2>5 DEF RowOf, LocalRow
        <3> QED BY <2>3, <3>1 DEF Stale
    <2> QED BY <2>4, <2>5
<1> QED BY <1>2, <1>3

\* A Drive file without a row gets one from dbcache_update alone.
LEMMA StillNoRow ==
    ASSUME IInv, NEW t \in Threads, InCall(t), ~FileEntry(t), NEW u, ByUuid(u) = {},
           Insert(t) => insertentry.uuid # u
    PROVE  ByUuid(u)' = {}
<1>1. CASE UNCHANGED entries
    BY <1>1 DEF ByUuid
<1>2. CASE Mark(t)
    <2>1. DOMAIN entries' = DOMAIN entries
        BY <1>2, MarkRows, TableShape DEF IInv, Table, TableTypeOK
    <2> QED BY <1>2, <2>1, MarkRows DEF IInv, Table, ByUuid
<1>3. CASE Insert(t)
    <2> DEFINE n == Len(entries) + 1
    <2>1. /\ DOMAIN entries' = DOMAIN entries \cup {n} /\ entries'[n] = BoundRow
          /\ \A i \in DOMAIN entries : entries'[i] = entries[i]
        BY <1>3, InsertShape
    <2>2. entries'[n].uuid # u
        BY <1>3, <2>1 DEF BoundRow
    <2> HIDE DEF n
    <2> QED BY <2>1, <2>2 DEF ByUuid
<1> QED BY <1>1, <1>2, <1>3, WritesTable

LEMMA LookedUpStep ==
    ASSUME IInv, Places, Heads, Stale, LookedUp, NEW t \in Threads, InCall(t)
    PROVE  LookedUp'
<1>1. ASSUME NEW u \in Threads \ {t}, frame[u].pc = "parent" PROVE RowFound(frame[u])'
    <2> DEFINE c == frame[u]
    <2>1. /\ u = DriveThread /\ c.op = "update" /\ c.arg \in Files /\ c.arg.parent # Empty
          /\ frame'[u] = c
        BY <1>1, InCallOthers DEF IInv, Frames, CallOK, CallType, Filing, Others
    <2>2. ~FileEntry(t)
        BY <2>1, FileShape
    <2>3. Grows
        BY <2>2, InCallGrows
    <2>4. PICK v \in Uuids \ {Root} : v = c.arg.uuid /\ v # Null
        BY <2>1, UpdatedFile
    <2>5. c.id = IF ByUuid(v) = {} THEN 0 ELSE First(ByUuid(v))
        BY <1>1, <2>4 DEF LookedUp, RowFound
    <2>6. CASE ByUuid(v) # {}
        <3>1. IInv'
            BY InCallStep
        <3>2. ByUuid(v)' # {} /\ First(ByUuid(v))' = First(ByUuid(v))
            BY <2>3, <2>6, <3>1, UuidsGrow
        <3> QED BY <2>1, <2>4, <2>5, <2>6, <3>2 DEF RowFound
    <2>7. CASE ByUuid(v) = {}
        <3>1. insertentry.uuid # v
            <4>1. ~Binds(v)
                BY <1>1, <2>1 DEF Binds
            <4> QED BY <2>4, <2>7, <4>1 DEF Stale
        <3>2. ByUuid(v)' = {}
            BY <2>2, <2>7, <3>1, StillNoRow
        <3> QED BY <2>1, <2>4, <2>5, <2>7, <3>2 DEF RowFound
    <2> QED BY <2>6, <2>7
<1>2. ASSUME frame'[t].pc = "parent" PROVE RowFound(frame[t])'
    <2> DEFINE c == frame[t]
    <2>1. LookupUuid(t) /\ DOMAIN frame = Threads /\ FrameShape(c)
        BY <1>2, PlaceStep DEF Arrives, Places, IInv, Frames, CallOK
    <2>2. /\ frame'[t].id = IF c.arg.parent = Empty THEN 1
                            ELSE IF ByUuid(c.arg.uuid) = {} THEN 0 ELSE First(ByUuid(c.arg.uuid))
          /\ frame'[t].pc = IF c.arg.parent = Empty THEN "file" ELSE "parent"
          /\ frame'[t].arg = c.arg
        BY <2>1 DEF LookupUuid, FrameShape
    <2>3. UNCHANGED entries
        BY <2>1 DEF LookupUuid, KeepTable, tableVars
    <2>4. frame'[t].id = IF ByUuid(c.arg.uuid) = {} THEN 0 ELSE First(ByUuid(c.arg.uuid))
        BY <1>2, <2>2
    <2> QED BY <2>2, <2>3, <2>4 DEF RowFound, ByUuid
<1>3. ASSUME NEW u \in Threads, frame'[u].pc = "parent" PROVE RowFound(frame[u])'
    <2>1. CASE u = t
        BY <1>2, <1>3, <2>1
    <2>2. CASE u # t
        BY <1>1, <1>3, <2>2, InCallOthers DEF Others
    <2> QED BY <2>1, <2>2
<1> QED BY <1>3 DEF LookedUp

LEMMA LoneStep ==
    ASSUME IInv, History, Places, Heads, Lone, NEW t \in Threads, InCall(t)
    PROVE  Lone'
<1>1. ASSUME ~disturbed'[t] PROVE InOrder(frame[t])'
    <2>1. InOrder(frame[t]) /\ InPlace(frame[t])
        BY <1>1, HistoryStep DEF Lone, Places
    <2>2. CASE Lock(t) \/ Return(t) \/ FindRoot(t) \/ NextRow(t) \/ LookupUuid(t)
               \/ LookupParent(t) \/ FileEntry(t) \/ Mark(t) \/ Insert(t)
        BY <2>2, OrderLeft
    <2>3. CASE Reset(t)
        BY <2>3, OrderReset
    <2>4. CASE BindName(t)
        BY <2>1, <2>4, OrderBindName
    <2>5. CASE BindParent(t)
        BY <2>1, <2>5, OrderBindParent
    <2>6. CASE Step(t)
        BY <2>1, <2>6, OrderStep
    <2>7. CASE ReadId(t)
        BY <2>1, <2>7, OrderReadId DEF ReadId, At, InPlace, Walks
    <2>8. CASE ReadType(t)
        BY <2>1, <2>8, OrderReadType DEF ReadType, At, InPlace
    <2>9. CASE ResetMark(t)
        BY <2>1, <2>9, OrderResetMark
    <2>10. CASE BindId(t)
        BY <2>1, <2>10, OrderBindId
    <2>11. CASE ResetInsert(t)
        BY <2>11, OrderResetInsert
    <2>12. CASE BindFields(t)
        BY <2>1, <2>12, OrderBindFields
    <2> QED BY <2>2, <2>3, <2>4, <2>5, <2>6, <2>7, <2>8, <2>9, <2>10, <2>11, <2>12 DEF InCall
<1> QED BY <1>1, LoneOthers DEF Lone

LEMMA MarkShape ==
    ASSUME TableTypeOK, NEW t \in Threads, Mark(t), NEW i \in DOMAIN entries'
    PROVE  /\ i \in DOMAIN entries /\ entries'[i].type = entries[i].type
           /\ entries'[i].sync = -1 => i = updsyncdelid.id \/ entries[i].sync = -1
<1>1. DOMAIN entries' = DOMAIN entries
    BY MarkRows, TableShape DEF TableTypeOK
<1>2. entries'[i].type = entries[i].type
    BY <1>1, MarkRows
<1>3. i # updsyncdelid.id => entries'[i] = entries[i]
    BY <1>1 DEF Mark
<1> QED BY <1>1, <1>2, <1>3

LEMMA MissingStep ==
    ASSUME LInv, NEW t \in Threads, InCall(t), ~overlapped'
    PROVE  StillMissing'
<1>1. ~overlapped /\ StillMissing /\ Others(t) /\ DriveThread \in Threads
    BY HistoryStep, InCallOthers DEF LInv, Sound, Threads
<1>2. ASSUME NEW u \in Threads \ {t}, frame[u].op = "update", Inserting(frame[u].pc)
      PROVE  ByUuid(frame[u].arg.uuid)' = {}
    <2>1. u = DriveThread /\ frame[u].arg \in Files /\ frame[u].arg.parent # Empty
        BY <1>2 DEF LInv, IInv, Frames, CallOK, CallType
    <2>2. PICK v : v = frame[u].arg.uuid
        OBVIOUS
    <2>3. v # Null /\ ByUuid(v) = {}
        BY <1>1, <1>2, <2>1, <2>2, UpdatedFile DEF StillMissing
    <2>4. ~FileEntry(t)
        BY <2>1, FileShape DEF LInv
    <2>5. ASSUME Insert(t) PROVE insertentry.uuid # v
        <3>1. frame[t].pc = "insert" /\ frame[t].op \in {"update", "mkdir"} /\ frame[t].op # "update"
            BY <2>1, <2>5 DEF LInv, IInv, Frames, CallOK, CallType, Inserting, UsesInsert, Insert, At
        <3>2. insertentry.uuid = RowOf(frame[t]).uuid
            BY <1>1, <3>1 DEF LInv, Sound, Lone, InOrder, Given
        <3> QED BY <2>3, <3>1, <3>2 DEF RowOf, LocalRow
    <2>6. ByUuid(v)' = {}
        BY <2>3, <2>4, <2>5, StillNoRow DEF LInv
    <2> QED BY <1>1, <2>2, <2>6 DEF Others
<1>3. ASSUME frame'[t].op = "update", Inserting(frame'[t].pc)
      PROVE  ByUuid(frame[t].arg.uuid)' = {}
    <2> DEFINE c == frame[t]
    <2>1. LookupParent(t) \/ ResetInsert(t) \/ BindFields(t)
        BY <1>3, PlaceStep DEF Arrives, LInv, Places
    <2>2. UNCHANGED entries
        BY <2>1 DEF LookupParent, ResetInsert, BindFields, BindInsert, KeepTable, tableVars
    <2>3. CASE ResetInsert(t) \/ BindFields(t)
        <3>1. Inserting(c.pc)
            BY <2>3 DEF ResetInsert, BindFields, BindInsert, At, Inserting, UsesInsert
        <3>2. \E to : Moves(t, to)
            BY <2>3, GotoMoves DEF LInv, IInv, ResetInsert, BindFields, BindInsert
        <3>3. frame'[t].op = c.op /\ frame'[t].arg = c.arg
            BY <3>2 DEF Moves
        <3> QED BY <1>1, <1>3, <2>2, <3>1, <3>3 DEF StillMissing, ByUuid
    <2>4. CASE LookupParent(t)
        <3>1. c.pc = "parent" /\ FrameShape(c) /\ DOMAIN frame = Threads
            BY <2>4 DEF LookupParent, At, LInv, IInv, Frames, CallOK
        <3>2. c.id = 0 /\ frame'[t].arg = c.arg
            <4>1. CASE ByUuid(c.arg.parent) = {}
                <5>1. Moves(t, "return")
                    BY <2>4, <4>1, FinishMoves DEF LookupParent, LInv, IInv
                <5> QED BY <1>3, <5>1 DEF Moves, Inserting, UsesInsert
            <4>2. CASE ByUuid(c.arg.parent) # {}
                <5>1. frame'[t] = [[c EXCEPT !.parent = First(ByUuid(c.arg.parent))]
                                      EXCEPT !.pc = IF c.id = 0 THEN "resetinsert" ELSE "file"]
                    BY <2>4, <3>1, <4>2 DEF LookupParent
                <5>2. /\ frame'[t].pc = IF c.id = 0 THEN "resetinsert" ELSE "file"
                      /\ frame'[t].arg = c.arg
                    BY <3>1, <5>1 DEF FrameShape
                <5> QED BY <1>3, <5>2 DEF Inserting, UsesInsert
            <4> QED BY <4>1, <4>2
        <3>3. ByUuid(c.arg.uuid) = {}
            <4>1. c.id = IF ByUuid(c.arg.uuid) = {} THEN 0 ELSE First(ByUuid(c.arg.uuid))
                BY <3>1 DEF LInv, LookedUp, RowFound
            <4>2. ByUuid(c.arg.uuid) # {} => First(ByUuid(c.arg.uuid)) \in DOMAIN entries
                BY UuidRow DEF LInv
            <4> QED BY <3>2, <4>1, <4>2, RootIsThere DEF LInv
        <3> QED BY <2>2, <3>2, <3>3 DEF ByUuid
    <2> QED BY <2>1, <2>3, <2>4
<1>4. ASSUME NEW u \in Threads, frame'[u].op = "update", Inserting(frame'[u].pc)
      PROVE  ByUuid(frame[u].arg.uuid)' = {}
    <2>1. CASE u = t
        BY <1>3, <1>4, <2>1
    <2>2. CASE u # t
        BY <1>1, <1>2, <1>4, <2>2 DEF Others
    <2> QED BY <2>1, <2>2
<1> QED BY <1>4 DEF StillMissing

\* While nobody has been disturbed the rows that are written are those the calls mean.
LEMMA SoundStep ==
    ASSUME LInv, NEW t \in Threads, InCall(t)
    PROVE  Sound'
<1> DEFINE c == frame[t]
<1>1. \A u \in Threads : disturbed'[u] => overlapped'
    BY HistoryStep DEF LInv, Sound
<1>2. SUFFICES ASSUME ~overlapped' PROVE OneRow' /\ MarksOnDirs' /\ StillMissing'
    BY <1>1 DEF Sound
<1>3. /\ IInv /\ Heads /\ OneRow /\ MarksOnDirs /\ StillMissing /\ InOrder(c) /\ CallType(t, c)
    BY <1>2, HistoryStep DEF LInv, Sound, Lone, IInv, Frames, CallOK
<1>4. StillMissing'
    BY <1>2, MissingStep
<1>5. CASE UNCHANGED entries
    BY <1>3, <1>5, <1>4 DEF OneRow, MarksOnDirs
<1>6. CASE Mark(t)
    <2>1. /\ DOMAIN entries' = DOMAIN entries
          /\ \A i \in DOMAIN entries : entries'[i].uuid = entries[i].uuid
        BY <1>3, <1>6, MarkRows, TableShape DEF IInv, Table, TableTypeOK
    <2>2. updsyncdelid.id \in DOMAIN entries \ {1} /\ entries[updsyncdelid.id].type = Dir
        BY <1>3, <1>6 DEF InOrder, Marking, Mark, At
    <2>3. MarksOnDirs'
        BY <1>3, <1>6, <2>2, MarkShape DEF MarksOnDirs, IInv, Table
    <2> QED BY <1>3, <1>4, <2>1, <2>3 DEF OneRow
<1>7. CASE FileEntry(t)
    <2>1. /\ DOMAIN entries' = DOMAIN entries /\ c.arg \in Files /\ c.id \in DOMAIN entries
          /\ IF c.arg.parent = Empty THEN c.id = 1 ELSE entries[c.id].uuid = c.arg.uuid
          /\ \A i \in DOMAIN entries :
                  /\ entries'[i].type = entries[i].type /\ entries'[i].sync = entries[i].sync
                  /\ i # c.id => entries'[i] = entries[i]
                  /\ i = c.id => entries'[i].uuid = c.arg.uuid
        BY <1>3, <1>7, FileShape
    <2>2. MarksOnDirs'
        BY <1>3, <2>1 DEF MarksOnDirs
    <2>3. CASE c.arg.parent # Empty
        <3>1. \A i \in DOMAIN entries : entries'[i].uuid = entries[i].uuid
            BY <2>1, <2>3
        <3> QED BY <1>3, <1>4, <2>1, <2>2, <3>1 DEF OneRow
    <2>4. CASE c.arg.parent = Empty
        <3>1. c.id = 1 /\ c.arg.uuid \in {Empty, Root}
            BY <2>1, <2>4, StatementsAssumption
        <3>2. Empty \notin Uuids /\ Null \notin Uuids /\ Empty # Null
            BY DbAssumption
        <3>3. \A i \in DOMAIN entries \ {1} : entries'[i].uuid = entries[i].uuid
                                              /\ entries[i].uuid \in {Null} \cup (Uuids \ {Root})
            BY <1>3, <2>1, <3>1 DEF Heads
        <3>4. entries'[1].uuid \in {Empty, Root}
            BY <2>1, <3>1
        <3>5. OneRow'
            BY <1>3, <2>1, <3>2, <3>3, <3>4 DEF OneRow
        <3> QED BY <1>4, <2>2, <3>5
    <2> QED BY <2>3, <2>4
<1>8. CASE Insert(t)
    <2> DEFINE n == Len(entries) + 1
    <2>1. /\ n # 1 /\ DOMAIN entries' = DOMAIN entries \cup {n} /\ n \notin DOMAIN entries
          /\ entries'[n] = BoundRow /\ \A i \in DOMAIN entries : entries'[i] = entries[i]
        BY <1>3, <1>8, InsertShape
    <2>2. c.pc = "insert" /\ c.op \in {"update", "mkdir"}
        BY <1>3, <1>8 DEF Insert, At, CallType, Inserting, UsesInsert
    <2>3. entries'[n].uuid = RowOf(c).uuid /\ entries'[n].sync = RowOf(c).sync
        BY <1>3, <2>1, <2>2 DEF InOrder, Given, BoundRow
    <2>4. RowOf(c).sync # -1
        BY DEF RowOf, NewRow, LocalRow
    <2>5. RowOf(c).uuid \in Uuids => ByUuid(RowOf(c).uuid) = {}
        <3>1. CASE c.op = "update"
            BY <1>3, <2>2, <3>1 DEF RowOf, NewRow, StillMissing, Inserting, UsesInsert
        <3>2. CASE c.op # "update"
            BY <3>2, DbAssumption DEF RowOf, LocalRow
        <3> QED BY <3>1, <3>2
    <2> HIDE DEF n
    <2>6. OneRow'
        BY <1>3, <2>1, <2>3, <2>5 DEF OneRow, ByUuid
    <2>7. MarksOnDirs'
        BY <1>3, <2>1, <2>3, <2>4 DEF MarksOnDirs
    <2> QED BY <1>4, <2>6, <2>7
<1> QED BY <1>5, <1>6, <1>7, <1>8, WritesTable

LEMMA InCallLInv == ASSUME LInv, NEW t \in Threads, InCall(t) PROVE LInv'
<1>1. IInv' /\ History' /\ Heads' /\ Stale' /\ LookedUp' /\ Lone' /\ Sound'
    BY InCallStep, HistoryStep, HeadsStep, StaleStep, LookedUpStep, LoneStep, SoundStep DEF LInv
<1>2. ASSUME NEW u \in Threads PROVE InPlace(frame[u])'
    <2>1. InPlace(frame[u])
        BY DEF LInv, Places
    <2>2. CASE u = t
        BY <2>1, <2>2, PlaceStep DEF LInv, Arrives
    <2>3. CASE u # t
        BY <2>1, <2>3, InCallOthers DEF LInv, Others, InPlace
    <2> QED BY <2>2, <2>3
<1> QED BY <1>1, <1>2 DEF LInv, Places

\* The frame a call begins with.
LEMMA BeginFrame ==
    ASSUME IInv, NEW t \in Threads, NEW op, NEW arg, Begin(t, op, arg)
    PROVE  /\ Others(t) /\ frame[t].pc = "idle"
           /\ UNCHANGED <<entries, change, selbynampar, insertentry, updsyncdelid, overlapped>>
           /\ frame'[t] = [pc |-> IF Locks(op) THEN "lock" ELSE Entry(op, arg), op |-> op,
                           arg |-> arg, depth |-> 1, parent |-> 1, id |-> 0,
                           result |-> IF op = "list" THEN <<"listed", {}>> ELSE <<>>]
<1> DEFINE to == IF Locks(op) THEN "lock" ELSE Entry(op, arg)
           answer == IF op = "list" THEN <<"listed", {}>> ELSE <<>>
<1>1. frame[t].pc = "idle" /\ DOMAIN frame = Threads
    BY DEF IInv, Frames, Begin, At
<1>2. /\ Others(t)
      /\ frame'[t] = [Idle EXCEPT !.pc = to, !.op = op, !.arg = arg, !.depth = 1,
                                  !.parent = 1, !.result = answer]
    BY <1>1 DEF Begin, Others
<1> HIDE DEF to, answer
<1>3. frame'[t] = [pc |-> to, op |-> op, arg |-> arg, depth |-> 1, parent |-> 1, id |-> 0,
                   result |-> answer]
    BY <1>2 DEF Idle
<1>4. UNCHANGED <<entries, change, selbynampar, insertentry, updsyncdelid, overlapped>>
    BY DEF Begin, stmtVars, tableVars
<1> QED BY <1>1, <1>2, <1>3, <1>4 DEF to, answer

LEMMA BeginLInv ==
    ASSUME LInv, IInv', NEW t \in Threads, NEW op \in Ops \ {"none"}, NEW arg, Begin(t, op, arg),
           op \in {"find", "list"} => arg \in Paths \cup {<<>>}
    PROVE  LInv'
<1> DEFINE to == IF Locks(op) THEN "lock" ELSE Entry(op, arg)
           answer == IF op = "list" THEN <<"listed", {}>> ELSE <<>>
<1>1. /\ Others(t) /\ frame[t].pc = "idle"
      /\ UNCHANGED <<entries, change, selbynampar, insertentry, updsyncdelid, overlapped>>
      /\ frame'[t].pc = to /\ frame'[t].op = op /\ frame'[t].arg = arg
    <2>1. /\ Others(t) /\ frame[t].pc = "idle"
          /\ UNCHANGED <<entries, change, selbynampar, insertentry, updsyncdelid, overlapped>>
          /\ frame'[t] = [pc |-> to, op |-> op, arg |-> arg, depth |-> 1, parent |-> 1, id |-> 0,
                          result |-> answer]
        BY BeginFrame DEF LInv
    <2> HIDE DEF to, answer
    <2> QED BY <2>1
<1>2. /\ to \in {"lock", "resetinsert", "reset"}
      /\ to = "resetinsert" => op = "mkdir"
      /\ to = "reset" => op \in {"mkdir", "rmdir"}
    BY EntryPoint DEF Locks, Ops
<1> HIDE DEF to
<1>3. /\ History' /\ ~disturbed'[t]
      /\ \A u \in Threads \ {t} : disturbed'[u] = disturbed[u]
    BY DEF LInv, History, Begin
<1>4. Heads' /\ OneRow' = OneRow /\ MarksOnDirs' = MarksOnDirs
    BY <1>1 DEF LInv, Heads, OneRow, MarksOnDirs
<1>5. Places'
    <2>1. InPlace(frame[t])'
        BY <1>1, <1>2 DEF InPlace, Walks
    <2> QED BY <1>1, <2>1 DEF LInv, Places, Others, InPlace
<1>6. Lone'
    <2>1. InOrder(frame[t])'
        BY <1>1, <1>2, ElsewhereInOrder DEF Elsewhere, PCs
    <2>2. ASSUME NEW u \in Threads \ {t}, ~disturbed'[u] PROVE InOrder(frame[u])'
        <3>1. InOrder(frame[u]) /\ frame'[u] = frame[u]
            BY <1>1, <1>3, <2>2 DEF LInv, Lone, Others
        <3> QED BY <1>1, <3>1 DEF InOrder, Selected, Given, Marking, NameOf, RowOf
    <2> QED BY <2>1, <2>2 DEF Lone
<1>7. LookedUp'
    <2>1. ASSUME NEW u \in Threads, frame'[u].pc = "parent" PROVE RowFound(frame[u])'
        <3>1. u # t
            BY <1>1, <1>2, <2>1
        <3>2. frame'[u] = frame[u]
            BY <1>1, <3>1 DEF Others
        <3> QED BY <1>1, <2>1, <3>2 DEF LInv, LookedUp, RowFound, ByUuid
    <2> QED BY <2>1 DEF LookedUp
<1>8. Stale'
    <2>1. ASSUME NEW u, Binds(u) PROVE Binds(u)'
        BY <1>1, <2>1 DEF Binds, Others, Threads
    <2>2. PICK v : v = insertentry.uuid
        OBVIOUS
    <2>3. ByUuid(v) # {} \/ Binds(v) => ByUuid(v)' # {} \/ Binds(v)'
        BY <1>1, <2>1 DEF ByUuid
    <2> QED BY <1>1, <2>2, <2>3 DEF LInv, Stale, Binds, ByUuid
<1>9. StillMissing => StillMissing'
    BY <1>1, <1>2 DEF StillMissing, ByUuid, Others, Inserting, UsesInsert
<1>10. Sound'
    <2>1. \A u \in Threads : disturbed'[u] => overlapped'
        BY <1>1, <1>3 DEF LInv, Sound
    <2> QED BY <1>1, <1>4, <1>9, <2>1 DEF LInv, Sound
<1> QED BY <1>3, <1>4, <1>5, <1>6, <1>7, <1>8, <1>10 DEF LInv

LEMMA InitLInv == ASSUME Init PROVE LInv
<1>1. Settled(entries) /\ entries \in Seq(Row)
    BY StatementsAssumption DEF Init
<1>2. Heads /\ OneRow /\ MarksOnDirs
    BY <1>1 DEF Settled, Heads, OneRow, MarksOnDirs
<1>3. \A t \in Threads : frame[t] = Idle /\ disturbed[t] = FALSE
    BY DEF Init
<1>4. \A t \in Threads : frame[t].pc = "idle" /\ frame[t].op = "none"
    BY <1>3 DEF Idle
<1>5. Places /\ LookedUp /\ StillMissing
    BY <1>4 DEF Places, InPlace, Walks, LookedUp, StillMissing
<1>6. Lone
    BY <1>4 DEF Lone, InOrder, Selected, Given, Marking, UsesInsert
<1>7. Stale
    BY DEF Init, Stale
<1>8. History /\ Sound
    BY <1>2, <1>5 DEF Init, History, Sound
<1> QED BY <1>2, <1>5, <1>6, <1>7, <1>8, InitIInv DEF LInv

LEMMA StutterLInv == LInv /\ UNCHANGED vars => LInv'
<1> SUFFICES ASSUME LInv, UNCHANGED vars PROVE LInv'
    OBVIOUS
<1>1. UNCHANGED <<entries, selbynampar, insertentry, updsyncdelid, frame, disturbed, overlapped>>
    BY DEF vars, stmtVars, tableVars
<1>2. IInv'
    BY StutterIInv DEF LInv
<1>3. Heads' /\ OneRow' = OneRow /\ MarksOnDirs' = MarksOnDirs /\ History' /\ Places'
    BY <1>1 DEF LInv, Heads, OneRow, MarksOnDirs, History, Places, InPlace
<1>4. Lone' /\ LookedUp' /\ (StillMissing => StillMissing')
    <2>1. Lone'
        BY <1>1 DEF LInv, Lone, InOrder, Selected, Given, Marking, NameOf, RowOf
    <2>2. LookedUp'
        BY <1>1 DEF LInv, LookedUp, RowFound, ByUuid
    <2>3. StillMissing => StillMissing'
        BY <1>1 DEF StillMissing, ByUuid
    <2> QED BY <2>1, <2>2, <2>3
<1>5. Stale'
    BY <1>1 DEF LInv, Stale, ByUuid, Binds
<1>6. Sound'
    BY <1>1, <1>3, <1>4 DEF LInv, Sound
<1> QED BY <1>2, <1>3, <1>4, <1>5, <1>6 DEF LInv

LEMMA NextLInv == ASSUME LInv, [Next]_vars PROVE LInv'
<1>1. CASE DriveCall
    <2>1. DriveThread \in Threads /\ IInv'
        BY <1>1, DriveCallStep DEF Threads, LInv
    <2>2. PICK f \in Files : Begin(DriveThread, "update", f)
        BY <1>1 DEF DriveCall
    <2> QED BY <2>1, <2>2, BeginLInv DEF Ops
<1>2. ASSUME NEW w \in Workers, FuseCall(w) PROVE LInv'
    <2>1. w \in Threads /\ IInv'
        BY <1>2, FuseCallStep DEF Threads, LInv
    <2>2. PICK op \in {"find", "list", "mkdir", "rmdir"}, path \in Paths \cup {<<>>} :
              Begin(w, op, path)
        BY <1>2 DEF FuseCall, fuseapi_getattr, fuseapi_readdir, fuseapi_mkdir, fuseapi_rmdir
    <2> QED BY <2>1, <2>2, BeginLInv DEF Ops
<1>3. ASSUME NEW t \in Threads, InCall(t) PROVE LInv'
    BY <1>3, InCallLInv
<1>4. CASE UNCHANGED vars
    BY <1>4, StutterLInv
<1> QED BY <1>1, <1>2, <1>3, <1>4 DEF Next, Finished

\* As long as no two calls have met in a statement, a Drive file has one row at most and
\* rmdir's mark is on directories only, whatever the threads of libfuse and the Drive thread
\* do in between each other's calls into SQLite.
THEOREM LoneTableCorrect == Spec => []LoneTableSound
<1>1. LInv => LoneTableSound
    <2> SUFFICES ASSUME LInv, ~overlapped
                 PROVE  (\A u \in Uuids : Cardinality(ByUuid(u)) <= 1) /\ MarksOnDirs
        BY DEF LoneTableSound, MarksOnDirs
    <2>1. OneRow /\ MarksOnDirs
        BY DEF LInv, Sound
    <2>2. ASSUME NEW u \in Uuids PROVE Cardinality(ByUuid(u)) <= 1
        <3>1. CASE ByUuid(u) = {}
            BY <3>1, FS_EmptySet
        <3>2. CASE ByUuid(u) # {}
            <4>1. PICK i \in ByUuid(u) : TRUE
                BY <3>2
            <4>2. ByUuid(u) = {i}
                BY <2>1, <4>1 DEF OneRow, ByUuid
            <4>3. Cardinality({i}) = 1
                BY FS_Singleton
            <4> QED BY <4>2, <4>3
        <3> QED BY <3>1, <3>2
    <2> QED BY <2>1, <2>2
<1>2. Spec => []LInv
    BY InitLInv, NextLInv, PTL DEF Spec
<1> QED BY <1>1, <1>2, PTL

-----------------------------------------------------------------------------
(* The walk of dbcache_findbypath and _listdir                              *)

\* The first k names of the path lead from the root to id.
Trail(path, k, id) ==
    \E w \in [0..k -> DOMAIN entries] :
        w[0] = 1 /\ w[k] = id /\ \A j \in 1..k : w[j] = NameIn(w[j - 1], path[j])

LEMMA TrailStart == ASSUME IInv, NEW path PROVE Trail(path, 0, 1)
<1> DEFINE w == [j \in 0..0 |-> 1]
<1>1. w \in [0..0 -> DOMAIN entries] /\ w[0] = 1
    BY RootIsThere
<1>2. 1..0 = {}
    OBVIOUS
<1> QED BY <1>1, <1>2 DEF Trail

LEMMA TrailOn ==
    ASSUME IInv, NEW path, NEW k \in Nat, NEW id, Trail(path, k, id),
           NEW next \in DOMAIN entries, next = NameIn(id, path[k + 1])
    PROVE  Trail(path, k + 1, next)
<1>1. PICK w \in [0..k -> DOMAIN entries] :
          w[0] = 1 /\ w[k] = id /\ \A j \in 1..k : w[j] = NameIn(w[j - 1], path[j])
    BY DEF Trail
<1> DEFINE v == [j \in 0..(k + 1) |-> IF j = k + 1 THEN next ELSE w[j]]
<1>2. \A j \in 0..(k + 1) : j # k + 1 => j \in 0..k
    OBVIOUS
<1>3. v \in [0..(k + 1) -> DOMAIN entries]
    BY <1>1, <1>2
<1>4. v[0] = 1 /\ v[k + 1] = next
    BY <1>1
<1>5. ASSUME NEW j \in 1..(k + 1) PROVE v[j] = NameIn(v[j - 1], path[j])
    <2>1. CASE j = k + 1
        <3>1. j - 1 = k /\ v[k] = id /\ v[j] = next
            BY <1>1, <2>1
        <3> QED BY <2>1, <3>1
    <2>2. CASE j # k + 1
        <3>1. j \in 1..k /\ j - 1 \in 0..(k + 1) /\ j - 1 # k + 1 /\ j \in 0..(k + 1)
            BY <2>2
        <3>2. v[j] = w[j] /\ v[j - 1] = w[j - 1]
            BY <2>2, <3>1
        <3> QED BY <1>1, <3>1, <3>2
    <2> QED BY <2>1, <2>2
<1> HIDE DEF v
<1> QED BY <1>3, <1>4, <1>5 DEF Trail

LEMMA TrailDirectory ==
    ASSUME NEW path, NEW k \in Nat, NEW id, Trail(path, k, id)
    PROVE  id \in DOMAIN entries
BY DEF Trail

\* FindByPath comes by where the trail ends.
LEMMA TrailWalk ==
    ASSUME IInv, NEW path, Len(path) \in Nat, DOMAIN path = 1..Len(path),
           NEW k \in 0..Len(path), NEW id, Trail(path, k, id)
    PROVE  \E w \in [0..Len(path) -> Nat] :
              /\ \A j \in 1..Len(path) : w[j] = NameIn(w[j - 1], path[j])
              /\ w[k] = id /\ FindByPath(path) = w[Len(path)]
<1>1. PICK v \in [0..k -> DOMAIN entries] :
          v[0] = 1 /\ v[k] = id /\ \A j \in 1..k : v[j] = NameIn(v[j - 1], path[j])
    BY DEF Trail
<1>2. PICK w \in [0..Len(path) -> Nat] :
              /\ w[0] = 1
              /\ \A j \in 1..Len(path) : w[j] = NameIn(w[j - 1], path[j])
              /\ FindByPath(path) = w[Len(path)]
    BY FindByPathWalks, RootIsThere
<1> DEFINE S == {j \in 0..k : w[j] = v[j]}
<1>3. 0 \in S
    BY <1>1, <1>2
<1>4. ASSUME NEW j \in 1..k, j - 1 \in S PROVE j \in S
    <2>1. j \in 1..Len(path)
        OBVIOUS
    <2> QED BY <1>1, <1>2, <1>4, <2>1
<1>5. k \in S
    <2>1. k \in Nat /\ k \in 0..k
        OBVIOUS
    <2> HIDE DEF S
    <2>2. \A j \in 1..k : j - 1 \in S => j \in S
        BY <1>4
    <2>3. \A j \in 0..k : j \in S
        BY <1>3, <2>1, <2>2, UpTo
    <2> QED BY <2>1, <2>3
<1> QED BY <1>1, <1>2, <1>5

LEMMA TrailEnds ==
    ASSUME IInv, NEW path, Len(path) \in Nat, DOMAIN path = 1..Len(path),
           NEW id, Trail(path, Len(path), id)
    PROVE  FindByPath(path) = id
<1> DEFINE n == Len(path)
<1>1. n \in 0..n
    OBVIOUS
<1>2. \E w \in [0..n -> Nat] : w[n] = id /\ FindByPath(path) = w[n]
    BY <1>1, TrailWalk
<1> QED BY <1>2

LEMMA TrailBreaks ==
    ASSUME IInv, NEW path, Len(path) \in Nat, DOMAIN path = 1..Len(path),
           NEW k \in 1..Len(path), NEW id, Trail(path, k - 1, id), NameIn(id, path[k]) = 0
    PROVE  FindByPath(path) = 0
<1> DEFINE n == Len(path)
<1>1. PICK w \in [0..n -> Nat] :
          /\ \A j \in 1..n : w[j] = NameIn(w[j - 1], path[j])
          /\ w[k - 1] = id /\ FindByPath(path) = w[n]
    <2>1. PICK m \in 0..n : m = k - 1
        OBVIOUS
    <2>2. Trail(path, m, id)
        BY <2>1
    <2>3. \E w \in [0..n -> Nat] :
              /\ \A j \in 1..n : w[j] = NameIn(w[j - 1], path[j])
              /\ w[m] = id /\ FindByPath(path) = w[n]
        BY <2>2, TrailWalk
    <2> QED BY <2>1, <2>3
<1>2. w[k] = 0
    BY <1>1
<1> DEFINE S == {j \in 0..(n - k) : w[k + j] = 0}
<1>3. 0 \in S
    BY <1>2
<1>4. ASSUME NEW j \in 1..(n - k), j - 1 \in S PROVE j \in S
    <2>1. k + j \in 1..n /\ (k + j) - 1 = k + (j - 1)
        OBVIOUS
    <2>2. w[k + (j - 1)] = 0
        BY <1>4
    <2>3. w[k + j] = NameIn(w[(k + j) - 1], path[k + j])
        BY <1>1, <2>1
    <2>4. w[k + j] = 0
        BY <2>1, <2>2, <2>3 DEF NameIn
    <2> QED BY <2>4
<1>5. n - k \in S
    <2> DEFINE d == n - k
    <2>1. d \in Nat /\ d \in 0..d
        OBVIOUS
    <2>2. \A j \in 1..d : j - 1 \in S => j \in S
        BY <1>4
    <2> HIDE DEF S, d
    <2>3. \A j \in 0..d : j \in S
        BY <1>3, <2>1, <2>2, UpTo
    <2>4. d \in S
        BY <2>1, <2>3
    <2> QED BY <2>4 DEF d
<1>6. k + (n - k) = n
    OBVIOUS
<1> QED BY <1>1, <1>5, <1>6

\* Rows that are added, the last of all, do not change where a name has led to.
LEMMA NameInGrows ==
    ASSUME IInv, IInv', Grows, NEW id, NEW n, NameIn(id, n) # 0
    PROVE  NameIn(id, n)' = NameIn(id, n)
<1> DEFINE A == ByNamePar(n, id)
           B == ByNamePar(n, id)'
<1>1. id # 0 /\ A # {} /\ NameIn(id, n) = First(A)
    BY DEF NameIn
<1>2. B \in SUBSET Nat
    <2>1. IInv' => (DOMAIN entries \in SUBSET Nat)'
        BY IdsAreNat, PTL
    <2> QED BY <2>1 DEF ByNamePar
<1>3. A \in SUBSET B /\ \A i \in A : \A j \in B \ A : i <= j
    BY DEF ByNamePar, Grows
<1> HIDE DEF A, B
<1>4. B # {} /\ First(B) = First(A)
    BY <1>1, <1>2, <1>3, SameFirst
<1> QED BY <1>1, <1>4 DEF NameIn, B

LEMMA TrailGrows ==
    ASSUME IInv, IInv', Grows, NEW path, NEW k \in Nat, NEW id, Trail(path, k, id)
    PROVE  Trail(path, k, id)'
<1>1. PICK w \in [0..k -> DOMAIN entries] :
          w[0] = 1 /\ w[k] = id /\ \A j \in 1..k : w[j] = NameIn(w[j - 1], path[j])
    BY DEF Trail
<1>2. w \in [0..k -> DOMAIN entries']
    BY DEF Grows
<1>3. ASSUME NEW j \in 1..k PROVE w[j] = NameIn(w[j - 1], path[j])'
    <2>1. w[j] \in DOMAIN entries /\ w[j] # 0
        BY RootIsThere
    <2>2. NameIn(w[j - 1], path[j]) # 0
        BY <1>1, <2>1
    <2>3. NameIn(w[j - 1], path[j])' = NameIn(w[j - 1], path[j])
        BY <2>2, NameInGrows
    <2> QED BY <1>1, <2>3
<1> QED BY <1>1, <1>2, <1>3 DEF Trail

-----------------------------------------------------------------------------
(* What a call that is not disturbed does is what it would have done at     *)
(* once at some moment: s is what it has seen so far.                       *)

Promised(c, s) ==
    /\ c.pc = "return" => c.result \in s
    /\ Inserting(c.pc) => <<"insert", RowOf(c)>> \in s
    /\ c.pc = "file" => <<"file", c.id, c.parent>> \in s
    /\ c.pc \in {"resetmark", "bindid", "mark"} => <<"mark", c.id>> \in s

\* What rmdir does with row i.
Choice(i) == IF entries[i].type # Dir THEN None ELSE <<"mark", i>>

Dirs(c, s) ==
    /\ c.op = "rmdir" /\ (c.pc = "readtype" \/ (c.pc = "readid" /\ LastLookup(c))) =>
           Choice(selbynampar.row) \in s
    /\ c.op = "rmdir" /\ c.pc \in Walks =>
           /\ \/ c.depth = 1 /\ c.parent = 1
              \/ c.depth = 2 /\ c.parent = 0 /\ Len(c.arg) > 1 /\ Walked \in s
           /\ Len(c.arg) > 1 /\ c.pc = "readid" => Walked \in s
    /\ c.op = "mkdir" /\ c.pc \in Walks => c.parent = 1 /\ Len(c.arg) > 1
    /\ c.op = "mkdir" /\ c.pc = "readid" => MkdirOutcome(c.arg) \in s

Listed(c) == {i \in ByPar(c.parent) : i <= c.id}

Found(c) ==
    /\ c.op \in {"find", "list"} /\ c.pc = "lock" => c.parent = 1 /\ c.depth = 1
    /\ c.op \in {"find", "list"} /\ c.pc \in Walks =>
           /\ c.depth \in 1..Len(c.arg) /\ Trail(c.arg, c.depth - 1, c.parent)
           /\ c.pc = "readid" => selbynampar.row = NameIn(c.parent, c.arg[c.depth])
    /\ c.op = "list" /\ (c.pc = "lock" \/ c.pc \in Walks) => c.id = 0 /\ c.result = <<"listed", {}>>
    /\ c.pc = "rows" =>
           /\ Trail(c.arg, Len(c.arg), c.parent)
           /\ c.id \in {0} \cup DOMAIN entries /\ c.result = <<"listed", Listed(c)>>

Tells(c, s) == Promised(c, s) /\ Dirs(c, s) /\ Found(c)

Faithful ==
    \A t \in Threads : ~disturbed[t] => \A c \in {frame[t]}, s \in {seen[t]} : Tells(c, s)

Witnesses(c, s) ==
    c.pc # "idle" => /\ AtOnce(c.op, c.arg) \subseteq s
                     /\ Walked \in s => Outcome(c.op, c.arg) \in s

Witnessed == \A t \in Threads : Witnesses(frame[t], seen[t])

CInv == LInv /\ Witnessed /\ Faithful

\* A call under way that is told of in its history, and of which t is the next to move.
Moving(t, s) ==
    /\ LInv /\ InOrder(frame[t]) /\ Tells(frame[t], s) /\ Witnesses(frame[t], s)

LEMMA TellsDone ==
    ASSUME NEW d, NEW s, d.pc = "return", d.result \in s
    PROVE  Tells(d, s)'
BY DEF Tells, Promised, Dirs, Found, Walks, Inserting, UsesInsert

\* In a step that leaves the table alone it is enough to look at the new frame.
LEMMA TellsSame ==
    ASSUME UNCHANGED entries, NEW d, NEW s, Tells(d, s),
           d.pc \in {"readid", "readtype"} => UNCHANGED selbynampar
    PROVE  Tells(d, s)'
<1>1. Promised(d, s)'
    BY DEF Tells, Promised
<1>2. Dirs(d, s)'
    <2>1. Choice(selbynampar.row) \in s /\ d.pc \in {"readid", "readtype"}
              => Choice(selbynampar.row)' \in s
        BY DEF Choice
    <2> QED BY <2>1 DEF Tells, Dirs
<1>3. Found(d)'
    <2>1. \A id, n : NameIn(id, n)' = NameIn(id, n)
        BY DEF NameIn, ByNamePar
    <2>2. ASSUME NEW path, NEW k, NEW id, Trail(path, k, id) PROVE Trail(path, k, id)'
        BY <2>1, <2>2 DEF Trail
    <2>3. Listed(d)' = Listed(d)
        BY DEF Listed, ByPar
    <2> QED BY <2>1, <2>2, <2>3 DEF Tells, Found
<1> QED BY <1>1, <1>2, <1>3 DEF Tells

LEMMA TellsReturn ==
    ASSUME IInv, NEW t \in Threads, Return(t), NEW s, NEW d, d = frame'[t]
    PROVE  Tells(d, s)'
<1>1. d = Idle
    BY DEF IInv, Frames, Return
<1>2. d.pc = "idle" /\ d.op = "none"
    BY <1>1 DEF Idle
<1> QED BY <1>2 DEF Tells, Promised, Dirs, Found, Walks, Inserting, UsesInsert

LEMMA TellsLock ==
    ASSUME NEW t \in Threads, NEW s, Moving(t, s), Lock(t), NEW d, d = frame'[t]
    PROVE  Tells(d, s)'
<1> DEFINE c == frame[t]
           to == Entry(c.op, c.arg)
<1>1. IInv /\ CallType(t, c) /\ c.pc = "lock"
    BY DEF Moving, LInv, IInv, Frames, CallOK, Lock, At
<1>2. c.op \in {"find", "list", "update"}
    BY <1>1 DEF CallType, Locks
<1>3. /\ to \in {"known", "resetinsert", "rows", "root", "reset"}
      /\ to = "known" <=> c.op = "update"
      /\ to = "resetinsert" <=> c.op = "mkdir" /\ Len(c.arg) = 1
      /\ to = "rows" <=> c.op = "list" /\ Len(c.arg) = 0
      /\ to = "root" <=> c.op = "find" /\ Len(c.arg) = 0
    BY <1>2, EntryPoint DEF Ops
<1> HIDE DEF to
<1>4. d = With(c, to, c.depth, c.parent, c.id, c.result)
    BY <1>1, GotoFrame DEF Lock, to
<1>5. /\ d.pc = to /\ d.op = c.op /\ d.arg = c.arg /\ d.depth = c.depth /\ d.parent = c.parent
      /\ d.id = c.id /\ d.result = c.result
    BY <1>4, WithFields
<1>6. UNCHANGED <<entries, selbynampar>>
    BY DEF Lock, stmtVars, tableVars
<1>7. Tells(d, s)
    <2>1. CASE to \in {"known", "root"}
        BY <1>5, <2>1 DEF Tells, Promised, Dirs, Found, Walks, Inserting, UsesInsert
    <2>2. CASE to \in {"reset", "rows"}
        <3>1. /\ c.op \in {"find", "list"} /\ c.arg \in Paths \cup {<<>>}
              /\ c.parent = 1 /\ c.depth = 1
              /\ c.op = "list" => c.id = 0 /\ c.result = <<"listed", {}>>
            BY <1>1, <1>2, <1>3, <2>2 DEF CallType, Moving, Tells, Found
        <3>2. /\ Len(c.arg) \in Nat
              /\ to = "rows" => Len(c.arg) = 0
              /\ to = "reset" => Len(c.arg) # 0
            BY <1>2, <1>3, <2>2, <3>1, PathLength DEF Entry
        <3>3. Trail(c.arg, 0, 1)
            BY <1>1, TrailStart
        <3>4. c.id = 0 => Listed(c) = {}
            BY <1>1, RootIsThere DEF Listed, ByPar
        <3>5. Listed(d) = Listed(c)
            BY <1>5 DEF Listed
        <3>6. Promised(d, s) /\ Dirs(d, s)
            BY <1>5, <2>2, <3>1 DEF Promised, Dirs, Inserting, UsesInsert
        <3>7. Found(d)
            <4>1. CASE to = "reset"
                BY <1>5, <3>1, <3>2, <3>3, <4>1 DEF Found
            <4>2. CASE to = "rows"
                BY <1>3, <1>5, <3>1, <3>2, <3>3, <3>4, <3>5, <4>2 DEF Found, Walks
            <4> QED BY <2>2, <4>1, <4>2
        <3> QED BY <3>6, <3>7 DEF Tells
    <2>3. to # "resetinsert"
        BY <1>2, <1>3
    <2> QED BY <1>3, <2>1, <2>2, <2>3
<1> QED BY <1>6, <1>7, TellsSame

LEMMA TellsOnward ==
    ASSUME NEW t \in Threads, NEW s, Moving(t, s), Reset(t) \/ BindName(t) \/ BindParent(t),
           NEW d, d = frame'[t]
    PROVE  Tells(d, s)'
<1> DEFINE c == frame[t]
<1>1. PICK to \in {"bindname", "bindparent", "step"} :
          frame'[t] = With(c, to, c.depth, c.parent, c.id, c.result)
    BY GotoFrame DEF Moving, LInv, Reset, BindName, BindParent
<1>2. /\ d.pc = to /\ d.op = c.op /\ d.arg = c.arg /\ d.depth = c.depth /\ d.parent = c.parent
      /\ d.id = c.id /\ d.result = c.result
    BY <1>1, WithFields
<1>3. c.pc \in Walks \ {"readid"} /\ UNCHANGED entries
    BY DEF Reset, BindName, BindParent, At, Walks, KeepTable, tableVars
<1>4. Dirs(d, s)
    BY <1>2, <1>3 DEF Moving, Tells, Dirs, Walks
<1>5. Found(d)
    BY <1>2, <1>3 DEF Moving, Tells, Found, Walks
<1>6. Promised(d, s)
    BY <1>2 DEF Promised, Inserting, UsesInsert
<1> QED BY <1>2, <1>3, <1>4, <1>5, <1>6, TellsSame DEF Tells

\* The history of a call under way holds what it would do at once.
LEMMA SeenNow ==
    ASSUME NEW c, NEW s, Witnesses(c, s), c.pc # "idle"
    PROVE  /\ c.op \notin {"mkdir", "rmdir"} => Outcome(c.op, c.arg) \in s
           /\ c.op \in {"mkdir", "rmdir"} =>
                  IF WalkFails(c.arg) THEN None \in s
                  ELSE Walked \in s /\ Outcome(c.op, c.arg) \in s
           /\ Walked \in s => Outcome(c.op, c.arg) \in s
BY DEF Witnesses, AtOnce

LEMMA RmdirSees ==
    ASSUME NEW c, NEW s, Witnesses(c, s), Dirs(c, s), c.op = "rmdir", c.pc \in Walks,
           Len(c.arg) \in Nat \ {0},
           c.depth = 1 /\ Len(c.arg) > 1 => ~WalkFails(c.arg)
    PROVE  /\ ByNamePar(c.arg[1], c.parent) = {} => None \in s
           /\ ByNamePar(c.arg[1], c.parent) # {} /\ LastLookup(c) =>
                  Choice(First(ByNamePar(c.arg[1], c.parent))) \in s
<1> DEFINE ids == ByNamePar(c.arg[1], c.parent)
<1>1. \/ c.depth = 1 /\ c.parent = 1
      \/ c.depth = 2 /\ c.parent = 0 /\ Len(c.arg) > 1 /\ Walked \in s
    BY DEF Dirs
<1>2. c.pc # "idle"
    BY DEF Walks
<1>3. CASE c.depth = 1 /\ c.parent = 1 /\ Len(c.arg) > 1
    <2>1. ids # {} /\ ~LastLookup(c)
        BY <1>3 DEF WalkFails, LastLookup
    <2> QED BY <2>1
<1>4. CASE ~(c.depth = 1 /\ c.parent = 1 /\ Len(c.arg) > 1)
    <2>1. c.parent = ParentReached(c.arg) /\ (Len(c.arg) > 1 => Walked \in s)
        <3> DEFINE n == Len(c.arg)
        <3>1. n \in Nat \ {0}
            OBVIOUS
        <3> HIDE DEF n
        <3>2. n # 1 => n > 1
            BY <3>1
        <3>3. CASE c.depth = 1 /\ c.parent = 1
            BY <1>4, <3>2, <3>3 DEF ParentReached, n
        <3>4. CASE c.depth = 2 /\ c.parent = 0 /\ Len(c.arg) > 1 /\ Walked \in s
            <4>1. n > 1
                BY <3>4 DEF n
            <4>2. n # 1
                BY <3>1, <4>1
            <4> QED BY <3>4, <4>2 DEF ParentReached, n
        <3> QED BY <1>1, <3>3, <3>4
    <2>2. ~WalkFails(c.arg) \/ Walked \in s
        BY <2>1 DEF WalkFails
    <2>3. RmdirOutcome(c.arg) \in s
        BY <1>2, <2>2, SeenNow DEF Outcome
    <2>4. RmdirOutcome(c.arg) = IF ids = {} \/ entries[First(ids)].type # Dir THEN None
                                ELSE <<"mark", First(ids)>>
        BY <2>1 DEF RmdirOutcome
    <2> QED BY <2>3, <2>4 DEF Choice
<1> QED BY <1>3, <1>4

LEMMA TellsStep ==
    ASSUME NEW t \in Threads, NEW s, Moving(t, s), Step(t), NEW d, d = frame'[t]
    PROVE  Tells(d, s)'
<1> DEFINE c == frame[t]
           rows == ByNamePar(NameOf(c), c.parent)
<1>1. /\ IInv /\ CallType(t, c) /\ c.pc = "step" /\ InPlace(c) /\ Dirs(c, s) /\ Found(c)
      /\ Witnesses(c, s)
    BY DEF Moving, LInv, IInv, Frames, CallOK, Step, At, Tells, Places
<1>2. c.op \in {"find", "list", "mkdir", "rmdir"} /\ c.pc \in Walks
    BY <1>1 DEF InPlace, Walks
<1>3. RowsAhead = rows
    <2>1. /\ selbynampar.run = Ready /\ selbynampar.name = NameOf(c)
          /\ selbynampar.parent = c.parent
        BY <1>1 DEF Moving, InOrder, Selected
    <2> QED BY <2>1 DEF RowsAhead, Ready, OnRow
<1>4. UNCHANGED entries
    BY DEF Step, KeepTable, tableVars
<1>5. /\ c.op \in {"mkdir", "rmdir"} => NameOf(c) = c.arg[1] /\ Len(c.arg) \in Nat \ {0}
      /\ c.op \in {"find", "list"} => NameOf(c) = c.arg[c.depth]
      /\ c.op \in {"find", "list"} => Len(c.arg) \in Nat /\ DOMAIN c.arg = 1..Len(c.arg)
    BY <1>1, FirstNames, PathLength DEF NameOf, Locks, CallType
<1>6. c.op \in {"find", "list"} =>
          /\ c.depth \in 1..Len(c.arg) /\ Trail(c.arg, c.depth - 1, c.parent) /\ c.parent # 0
          /\ NameIn(c.parent, c.arg[c.depth]) = IF rows = {} THEN 0 ELSE First(rows)
    <2>1. SUFFICES ASSUME c.op \in {"find", "list"}
                   PROVE  /\ c.depth \in 1..Len(c.arg) /\ Trail(c.arg, c.depth - 1, c.parent)
                          /\ c.parent # 0
                          /\ NameIn(c.parent, c.arg[c.depth]) = IF rows = {} THEN 0 ELSE First(rows)
        OBVIOUS
    <2>2. c.depth \in 1..Len(c.arg) /\ Trail(c.arg, c.depth - 1, c.parent)
        BY <1>1, <1>2, <2>1 DEF Found
    <2>3. c.depth - 1 \in Nat
        BY <1>5, <2>1, <2>2
    <2>4. c.parent # 0
        BY <1>1, <2>2, <2>3, TrailDirectory, RootIsThere
    <2> QED BY <1>5, <2>1, <2>2, <2>4 DEF NameIn
<1>7. CASE rows = {}
    <2> DEFINE r == CASE c.op = "find" -> <<"found", 0>>
                      [] c.op = "list" -> c.result
                      [] OTHER -> None
    <2>1. d = With(c, "return", c.depth, c.parent, c.id, r)
        BY <1>1, <1>3, <1>7, FinishFrame DEF Step
    <2>2. r \in s
        <3>1. CASE c.op \in {"find", "list"}
            <4>1. FindByPath(c.arg) = 0
                BY <1>1, <1>5, <1>6, <1>7, <3>1, TrailBreaks
            <4>2. Outcome(c.op, c.arg) \in s
                BY <1>1, <3>1, SeenNow
            <4>3. c.op = "find" => <<"found", 0>> \in s
                BY <4>1, <4>2 DEF Outcome
            <4>4. c.op = "list" => c.result = <<"listed", {}>> /\ <<"listed", {}>> \in s
                BY <1>1, <1>2, <4>1, <4>2 DEF Outcome, Listdir, Found
            <4> QED BY <3>1, <4>3, <4>4
        <3>2. CASE c.op = "mkdir"
            <4>1. WalkFails(c.arg)
                BY <1>1, <1>2, <1>5, <1>7, <3>2 DEF WalkFails, Dirs
            <4> QED BY <1>1, <3>2, <4>1, SeenNow
        <3>3. CASE c.op = "rmdir"
            <4>1. CASE c.depth = 1 /\ Len(c.arg) > 1 /\ WalkFails(c.arg)
                BY <1>1, <3>3, <4>1, SeenNow
            <4>2. CASE ~(c.depth = 1 /\ Len(c.arg) > 1 /\ WalkFails(c.arg))
                BY <1>1, <1>2, <1>5, <1>7, <3>3, <4>2, RmdirSees
            <4> QED BY <3>3, <4>1, <4>2
        <3> QED BY <1>2, <3>1, <3>2, <3>3
    <2> HIDE DEF r
    <2> QED BY <2>1, <2>2, WithFields, TellsDone
<1>8. CASE rows # {}
    <2>1. d = With(c, "readid", c.depth, c.parent, c.id, c.result)
        BY <1>1, <1>3, <1>8, GotoFrame DEF Step
    <2>2. /\ d.pc = "readid" /\ d.op = c.op /\ d.arg = c.arg /\ d.depth = c.depth
          /\ d.parent = c.parent /\ d.id = c.id /\ d.result = c.result
        BY <2>1, WithFields
    <2>3. selbynampar'.row = First(rows)
        BY <1>1, <1>3, <1>8, StepFinds DEF Moving, InOrder
    <2>4. PICK row : row = First(rows)
        OBVIOUS
    <2>5. Promised(d, s)'
        BY <2>2 DEF Promised, Inserting, UsesInsert
    <2>6. Found(d)'
        <3>1. CASE c.op \in {"find", "list"}
            <4>1. Trail(d.arg, d.depth - 1, d.parent)'
                <5>1. Trail(d.arg, d.depth - 1, d.parent)
                    BY <1>6, <2>2, <3>1
                <5>2. \A id, n : NameIn(id, n)' = NameIn(id, n)
                    BY <1>4 DEF NameIn, ByNamePar
                <5> QED BY <1>4, <5>1, <5>2 DEF Trail
            <4>2. NameIn(d.parent, d.arg[d.depth])' = row
                <5>1. NameIn(d.parent, d.arg[d.depth])' = NameIn(d.parent, d.arg[d.depth])
                    BY <1>4 DEF NameIn, ByNamePar
                <5> QED BY <1>6, <1>8, <2>2, <2>4, <3>1, <5>1
            <4> QED BY <1>1, <1>2, <1>6, <2>2, <2>3, <2>4, <3>1, <4>1, <4>2 DEF Found, Walks
        <3>2. CASE c.op \notin {"find", "list"}
            BY <2>2, <3>2 DEF Found
        <3> QED BY <3>1, <3>2
    <2>7. Dirs(d, s)'
        <3>1. CASE c.op = "rmdir"
            <4>1. Choice(row)' = Choice(row)
                BY <1>4 DEF Choice
            <4>2. ~WalkFails(c.arg) \/ c.depth # 1 \/ ~(Len(c.arg) > 1)
                BY <1>1, <1>2, <1>5, <1>8, <3>1 DEF WalkFails, Dirs
            <4>3. LastLookup(c) => Choice(row) \in s
                BY <1>1, <1>2, <1>5, <1>8, <2>4, <3>1, <4>2, RmdirSees
            <4>4. Len(c.arg) > 1 => Walked \in s
                BY <1>1, <1>2, <3>1, <4>2, SeenNow DEF Dirs
            <4>5. LastLookup(d) = LastLookup(c)
                BY <2>2 DEF LastLookup
            <4>6. Choice(selbynampar.row)' = Choice(row)'
                BY <2>3, <2>4 DEF Choice
            <4> QED BY <1>1, <1>2, <2>2, <3>1, <4>1, <4>3, <4>4, <4>5, <4>6 DEF Dirs, Walks
        <3>2. CASE c.op = "mkdir"
            <4>1. c.parent = 1 /\ Len(c.arg) > 1 /\ ~WalkFails(c.arg)
                BY <1>1, <1>2, <1>5, <1>8, <3>2 DEF WalkFails, Dirs
            <4>2. MkdirOutcome(c.arg) \in s
                BY <1>1, <3>2, <4>1, SeenNow DEF Outcome
            <4> QED BY <2>2, <3>2, <4>1, <4>2 DEF Dirs, MkdirOutcome, ParentReached
        <3>3. CASE c.op \notin {"mkdir", "rmdir"}
            BY <2>2, <3>3 DEF Dirs
        <3> QED BY <3>1, <3>2, <3>3
    <2> QED BY <2>5, <2>6, <2>7 DEF Tells
<1> QED BY <1>7, <1>8

\* Where the walk of mkdir and rmdir ends, in the first name of the path or behind it.
LEMMA Longer ==
    ASSUME NEW path \in Paths
    PROVE  /\ Len(path) \in Nat \ {0} /\ (Len(path) > 1 <=> Len(path) # 1)
           /\ ParentReached(path) = IF Len(path) > 1 THEN 0 ELSE 1
<1>1. PICK n \in Nat \ {0} : n = Len(path)
    BY FirstNames
<1>2. n > 1 <=> n # 1
    OBVIOUS
<1> QED BY <1>1, <1>2 DEF ParentReached

LEMMA RmdirLast ==
    ASSUME NEW c, c.op = "rmdir", c.arg \in Paths
    PROVE  LastLookup(c) <=> c.depth = IF Len(c.arg) > 1 THEN 2 ELSE 1
<1>1. PICK path \in Paths : path = c.arg
    OBVIOUS
<1>2. ~(Len(path) > 1) => Len(path) = 1
    BY Longer
<1> QED BY <1>1, <1>2 DEF LastLookup

LEMMA TellsReadId ==
    ASSUME NEW t \in Threads, NEW s, Moving(t, s), ReadId(t), NEW d, d = frame'[t]
    PROVE  Tells(d, s)'
<1> DEFINE c == frame[t]
           row == selbynampar.row
<1>1. /\ IInv /\ CallType(t, c) /\ c.pc = "readid" /\ InPlace(c) /\ Dirs(c, s) /\ Found(c)
      /\ row \in DOMAIN entries
    BY DEF Moving, LInv, IInv, Frames, CallOK, ReadId, At, Tells, Places, InOrder, Selected
<1>2. c.op \in {"find", "list", "mkdir", "rmdir"} /\ c.pc \in Walks
    BY <1>1 DEF InPlace, Walks
<1>3. UNCHANGED <<entries, selbynampar>>
    BY DEF ReadId, stmtVars, KeepTable, tableVars
<1>4. SUFFICES Tells(d, s)
    BY <1>3, TellsSame
<1>5. CASE c.op = "mkdir"
    <2>1. d = With(c, "resetinsert", c.depth, 0, c.id, c.result)
        BY <1>1, <1>5, ReadIdFrame
    <2>2. /\ d.pc = "resetinsert" /\ d.op = "mkdir" /\ d.arg = c.arg /\ d.parent = 0
        BY <1>5, <2>1, WithFields
    <2>3. Len(c.arg) > 1 /\ MkdirOutcome(c.arg) \in s
        BY <1>1, <1>2, <1>5 DEF Dirs
    <2>4. ParentReached(c.arg) = 0
        BY <1>1, <1>5, <2>3, Longer DEF CallType
    <2>5. RowOf(d) = LocalRow(c.arg[1], 0)
        BY <2>2 DEF RowOf
    <2>6. <<"insert", RowOf(d)>> \in s
        BY <2>3, <2>4, <2>5 DEF MkdirOutcome
    <2> QED BY <2>2, <2>6 DEF Tells, Promised, Dirs, Found, Walks
<1>6. CASE c.op = "rmdir" /\ LastLookup(c)
    <2>1. d = With(c, "readtype", c.depth, c.parent, row, c.result)
        BY <1>1, <1>6, ReadIdFrame
    <2>2. /\ d.pc = "readtype" /\ d.op = "rmdir"
        BY <1>6, <2>1, WithFields
    <2>3. Choice(row) \in s
        BY <1>1, <1>6 DEF Dirs
    <2> QED BY <2>2, <2>3 DEF Tells, Promised, Dirs, Found, Walks, Inserting, UsesInsert
<1>7. CASE c.op = "rmdir" /\ ~LastLookup(c)
    <2>1. d = With(c, "reset", 2, 0, c.id, c.result)
        BY <1>1, <1>7, ReadIdFrame
    <2>2. d.pc = "reset" /\ d.op = "rmdir" /\ d.arg = c.arg /\ d.depth = 2 /\ d.parent = 0
        BY <1>7, <2>1, WithFields
    <2>3. c.arg \in Paths
        BY <1>1, <1>7 DEF CallType
    <2>4. Len(c.arg) > 1
        <3>1. c.depth = 1 \/ Len(c.arg) > 1
            BY <1>1, <1>2, <1>7 DEF Dirs
        <3> QED BY <1>7, <2>3, <3>1, RmdirLast
    <2>5. Walked \in s
        BY <1>1, <1>2, <1>7, <2>4 DEF Dirs
    <2> QED BY <2>2, <2>4, <2>5 DEF Tells, Promised, Dirs, Found, Inserting, UsesInsert
<1>8. ASSUME c.op \in {"find", "list"}
      PROVE  /\ c.depth \in 1..Len(c.arg) /\ c.depth \in Nat /\ Len(c.arg) \in Nat
             /\ DOMAIN c.arg = 1..Len(c.arg)
             /\ LastLookup(c) <=> c.depth = Len(c.arg)
             /\ Trail(c.arg, c.depth, row)
    <2>1. /\ c.depth \in 1..Len(c.arg) /\ Trail(c.arg, c.depth - 1, c.parent)
          /\ row = NameIn(c.parent, c.arg[c.depth])
        BY <1>1, <1>2, <1>8 DEF Found
    <2>2. Len(c.arg) \in Nat /\ DOMAIN c.arg = 1..Len(c.arg)
        BY <1>1, <1>8, PathLength DEF CallType
    <2>3. PICK k \in Nat : k = c.depth - 1 /\ c.depth = k + 1
        BY <2>1, <2>2
    <2>4. Trail(c.arg, k + 1, row)
        BY <1>1, <2>1, <2>3, TrailOn
    <2>5. LastLookup(c) <=> c.depth = Len(c.arg)
        BY <1>8 DEF LastLookup
    <2>6. c.depth \in Nat /\ Trail(c.arg, c.depth, row)
        BY <2>3, <2>4
    <2> QED BY <2>1, <2>2, <2>5, <2>6
<1>9. CASE c.op = "find" /\ LastLookup(c)
    <2>1. d = With(c, "return", c.depth, c.parent, c.id, <<"found", row>>)
        BY <1>1, <1>9, ReadIdFrame
    <2>2. FindByPath(c.arg) = row
        BY <1>1, <1>8, <1>9, TrailEnds
    <2>3. <<"found", row>> \in s
        <3>1. Outcome(c.op, c.arg) \in s
            BY <1>1, <1>9, SeenNow DEF Moving
        <3> QED BY <1>9, <2>2, <3>1 DEF Outcome
    <2>4. d.pc = "return" /\ d.result = <<"found", row>>
        BY <2>1, WithFields
    <2> QED BY <2>3, <2>4 DEF Tells, Promised, Dirs, Found, Walks, Inserting, UsesInsert
<1>10. CASE c.op = "list" /\ LastLookup(c)
    <2>1. d = With(c, "rows", c.depth, row, c.id, c.result)
        BY <1>1, <1>10, ReadIdFrame
    <2>2. /\ d.pc = "rows" /\ d.op = "list" /\ d.arg = c.arg /\ d.parent = row
          /\ d.id = c.id /\ d.result = c.result
        BY <1>10, <2>1, WithFields
    <2>3. c.id = 0 /\ c.result = <<"listed", {}>>
        BY <1>1, <1>2, <1>10 DEF Found
    <2>4. Listed(d) = {}
        BY <1>1, <2>2, <2>3, RootIsThere DEF Listed, ByPar
    <2>5. Trail(d.arg, Len(d.arg), d.parent)
        BY <1>8, <1>10, <2>2
    <2> QED BY <2>2, <2>3, <2>4, <2>5 DEF Tells, Promised, Dirs, Found, Walks, Inserting, UsesInsert
<1>11. CASE c.op \in {"find", "list"} /\ ~LastLookup(c)
    <2>1. d = With(c, "reset", c.depth + 1, row, c.id, c.result)
        BY <1>1, <1>11, ReadIdFrame
    <2>2. /\ d.pc = "reset" /\ d.op = c.op /\ d.arg = c.arg /\ d.depth = c.depth + 1
          /\ d.parent = row /\ d.id = c.id /\ d.result = c.result
        BY <2>1, WithFields
    <2>3. c.op = "list" => c.id = 0 /\ c.result = <<"listed", {}>>
        BY <1>1, <1>2, <1>11 DEF Found
    <2>4. /\ d.depth \in 1..Len(d.arg) /\ d.depth - 1 = c.depth
        BY <1>8, <1>11, <2>2
    <2>5. Trail(d.arg, d.depth - 1, d.parent)
        BY <1>8, <1>11, <2>2, <2>4
    <2>6. Found(d)
        BY <2>2, <2>3, <2>4, <2>5 DEF Found
    <2> QED BY <1>11, <2>2, <2>6 DEF Tells, Promised, Dirs, Inserting, UsesInsert
<1> QED BY <1>2, <1>5, <1>6, <1>7, <1>9, <1>10, <1>11

LEMMA TellsReadType ==
    ASSUME NEW t \in Threads, NEW s, Moving(t, s), ReadType(t), NEW d, d = frame'[t]
    PROVE  Tells(d, s)'
<1> DEFINE c == frame[t]
           row == selbynampar.row
<1>1. /\ IInv /\ c.pc = "readtype" /\ c.op = "rmdir" /\ Choice(row) \in s
      /\ row \in DOMAIN entries /\ c.id = row
    BY DEF Moving, LInv, ReadType, At, Tells, Places, InPlace, Dirs, InOrder, Selected
<1>2. UNCHANGED <<entries, selbynampar>>
    BY DEF ReadType, stmtVars, KeepTable, tableVars
<1>3. row # 0
    BY <1>1, RootIsThere
<1>4. CASE entries[row].type = Dir
    <2>1. d = With(c, "resetmark", c.depth, c.parent, c.id, c.result)
        BY <1>1, <1>3, <1>4, GotoFrame DEF ReadType
    <2>2. d.pc = "resetmark" /\ d.op = "rmdir" /\ d.id = row
        BY <1>1, <2>1, WithFields
    <2>3. <<"mark", row>> \in s
        BY <1>1, <1>4 DEF Choice
    <2>4. Tells(d, s)
        BY <2>2, <2>3 DEF Tells, Promised, Dirs, Found, Walks, Inserting, UsesInsert
    <2> QED BY <1>2, <2>4, TellsSame
<1>5. CASE entries[row].type # Dir
    <2>1. d = With(c, "return", c.depth, c.parent, c.id, None)
        BY <1>1, <1>3, <1>5, FinishFrame DEF ReadType
    <2>2. None \in s
        BY <1>1, <1>5 DEF Choice
    <2> QED BY <2>1, <2>2, WithFields, TellsDone
<1> QED BY <1>4, <1>5

LEMMA TellsMarkOn ==
    ASSUME NEW t \in Threads, NEW s, Moving(t, s), ResetMark(t) \/ BindId(t), NEW d, d = frame'[t]
    PROVE  Tells(d, s)'
<1> DEFINE c == frame[t]
<1>1. PICK to \in {"bindid", "mark"} : d = With(c, to, c.depth, c.parent, c.id, c.result)
    BY GotoFrame DEF Moving, LInv, ResetMark, BindId
<1>2. d.pc = to /\ d.op = c.op /\ d.id = c.id
    BY <1>1, WithFields
<1>3. <<"mark", c.id>> \in s /\ UNCHANGED entries
    BY DEF ResetMark, BindId, At, Moving, Tells, Promised, KeepTable, tableVars
<1>4. Tells(d, s)
    BY <1>2, <1>3 DEF Tells, Promised, Dirs, Found, Walks, Inserting, UsesInsert
<1> QED BY <1>2, <1>3, <1>4, TellsSame

LEMMA TellsMark ==
    ASSUME NEW t \in Threads, NEW s, Moving(t, s), Mark(t), NEW d, d = frame'[t]
    PROVE  Tells(d, s)'
<1> DEFINE c == frame[t]
<1>1. <<"mark", c.id>> \in s /\ updsyncdelid.id = c.id
    BY DEF Mark, At, Moving, Tells, Promised, InOrder, Marking
<1>2. d = With(c, "return", c.depth, c.parent, c.id, <<"mark", c.id>>)
    BY <1>1, FinishFrame DEF Mark, Moving, LInv
<1> QED BY <1>1, <1>2, WithFields, TellsDone

LEMMA TellsFindRoot ==
    ASSUME NEW t \in Threads, NEW s, Moving(t, s), FindRoot(t), NEW d, d = frame'[t]
    PROVE  Tells(d, s)'
<1> DEFINE c == frame[t]
<1>1. c.pc = "root" /\ c.op = "find" /\ c.arg = <<>> /\ IInv
    BY DEF FindRoot, At, Moving, LInv, Places, InPlace
<1>2. Len(c.arg) = 0 /\ DOMAIN c.arg = 1..Len(c.arg)
    BY <1>1, PathLength
<1>3. FindByPath(c.arg) = 1
    <2>1. Trail(c.arg, 0, 1)
        BY <1>1, TrailStart
    <2>2. Trail(c.arg, Len(c.arg), 1)
        BY <1>2, <2>1
    <2> QED BY <1>1, <1>2, <2>2, TrailEnds
<1>4. <<"found", 1>> \in s
    <2>1. Outcome(c.op, c.arg) \in s
        BY <1>1, SeenNow DEF Moving
    <2> QED BY <1>1, <1>3, <2>1 DEF Outcome
<1>5. d = With(c, "return", c.depth, c.parent, c.id, <<"found", 1>>)
    BY <1>1, FinishFrame DEF FindRoot
<1> QED BY <1>4, <1>5, WithFields, TellsDone

LEMMA TellsNextRow ==
    ASSUME NEW t \in Threads, NEW s, Moving(t, s), NextRow(t), NEW d, d = frame'[t]
    PROVE  Tells(d, s)'
<1> DEFINE c == frame[t]
           ahead == {i \in ByPar(c.parent) : i > c.id}
           row == First(ahead)
<1>1. /\ IInv /\ CallType(t, c) /\ FrameShape(c) /\ DOMAIN frame = Threads
      /\ c.pc = "rows" /\ c.op = "list"
      /\ Trail(c.arg, Len(c.arg), c.parent) /\ c.result = <<"listed", Listed(c)>>
      /\ c.id \in {0} \cup DOMAIN entries
    BY DEF Moving, LInv, IInv, Frames, CallOK, NextRow, At, Tells, Found, Places, InPlace
<1>2. UNCHANGED <<entries, selbynampar>>
    BY DEF NextRow, stmtVars, KeepTable, tableVars
<1>3. DOMAIN entries \in SUBSET Nat /\ c.id \in Nat
    BY <1>1, RootIsThere
<1>4. CASE ahead = {}
    <2>1. Listed(c) = ByPar(c.parent)
        <3>1. ASSUME NEW i \in ByPar(c.parent) PROVE i <= c.id
            <4>1. i \in Nat /\ ~(i > c.id)
                BY <1>3, <1>4 DEF ByPar
            <4> QED BY <1>3, <4>1
        <3> QED BY <3>1 DEF Listed
    <2>2. FindByPath(c.arg) = c.parent
        <3>1. Len(c.arg) \in Nat /\ DOMAIN c.arg = 1..Len(c.arg)
            BY <1>1, PathLength DEF CallType
        <3> QED BY <1>1, <3>1, TrailEnds
    <2>3. c.parent # 0
        <3>1. Len(c.arg) \in Nat
            BY <1>1, PathLength DEF CallType
        <3> QED BY <1>1, <3>1, TrailDirectory, RootIsThere
    <2>4. <<"listed", Listed(c)>> \in s
        <3>1. Outcome(c.op, c.arg) \in s
            BY <1>1, SeenNow DEF Moving
        <3> QED BY <1>1, <2>1, <2>2, <2>3, <3>1 DEF Outcome, Listdir
    <2>5. d = With(c, "return", c.depth, c.parent, c.id, c.result)
        BY <1>1, <1>4, GotoFrame DEF NextRow
    <2> QED BY <1>1, <2>4, <2>5, WithFields, TellsDone
<1>5. CASE ahead # {}
    <2>1. row \in ahead /\ row \in DOMAIN entries /\ row \in Nat /\ \A j \in ahead : row <= j
        <3>1. ahead \in SUBSET Nat /\ ahead \in SUBSET DOMAIN entries
            BY <1>3 DEF ByPar
        <3> HIDE DEF ahead
        <3> QED BY <1>5, <3>1, FirstIsMember
    <2>2. d = With(c, "rows", c.depth, c.parent, row, <<"listed", Listed(c) \cup {row}>>)
        <3>1. d = [[c EXCEPT !.id = row] EXCEPT !.result = [c.result EXCEPT ![2] = @ \cup {row}]]
            BY <1>1, <1>5 DEF NextRow
        <3>2. [c.result EXCEPT ![2] = @ \cup {row}] = <<"listed", Listed(c) \cup {row}>>
            BY <1>1
        <3>3. d = [[c EXCEPT !.id = row] EXCEPT !.result = <<"listed", Listed(c) \cup {row}>>]
            BY <3>1, <3>2
        <3> HIDE DEF row
        <3> QED BY <1>1, <3>3 DEF FrameShape, With
    <2>3. /\ d.pc = "rows" /\ d.op = "list" /\ d.arg = c.arg /\ d.parent = c.parent /\ d.id = row
          /\ d.result = <<"listed", Listed(c) \cup {row}>>
        BY <1>1, <2>2, WithFields
    <2>4. Listed(d) = Listed(c) \cup {row}
        <3>1. ASSUME NEW i \in ByPar(c.parent) PROVE i <= row <=> i <= c.id \/ i = row
            <4>1. i \in Nat /\ c.id < row /\ (i > c.id => row <= i)
                BY <1>3, <2>1 DEF ByPar
            <4> HIDE DEF row
            <4> QED BY <1>3, <2>1, <4>1
        <3>2. row \in ByPar(c.parent)
            BY <2>1
        <3> HIDE DEF row
        <3> QED BY <2>3, <3>1, <3>2 DEF Listed
    <2>5. Found(d)
        BY <1>1, <2>1, <2>3, <2>4 DEF Found, Walks
    <2> QED BY <1>2, <2>3, <2>5, TellsSame DEF Tells, Promised, Dirs, Inserting, UsesInsert
<1> QED BY <1>4, <1>5

LEMMA TellsLookupUuid ==
    ASSUME NEW t \in Threads, NEW s, Moving(t, s), LookupUuid(t), NEW d, d = frame'[t]
    PROVE  Tells(d, s)'
<1> DEFINE c == frame[t]
           id == IF c.arg.parent = Empty THEN 1
                 ELSE IF ByUuid(c.arg.uuid) = {} THEN 0 ELSE First(ByUuid(c.arg.uuid))
           p == IF c.arg.parent = Empty THEN Null ELSE c.parent
           to == IF c.arg.parent = Empty THEN "file" ELSE "parent"
<1>1. /\ DOMAIN frame = Threads /\ FrameShape(c) /\ c.pc = "known" /\ c.op = "update"
    BY DEF Moving, LInv, IInv, Frames, CallOK, CallType, LookupUuid, At
<1>2. UNCHANGED <<entries, selbynampar>>
    BY DEF LookupUuid, stmtVars, KeepTable, tableVars
<1>3. d = [[[c EXCEPT !.id = id] EXCEPT !.parent = p] EXCEPT !.pc = to]
    BY <1>1 DEF LookupUuid
<1>4. (to = "file" /\ id = 1 /\ p = Null /\ c.arg.parent = Empty) \/ to = "parent"
    OBVIOUS
<1> HIDE DEF id, p, to
<1>5. d = With(c, to, c.depth, p, id, c.result)
    BY <1>1, <1>3 DEF FrameShape, With
<1>6. d.pc = to /\ d.op = "update" /\ d.id = id /\ d.parent = p
    BY <1>1, <1>5, WithFields
<1>7. to = "file" => <<"file", id, p>> \in s
    <2>1. UpdateOutcome(c.arg) \in s
        BY <1>1, SeenNow DEF Moving, Outcome
    <2> QED BY <1>4, <2>1 DEF UpdateOutcome
<1> QED BY <1>2, <1>4, <1>6, <1>7, TellsSame
        DEF Tells, Promised, Dirs, Found, Walks, Inserting, UsesInsert

LEMMA TellsLookupParent ==
    ASSUME NEW t \in Threads, NEW s, Moving(t, s), LookupParent(t), NEW d, d = frame'[t]
    PROVE  Tells(d, s)'
<1> DEFINE c == frame[t]
           ps == ByUuid(c.arg.parent)
           to == IF c.id = 0 THEN "resetinsert" ELSE "file"
<1>1. /\ IInv /\ DOMAIN frame = Threads /\ FrameShape(c) /\ c.pc = "parent" /\ c.op = "update"
      /\ c.arg.parent # Empty /\ RowFound(c)
    BY DEF Moving, LInv, IInv, Frames, CallOK, CallType, Filing, LookupParent, At, LookedUp
<1>2. UNCHANGED <<entries, selbynampar>>
    BY DEF LookupParent, stmtVars, KeepTable, tableVars
<1>3. UpdateOutcome(c.arg) \in s
    BY <1>1, SeenNow DEF Moving, Outcome
<1>4. CASE ps = {}
    <2>1. d = With(c, "return", c.depth, c.parent, c.id, None)
        BY <1>1, <1>4, FinishFrame DEF LookupParent
    <2>2. None \in s
        BY <1>1, <1>3, <1>4 DEF UpdateOutcome
    <2> QED BY <2>1, <2>2, WithFields, TellsDone
<1>5. CASE ps # {}
    <2>1. d = [[c EXCEPT !.parent = First(ps)] EXCEPT !.pc = to]
        BY <1>1, <1>5 DEF LookupParent
    <2>2. d = With(c, to, c.depth, First(ps), c.id, c.result)
        <3> HIDE DEF ps, to
        <3> QED BY <1>1, <2>1 DEF FrameShape, With
    <2>3. d.pc = to /\ d.op = "update" /\ d.arg = c.arg /\ d.id = c.id /\ d.parent = First(ps)
        BY <1>1, <2>2, WithFields
    <2>4. c.id = 0 <=> ByUuid(c.arg.uuid) = {}
        <3>1. ByUuid(c.arg.uuid) # {} => First(ByUuid(c.arg.uuid)) # 0
            BY <1>1, UuidRow, RootIsThere
        <3> QED BY <1>1, <3>1 DEF RowFound
    <2>5. Promised(d, s)
        <3>1. CASE c.id = 0
            BY <1>1, <1>3, <1>5, <2>3, <2>4, <3>1
               DEF Promised, RowOf, UpdateOutcome, Inserting, UsesInsert
        <3>2. CASE c.id # 0
            BY <1>1, <1>3, <1>5, <2>3, <2>4, <3>2
               DEF Promised, RowFound, UpdateOutcome, Inserting, UsesInsert
        <3> QED BY <3>1, <3>2
    <2> QED BY <1>2, <2>3, <2>5, TellsSame DEF Tells, Dirs, Found, Walks
<1> QED BY <1>4, <1>5

LEMMA TellsFileEntry ==
    ASSUME NEW t \in Threads, NEW s, Moving(t, s), FileEntry(t), NEW d, d = frame'[t]
    PROVE  Tells(d, s)'
<1> DEFINE c == frame[t]
<1>1. <<"file", c.id, c.parent>> \in s
    BY DEF FileEntry, At, Moving, Tells, Promised
<1>2. d = With(c, "return", c.depth, c.parent, c.id, <<"file", c.id, c.parent>>)
    BY FinishFrame DEF FileEntry, Moving, LInv
<1> QED BY <1>1, <1>2, WithFields, TellsDone

LEMMA TellsInsertOn ==
    ASSUME NEW t \in Threads, NEW s, Moving(t, s), ResetInsert(t) \/ BindFields(t),
           NEW d, d = frame'[t]
    PROVE  Tells(d, s)'
<1> DEFINE c == frame[t]
<1>1. PICK to \in {"binduuid", "bindfname", "binddata", "bindfparent", "insert"} :
          d = With(c, to, c.depth, c.parent, c.id, c.result)
    BY GotoFrame DEF Moving, LInv, ResetInsert, BindFields, BindInsert
<1>2. d.pc = to /\ d.op = c.op /\ d.arg = c.arg /\ d.parent = c.parent
    BY <1>1, WithFields
<1>3. Inserting(c.pc) /\ UNCHANGED entries
    BY DEF ResetInsert, BindFields, BindInsert, At, Inserting, UsesInsert, KeepTable, tableVars
<1>4. <<"insert", RowOf(c)>> \in s /\ RowOf(d) = RowOf(c)
    BY <1>2, <1>3 DEF Moving, Tells, Promised, RowOf
<1>5. Tells(d, s)
    BY <1>2, <1>4 DEF Tells, Promised, Dirs, Found, Walks, Inserting
<1> QED BY <1>2, <1>3, <1>5, TellsSame

LEMMA TellsInsert ==
    ASSUME NEW t \in Threads, NEW s, Moving(t, s), Insert(t), NEW d, d = frame'[t]
    PROVE  Tells(d, s)'
<1> DEFINE c == frame[t]
<1>1. c.pc = "insert" /\ Given(c) /\ <<"insert", RowOf(c)>> \in s
    BY DEF Insert, At, Moving, InOrder, Tells, Promised, Inserting, UsesInsert
<1>2. BoundRow = RowOf(c)
    <2>1. RowOf(c) = [uuid |-> RowOf(c).uuid, name |-> RowOf(c).name, type |-> RowOf(c).type,
                      sync |-> RowOf(c).sync, parent |-> RowOf(c).parent]
        BY DEF RowOf, NewRow, LocalRow
    <2> QED BY <1>1, <2>1 DEF Given, BoundRow
<1>3. d = With(c, "return", c.depth, c.parent, c.id, <<"insert", RowOf(c)>>)
    BY <1>2, FinishFrame DEF Insert, Moving, LInv
<1> QED BY <1>1, <1>3, WithFields, TellsDone

LEMMA TellsOwn ==
    ASSUME NEW t \in Threads, NEW s, Moving(t, s), InCall(t), NEW d, d = frame'[t]
    PROVE  Tells(d, s)'
<1>1. IInv
    BY DEF Moving, LInv
<1> QED BY <1>1, TellsLock, TellsReturn, TellsOnward, TellsStep, TellsReadId, TellsReadType,
           TellsMarkOn, TellsMark, TellsFindRoot, TellsNextRow, TellsLookupUuid,
           TellsLookupParent, TellsFileEntry, TellsInsertOn, TellsInsert DEF InCall

-----------------------------------------------------------------------------
(* What the others are told, and what is seen                               *)

LEMMA NoRowZero == IInv => DOMAIN entries \in SUBSET Nat /\ 0 \notin DOMAIN entries
BY RootIsThere

\* The rows a listing has come by, when rows are added behind.
LEMMA ListedGrows ==
    ASSUME IInv, IInv', Grows, NEW c, c.id \in {0} \cup DOMAIN entries
    PROVE  Listed(c)' = Listed(c)
<1>1. DOMAIN entries' \in SUBSET Nat /\ 0 \notin DOMAIN entries'
    <2>1. IInv' => (DOMAIN entries \in SUBSET Nat /\ 0 \notin DOMAIN entries)'
        BY NoRowZero, PTL
    <2> QED BY <2>1
<1>2. ASSUME NEW i \in DOMAIN entries', i <= c.id PROVE i \in DOMAIN entries
    <2>1. SUFFICES ASSUME i \notin DOMAIN entries PROVE FALSE
        OBVIOUS
    <2>2. i \in Nat /\ i # 0
        BY <1>1
    <2>3. c.id # 0
        BY <1>2, <2>2
    <2>4. c.id \in DOMAIN entries /\ c.id \in Nat /\ c.id <= i /\ i # c.id
        BY <2>1, <2>3, IdsAreNat DEF Grows
    <2> QED BY <1>2, <2>2, <2>4
<1>3. \A i \in DOMAIN entries : i \in DOMAIN entries' /\ entries'[i].parent = entries[i].parent
    BY DEF Grows
<1>4. Listed(c)' = {i \in DOMAIN entries' : entries'[i].parent = c.parent /\ i <= c.id}
    BY DEF Listed, ByPar
<1>5. Listed(c) = {i \in DOMAIN entries : entries[i].parent = c.parent /\ i <= c.id}
    BY DEF Listed, ByPar
<1> QED BY <1>2, <1>3, <1>4, <1>5

LEMMA TellsOthers ==
    ASSUME LInv, LInv', NEW t \in Threads, InCall(t), NEW u \in Threads \ {t}, ~disturbed'[u],
           NEW s, Tells(frame[u], s), NEW d, d = frame[u]
    PROVE  Tells(d, s)'
<1>1. IInv /\ IInv' /\ InOrder(d) /\ InPlace(d) /\ CallType(u, d) /\ Tells(d, s)
    BY HistoryStep DEF LInv, Lone, Places, IInv, Frames, CallOK
<1>2. UsesNampar(d.pc) => UNCHANGED selbynampar
    BY <1>1, Untouched
<1>3. Promised(d, s)'
    BY <1>1 DEF Tells, Promised
<1>4. Dirs(d, s)'
    <2>1. ASSUME d.pc \in {"readtype", "readid"}
          PROVE  Choice(selbynampar.row)' = Choice(selbynampar.row)
        <3>1. selbynampar' = selbynampar /\ selbynampar.row \in DOMAIN entries
            BY <1>1, <1>2, <2>1 DEF UsesNampar, InOrder, Selected
        <3>2. entries'[selbynampar.row].type = entries[selbynampar.row].type
            BY <1>1, <3>1, InCallKeeps DEF Kept
        <3> QED BY <3>1, <3>2 DEF Choice
    <2> QED BY <1>1, <2>1 DEF Tells, Dirs
<1>5. Found(d)'
    <2>1. ASSUME d.op \in {"find", "list"}, d.pc \in Walks \/ d.pc = "rows" PROVE Grows
        <3>1. SUFFICES ASSUME FileEntry(t) PROVE FALSE
            BY <1>1, InCallGrows
        <3>2. InSection(frame[t])
            BY <1>1, <3>1, FileShape DEF InSection, Locks, FileEntry, At
        <3>3. InSection(frame[u])
            BY <2>1 DEF InSection, Locks, Walks
        <3>4. dbcache_mutex = t /\ dbcache_mutex = u
            BY <1>1, <3>2, <3>3 DEF IInv, Mutex
        <3> QED BY <3>4
    <2>2. ASSUME d.op \in {"find", "list"}, d.pc \in Walks
          PROVE  /\ Trail(d.arg, d.depth - 1, d.parent)'
                 /\ d.pc = "readid" =>
                        selbynampar'.row = NameIn(d.parent, d.arg[d.depth])'
        <3>1. Grows
            BY <2>1, <2>2
        <3>2. /\ d.depth \in 1..Len(d.arg) /\ Trail(d.arg, d.depth - 1, d.parent)
              /\ d.pc = "readid" => selbynampar.row = NameIn(d.parent, d.arg[d.depth])
            BY <1>1, <2>2 DEF Tells, Found
        <3>3. Len(d.arg) \in Nat
            BY <1>1, <2>2, PathLength DEF CallType
        <3>4. PICK k \in Nat : k = d.depth - 1
            BY <3>2, <3>3
        <3>5. Trail(d.arg, k, d.parent)'
            BY <1>1, <3>1, <3>2, <3>4, TrailGrows
        <3>6. ASSUME d.pc = "readid" PROVE selbynampar'.row = NameIn(d.parent, d.arg[d.depth])'
            <4>1. selbynampar' = selbynampar /\ selbynampar.row \in DOMAIN entries
                BY <1>1, <1>2, <3>6 DEF UsesNampar, InOrder, Selected
            <4>2. NameIn(d.parent, d.arg[d.depth]) # 0
                BY <1>1, <3>2, <3>6, <4>1, NoRowZero
            <4> QED BY <1>1, <3>1, <3>2, <3>6, <4>1, <4>2, NameInGrows
        <3> QED BY <3>4, <3>5, <3>6
    <2>3. ASSUME d.pc = "rows"
          PROVE  /\ Trail(d.arg, Len(d.arg), d.parent)'
                 /\ d.id \in {0} \cup DOMAIN entries' /\ Listed(d)' = Listed(d)
        <3>1. d.op = "list"
            BY <1>1, <2>3 DEF InPlace
        <3>2. Grows
            BY <2>1, <2>3, <3>1
        <3>3. Len(d.arg) \in Nat
            BY <1>1, <3>1, PathLength DEF CallType
        <3>4. Trail(d.arg, Len(d.arg), d.parent) /\ d.id \in {0} \cup DOMAIN entries
            BY <1>1, <2>3 DEF Tells, Found
        <3> QED BY <1>1, <3>2, <3>3, <3>4, TrailGrows, ListedGrows DEF Grows
    <2> QED BY <1>1, <2>2, <2>3 DEF Tells, Found
<1> QED BY <1>3, <1>4, <1>5 DEF Tells

LEMMA TellsMore ==
    ASSUME NEW d, NEW s, NEW r, s \subseteq r, Tells(d, s)'
    PROVE  Tells(d, r)'
<1>1. Promised(d, r)'
    BY DEF Tells, Promised
<1>2. Dirs(d, r)'
    BY DEF Tells, Dirs
<1> QED BY <1>1, <1>2 DEF Tells

\* The histories of the calls, which were "old", are now what Observe makes of them.
Shows(old) ==
    seen = [t \in Threads |->
                IF frame[t].pc = "idle" THEN {}
                ELSE old[t] \cup AtOnce(frame[t].op, frame[t].arg)
                     \cup {Outcome(frame[t].op, frame[t].arg) : w \in old[t] \cap {Walked}}]

LEMMA ShowsWitnesses ==
    \A old : Shows(old) =>
        /\ Witnessed
        /\ \A t \in Threads : frame[t].pc # "idle" => old[t] \subseteq seen[t]
<1> SUFFICES ASSUME NEW old, Shows(old), NEW t \in Threads
             PROVE  /\ Witnesses(frame[t], seen[t])
                    /\ frame[t].pc # "idle" => old[t] \subseteq seen[t]
    BY DEF Witnessed
<1>1. PICK c : c = frame[t]
    OBVIOUS
<1>2. PICK s : s = seen[t]
    OBVIOUS
<1>3. c.pc # "idle" => s = old[t] \cup AtOnce(c.op, c.arg)
                            \cup {Outcome(c.op, c.arg) : w \in old[t] \cap {Walked}}
    BY <1>1, <1>2 DEF Shows
<1>4. Walked \in AtOnce(c.op, c.arg) => Outcome(c.op, c.arg) \in AtOnce(c.op, c.arg)
    <2>1. Walked # None
        BY DEF Walked, None
    <2> QED BY <2>1 DEF AtOnce
<1> QED BY <1>1, <1>2, <1>3, <1>4 DEF Witnesses

LEMMA ObserveWitnesses ==
    ASSUME Observe
    PROVE  /\ Witnessed'
           /\ \A t \in Threads : frame'[t].pc # "idle" => seen[t] \subseteq seen'[t]
<1>1. \A old : old = seen => Shows(old)'
    BY DEF Observe, Shows
<1>2. (\A old : Shows(old) =>
           /\ Witnessed
           /\ \A t \in Threads : frame[t].pc # "idle" => old[t] \subseteq seen[t])'
    BY ShowsWitnesses, PTL
<1> QED BY <1>1, <1>2

LEMMA InCallCInv ==
    ASSUME CInv, NEW t \in Threads, InCall(t), Observe
    PROVE  CInv'
<1>1. LInv' /\ IInv
    BY InCallLInv DEF CInv, LInv
<1>2. Witnessed' /\ \A u \in Threads : frame'[u].pc # "idle" => seen[u] \subseteq seen'[u]
    BY ObserveWitnesses
<1>3. ASSUME NEW u \in Threads, ~disturbed'[u], NEW d, d = frame'[u], NEW s, s = seen'[u]
      PROVE  Tells(d, s)'
    <2>1. ~disturbed[u]
        BY <1>1, <1>3, HistoryStep DEF CInv, LInv
    <2>2. Tells(frame[u], seen[u]) /\ InOrder(frame[u]) /\ Witnesses(frame[u], seen[u])
        BY <2>1 DEF CInv, LInv, Faithful, Lone, Witnessed
    <2>3. PICK r : r = seen[u]
        OBVIOUS
    <2>4. Tells(d, r)'
        <3>1. CASE u = t
            BY <1>1, <1>3, <2>2, <2>3, <3>1, TellsOwn DEF Moving, CInv
        <3>2. CASE u # t
            <4>1. frame[u] = d
                BY <1>1, <1>3, <3>2, InCallOthers DEF Others
            <4> QED BY <1>1, <1>3, <2>2, <2>3, <3>2, <4>1, TellsOthers DEF CInv
        <3> QED BY <3>1, <3>2
    <2>5. CASE d.pc = "idle"
        BY <2>5 DEF Tells, Promised, Dirs, Found, Walks, Inserting, UsesInsert
    <2>6. CASE d.pc # "idle"
        BY <1>2, <1>3, <2>3, <2>4, <2>6, TellsMore
    <2> QED BY <2>5, <2>6
<1> QED BY <1>1, <1>2, <1>3 DEF CInv, Faithful

\* A call as it begins has nothing to tell, but mkdir of a single name, which is at once
\* on its way to the INSERT.
LEMMA TellsBegin ==
    ASSUME IInv, NEW t \in Threads, NEW op \in Ops \ {"none"}, NEW arg, Begin(t, op, arg),
           op \in {"mkdir", "rmdir"} => arg \in Paths,
           NEW d, d = frame'[t], NEW s, Witnesses(d, s)'
    PROVE  Tells(d, s)'
<1> DEFINE to == IF Locks(op) THEN "lock" ELSE Entry(op, arg)
           answer == IF op = "list" THEN <<"listed", {}>> ELSE <<>>
<1>1. d = [pc |-> to, op |-> op, arg |-> arg, depth |-> 1, parent |-> 1, id |-> 0,
           result |-> answer]
    BY BeginFrame
<1>2. /\ to \in {"lock", "resetinsert", "reset"}
      /\ to = "resetinsert" => op = "mkdir" /\ Len(arg) = 1
      /\ to = "reset" => (op = "mkdir" /\ Len(arg) # 1) \/ op = "rmdir"
    BY EntryPoint DEF Locks, Ops
<1>3. op = "list" => answer = <<"listed", {}>>
    OBVIOUS
<1> HIDE DEF to, answer
<1>4. /\ d.pc = to /\ d.op = op /\ d.arg = arg /\ d.depth = 1 /\ d.parent = 1
      /\ d.id = 0 /\ d.result = answer
    BY <1>1
<1>5. CASE to = "lock"
    BY <1>3, <1>4, <1>5 DEF Tells, Promised, Dirs, Found, Walks, Inserting, UsesInsert
<1>6. CASE to = "resetinsert"
    <2>1. op = "mkdir" /\ Len(arg) = 1 /\ arg \in Paths
        BY <1>2, <1>6
    <2>2. MkdirOutcome(arg) \in s
        <3>1. ~WalkFails(arg)'
            <4>1. ~(Len(arg) > 1)
                BY <2>1, Longer
            <4> QED BY <4>1 DEF WalkFails
        <3>2. AtOnce(d.op, d.arg)' \subseteq s
            BY <1>4, <1>6 DEF Witnesses
        <3>3. AtOnce(d.op, d.arg)' = {Walked, MkdirOutcome(arg)}
            BY <1>4, <2>1, <3>1 DEF AtOnce, Outcome
        <3> QED BY <3>2, <3>3
    <2>3. MkdirOutcome(arg) = <<"insert", RowOf(d)>>
        BY <1>4, <2>1 DEF MkdirOutcome, ParentReached, RowOf
    <2> QED BY <1>4, <1>6, <2>1, <2>2, <2>3 DEF Tells, Promised, Dirs, Found, Walks
<1>7. CASE to = "reset"
    <2>1. op = "mkdir" => Len(arg) > 1
        BY <1>2, <1>7, Longer
    <2> QED BY <1>2, <1>4, <1>7, <2>1 DEF Tells, Promised, Dirs, Found, Inserting, UsesInsert
<1> QED BY <1>2, <1>5, <1>6, <1>7

LEMMA BeginCInv ==
    ASSUME CInv, LInv', NEW t \in Threads, NEW op \in Ops \ {"none"}, NEW arg, Begin(t, op, arg),
           op \in {"mkdir", "rmdir"} => arg \in Paths, Observe
    PROVE  CInv'
<1>1. /\ IInv /\ Others(t) /\ UNCHANGED <<entries, selbynampar>>
      /\ \A u \in Threads \ {t} : disturbed'[u] = disturbed[u]
    <2>1. IInv /\ History
        BY DEF CInv, LInv
    <2> QED BY <2>1, BeginFrame DEF History, Begin
<1>2. Witnessed' /\ \A u \in Threads : frame'[u].pc # "idle" => seen[u] \subseteq seen'[u]
    BY ObserveWitnesses
<1>3. ASSUME NEW u \in Threads, ~disturbed'[u], NEW d, d = frame'[u], NEW s, s = seen'[u]
      PROVE  Tells(d, s)'
    <2>1. CASE u = t
        <3>1. Witnesses(d, s)'
            BY <1>2, <1>3 DEF Witnessed, Witnesses
        <3> QED BY <1>1, <1>3, <2>1, <3>1, TellsBegin
    <2>2. CASE u # t
        <3>1. PICK r : r = seen[u]
            OBVIOUS
        <3>2. frame[u] = d /\ Tells(d, r)
            BY <1>1, <1>3, <2>2, <3>1 DEF Others, CInv, Faithful
        <3>3. Tells(d, r)'
            BY <1>1, <3>2, TellsSame
        <3>4. CASE d.pc = "idle"
            BY <3>4 DEF Tells, Promised, Dirs, Found, Walks, Inserting, UsesInsert
        <3>5. CASE d.pc # "idle"
            BY <1>2, <1>3, <3>1, <3>3, <3>5, TellsMore
        <3> QED BY <3>4, <3>5
    <2> QED BY <2>1, <2>2
<1> QED BY <1>2, <1>3 DEF CInv, Faithful

LEMMA InitCInv == ASSUME Init PROVE CInv
<1>1. \A t \in Threads : frame[t].pc = "idle"
    BY DEF Init, Idle
<1>2. Witnessed
    BY <1>1 DEF Witnessed, Witnesses
<1>3. Faithful
    BY <1>1 DEF Faithful, Tells, Promised, Dirs, Found, Walks, Inserting, UsesInsert
<1> QED BY <1>2, <1>3, InitLInv DEF CInv

\* What a call would do depends on the table only.
LEMMA SameOutcome ==
    ASSUME UNCHANGED entries, NEW op, NEW arg
    PROVE  Outcome(op, arg)' = Outcome(op, arg) /\ AtOnce(op, arg)' = AtOnce(op, arg)
<1>1. FindByPath(arg)' = FindByPath(arg)
    BY DEF FindByPath, ByNamePar, First, FoldLeft, MapThenFoldSet
<1>2. Listdir(arg)' = Listdir(arg)
    BY <1>1 DEF Listdir, ByPar
<1>3. UpdateOutcome(arg)' = UpdateOutcome(arg)
    BY DEF UpdateOutcome, ByUuid
<1>4. RmdirOutcome(arg)' = RmdirOutcome(arg)
    BY DEF RmdirOutcome, ByNamePar
<1>5. Outcome(op, arg)' = Outcome(op, arg)
    BY <1>1, <1>2, <1>3, <1>4 DEF Outcome
<1>6. WalkFails(arg)' = WalkFails(arg)
    BY DEF WalkFails, ByNamePar
<1> QED BY <1>5, <1>6 DEF AtOnce

LEMMA StutterCInv == CInv /\ UNCHANGED vars => CInv'
<1> SUFFICES ASSUME CInv, UNCHANGED vars PROVE CInv'
    OBVIOUS
<1>1. UNCHANGED <<entries, selbynampar, frame, seen, disturbed>>
    BY DEF vars, stmtVars, tableVars
<1>2. LInv'
    BY StutterLInv DEF CInv
<1>3. ASSUME NEW t \in Threads, NEW d, d = frame[t], NEW s, s = seen[t]
      PROVE  Witnesses(d, s)' /\ (~disturbed[t] => Tells(d, s)')
    <2>1. Witnesses(d, s) /\ (~disturbed[t] => Tells(d, s))
        BY <1>3 DEF CInv, Witnessed, Faithful
    <2>2. Witnesses(d, s)'
        BY <1>1, <2>1, SameOutcome DEF Witnesses
    <2> QED BY <1>1, <2>1, <2>2, TellsSame
<1>4. Witnessed'
    BY <1>1, <1>3 DEF Witnessed
<1>5. Faithful'
    BY <1>1, <1>3 DEF Faithful
<1> QED BY <1>2, <1>4, <1>5 DEF CInv

LEMMA NextCInv == ASSUME CInv, [Next]_vars PROVE CInv'
<1>1. LInv'
    BY NextLInv DEF CInv
<1>2. CASE UNCHANGED vars
    BY <1>2, StutterCInv
<1>3. CASE DriveCall /\ Observe
    <2>1. PICK f \in Files : Begin(DriveThread, "update", f)
        BY <1>3 DEF DriveCall
    <2> QED BY <1>1, <1>3, <2>1, BeginCInv DEF Ops, Threads
<1>4. ASSUME NEW w \in Workers, FuseCall(w), Observe PROVE CInv'
    <2>1. PICK op \in {"find", "list", "mkdir", "rmdir"}, path \in Paths \cup {<<>>} :
              Begin(w, op, path) /\ (op \in {"mkdir", "rmdir"} => path \in Paths)
        BY <1>4 DEF FuseCall, fuseapi_getattr, fuseapi_readdir, fuseapi_mkdir, fuseapi_rmdir
    <2> QED BY <1>1, <1>4, <2>1, BeginCInv DEF Ops, Threads
<1>5. ASSUME NEW t \in Threads, InCall(t), Observe PROVE CInv'
    BY <1>5, InCallCInv
<1> QED BY <1>2, <1>3, <1>4, <1>5 DEF Next, Finished

\* A call no statement of which another has touched while it used it does and answers what
\* it would have done and answered all at once at some moment since it began: the functions
\* that take dbcache_mutex however they meet, and mkdir and rmdir, which take nothing, when
\* they met nobody in a statement.
THEOREM LoneCallsCorrect == Spec => []LoneCallsLinear
<1>1. CInv => LoneCallsLinear
    BY DEF CInv, Faithful, Tells, Promised, LoneCallsLinear, At
<1>2. Spec => []CInv
    BY InitCInv, NextCInv, PTL DEF Spec
<1> QED BY <1>1, <1>2, PTL

=============================================================================
