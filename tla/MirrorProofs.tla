--------------------------- MODULE MirrorProofs ---------------------------
(***************************************************************************)
(* Every step of DriveSync keeps the identity of the rows, and is a step   *)
(* of Mirror or leaves the mirror alone.                                   *)
(***************************************************************************)
EXTENDS DriveSyncProofs

\* How a step may change the rows: one of the four things dbcache.c does to them.
SameRows == UNCHANGED entries

RootRewritten(u) ==
    /\ Len(entries') = Len(entries)
    /\ entries'[1] = [entries[1] EXCEPT !.uuid = u]
    /\ \A j \in 2..Len(entries) : entries'[j] = entries[j]

Moved(i, q) ==
    /\ Len(entries') = Len(entries)
    /\ entries'[i].parent = q
    /\ \A j \in 1..Len(entries) :
          /\ entries'[j].uuid = entries[j].uuid
          /\ entries'[j].name = entries[j].name
          /\ entries'[j].type = entries[j].type
          /\ entries'[j].sync = entries[j].sync
          /\ j # i => entries'[j].parent = entries[j].parent

Marked ==
    /\ Len(entries') = Len(entries)
    /\ \A j \in 1..Len(entries) :
          \E s \in {-1, entries[j].sync} : entries'[j] = [entries[j] EXCEPT !.sync = s]

Added(r) ==
    /\ Len(entries') = Len(entries) + 1
    /\ entries'[Len(entries) + 1] = r
    /\ \A j \in 1..Len(entries) : entries'[j] = entries[j]

\* What Drive answered about a file is on record below the row of its folder.
Filed(f) ==
    /\ f.parent # Empty
    /\ \E q \in 1..Len(entries) :
          /\ entries[q].uuid = f.parent /\ (f.parent = Root <=> q = 1)
          /\ \/ ByUuid(f.uuid) = {} /\ Added(NewRow(f, q))
             \/ \E i \in 2..Len(entries) : entries[i].uuid = f.uuid /\ Moved(i, q)

\* MoveEntry changes the parent in the file's own row, to the row of its folder.
LEMMA MoveEntryShape ==
    ASSUME TableOK, NEW f, AnswerOK(f), MoveEntry(f)
    PROVE  Filed(f)
<1> DEFINE i == First(ByUuid(f.uuid))
           q == First(ByUuid(f.parent))
           r == [uuid |-> f.uuid, name |-> entries[i].name, type |-> entries[i].type,
                 sync |-> entries[i].sync, parent |-> q]
<1>1. f.uuid \in Uuids \ {Root} /\ f.parent \in Uuids
    BY DEF AnswerOK, MoveEntry, Answers
<1>2. i \in 2..Len(entries) /\ entries[i].uuid = f.uuid
    BY <1>1, RowOfUuid, TableShape DEF MoveEntry, TableOK
<1>3. q \in 1..Len(entries) /\ entries[q].uuid = f.parent /\ (f.parent = Root <=> q = 1)
    BY <1>1, RowOfUuid DEF MoveEntry, TableOK
<1>4. Len(entries) \in Nat /\ i \in 1..Len(entries)
    BY <1>2, TableShape DEF TableOK
<1>5. entries' = [entries EXCEPT ![i] = r]
    BY DEF MoveEntry, updbyid
<1>6. r \in Row
    BY <1>1, <1>3, <1>4, TableShape DEF Row, TableOK
<1>7. /\ Len(entries') = Len(entries)
      /\ \A j \in 1..Len(entries) : entries'[j] = IF j = i THEN r ELSE entries[j]
    BY <1>4, <1>5, <1>6, ReplaceRow DEF TableOK
<1>8. Moved(i, q)
    <2> HIDE DEF i, q
    <2> QED BY <1>2, <1>4, <1>7 DEF Moved
<1>9. f.parent # Empty
    BY DEF MoveEntry
<1> HIDE DEF i, q
<1> QED BY <1>2, <1>3, <1>8, <1>9 DEF Filed

\* UpdateRoot changes the uuid in row 1.
LEMMA UpdateRootShape ==
    ASSUME TableOK, NEW f, AnswerOK(f), UpdateRoot(f)
    PROVE  RootRewritten(f.uuid)
<1>1. 1 \in 1..Len(entries) /\ Len(entries) \in Nat
    BY TableShape, EmptySeq DEF TableOK, TableInv, RootStays, TableTypeOK
<1> DEFINE r == [uuid |-> f.uuid, name |-> entries[1].name, type |-> entries[1].type,
                 sync |-> entries[1].sync, parent |-> Null]
<1>2. entries' = [entries EXCEPT ![1] = r]
    BY DEF UpdateRoot, updbyid
<1>3. entries[1] \in Row /\ entries[1].parent = Null
    BY <1>1, TableShape DEF TableOK, TableInv, RootStays
<1>4. f.uuid \in {Empty, Root}
    BY DEF AnswerOK, UpdateRoot
<1>5. r \in Row /\ r = [entries[1] EXCEPT !.uuid = f.uuid]
    BY <1>3, <1>4, DbAssumption DEF Row
<1>6. /\ Len(entries') = Len(entries)
      /\ \A j \in 1..Len(entries) : entries'[j] = IF j = 1 THEN r ELSE entries[j]
    BY <1>1, <1>2, <1>5, ReplaceRow DEF TableOK
<1> HIDE DEF r
<1> QED BY <1>1, <1>5, <1>6 DEF RootRewritten

\* InsertEntry adds a row below the row of the file's folder.
LEMMA InsertEntryShape ==
    ASSUME TableOK, NEW f, AnswerOK(f), InsertEntry(f)
    PROVE  Filed(f)
<1> DEFINE q == First(ByUuid(f.parent))
<1>1. f.uuid \in Uuids /\ f.parent \in Uuids /\ f.name \in Names
    BY DEF AnswerOK, InsertEntry, Answers
<1>2. q \in 1..Len(entries) /\ entries[q].uuid = f.parent /\ (f.parent = Root <=> q = 1)
    BY <1>1, RowOfUuid DEF InsertEntry, TableOK
<1>3. NewRow(f, q) \in Row
    BY <1>1, <1>2, TableShape DEF NewRow, Row, Dir, File, TableOK
<1>4. entries' = Append(entries, NewRow(f, q))
    BY DEF InsertEntry
<1>5. Added(NewRow(f, q))
    BY <1>3, <1>4, AddRow DEF Added, TableOK
<1>6. f.parent # Empty /\ ByUuid(f.uuid) = {}
    BY DEF InsertEntry
<1> HIDE DEF q
<1> QED BY <1>2, <1>5, <1>6 DEF Filed

\* FUSE adds a local row or sets sync to -1.
LEMMA FuseShape ==
    ASSUME TableOK, NEW path \in Paths, dbcache_mkdir(path) \/ dbcache_rmdir(path)
    PROVE  SameRows \/ Marked \/ \E r \in Row : r.uuid = Null /\ Added(r)
<1>1. CASE dbcache_mkdir(path) /\ ~WalkFails(path)
    <2> DEFINE r == LocalRow(path[1], ParentReached(path))
    <2>1. r \in Row /\ r.uuid = Null
        BY PathName DEF LocalRow, ParentReached, Row, Dir, File
    <2>2. entries' = Append(entries, r)
        BY <1>1 DEF dbcache_mkdir
    <2> QED BY <2>1, <2>2, AddRow DEF Added, TableOK
<1>2. CASE dbcache_rmdir(path) /\ RmdirMatches(path) # {}
           /\ entries[First(RmdirMatches(path))].type = Dir
    <2> DEFINE id == First(RmdirMatches(path))
               r == [entries[id] EXCEPT !.sync = -1]
    <2>1. id \in RmdirMatches(path)
        BY <1>2, FirstIsMember, TableShape DEF RmdirMatches, ByNamePar, TableOK
    <2>2. id \in 1..Len(entries) /\ entries[id] \in Row
        BY <2>1, TableShape DEF RmdirMatches, ByNamePar, TableOK
    <2>3. entries' = [entries EXCEPT ![id] = r]
        BY <1>2 DEF dbcache_rmdir
    <2>4. r \in Row
        BY <2>2 DEF Row
    <2>5. /\ Len(entries') = Len(entries)
          /\ \A j \in 1..Len(entries) : entries'[j] = IF j = id THEN r ELSE entries[j]
        BY <2>2, <2>3, <2>4, ReplaceRow DEF TableOK
    <2> HIDE DEF id
    <2>6. ASSUME NEW j \in 1..Len(entries)
          PROVE  \E s \in {-1, entries[j].sync} : entries'[j] = [entries[j] EXCEPT !.sync = s]
        <3>1. entries[j] \in Row
            BY TableShape DEF TableOK
        <3>2. entries[j] = [entries[j] EXCEPT !.sync = entries[j].sync]
            BY <3>1 DEF Row
        <3> QED BY <2>5, <3>2
    <2> QED BY <2>5, <2>6 DEF Marked
<1> QED BY <1>1, <1>2 DEF dbcache_mkdir, dbcache_rmdir, SameRows

\* The rows change in one of these ways only.
LEMMA StepShape ==
    ASSUME IInv, [Next]_vars
    PROVE  \/ SameRows \/ Marked
           \/ \E r \in Row : r.uuid = Null /\ Added(r)
           \/ UpdateEntry /\ got.parent = Empty /\ RootRewritten(got.uuid)
           \/ UpdateEntry /\ got.kind # "native" /\ UNCHANGED <<change, placed>> /\ Filed(got)
<1>1. CASE UNCHANGED entries
    BY <1>1 DEF SameRows
<1>2. CASE UpdateEntry /\ got.kind # "native"
    <2>1. TableOK /\ AnswerOK(got) /\ dbcache_update(got) /\ UNCHANGED <<change, placed>>
        BY <1>2 DEF IInv, UpdateEntry, remoteVars, dbcache_update
    <2>2. CASE UpdateRoot(got)
        BY <1>2, <2>1, <2>2, UpdateRootShape DEF UpdateRoot
    <2>3. CASE MoveEntry(got)
        BY <1>2, <2>1, <2>3, MoveEntryShape
    <2>4. CASE InsertEntry(got)
        BY <1>2, <2>1, <2>4, InsertEntryShape
    <2>5. CASE RejectOrphan(got)
        BY <2>5, <1>1 DEF RejectOrphan
    <2> QED BY <2>1, <2>2, <2>3, <2>4, <2>5 DEF dbcache_update
<1>3. CASE \E path \in Paths : (dbcache_mkdir(path) \/ dbcache_rmdir(path)) /\ UNCHANGED placed
    BY <1>3, FuseShape DEF IInv
<1> QED BY <1>1, <1>2, <1>3, NextTable DEF vars, tableVars

\* None of the five touches the identity of a row.
LEMMA StepRowsKeep ==
    ASSUME IInv, [Next]_vars
    PROVE  RowsKeep
<1>1. /\ Len(entries) \in Nat /\ DOMAIN entries = 1..Len(entries)
      /\ \A i \in 1..Len(entries) : entries[i] \in Row
    BY TableShape DEF IInv, TableOK
<1>2. CASE SameRows
    BY <1>1, <1>2 DEF SameRows, RowsKeep
<1>3. CASE RootRewritten(got.uuid)
    BY <1>1, <1>3 DEF RootRewritten, RowsKeep, Row
<1>4. CASE Marked
    <2> SUFFICES ASSUME NEW i \in 1..Len(entries)
                 PROVE  /\ entries'[i].name = entries[i].name
                        /\ entries'[i].type = entries[i].type
                        /\ entries'[i].uuid = entries[i].uuid
                        /\ entries'[i].parent = entries[i].parent
                        /\ entries[i].sync = -1 => entries'[i].sync = -1
        BY <1>1, <1>4 DEF Marked, RowsKeep
    <2>1. PICK s \in {-1, entries[i].sync} : entries'[i] = [entries[i] EXCEPT !.sync = s]
        BY <1>4 DEF Marked
    <2>2. entries[i] \in Row
        BY <1>1
    <2> QED BY <2>1, <2>2 DEF Row
<1>5. CASE \E r : Added(r)
    BY <1>1, <1>5 DEF Added, RowsKeep
<1>6. CASE Filed(got)
    <2>1. got.uuid # Null
        BY <1>6, DbAssumption DEF IInv, AnswerOK, Filed
    <2>2. CASE \E r : Added(r)
        BY <1>5, <2>2
    <2>3. CASE \E i \in 2..Len(entries) : \E q : entries[i].uuid = got.uuid /\ Moved(i, q)
        BY <1>1, <2>1, <2>3 DEF Moved, RowsKeep
    <2> QED BY <1>6, <2>2, <2>3 DEF Filed
<1> QED BY <1>2, <1>3, <1>4, <1>5, <1>6, StepShape

\* No step of the scan or of FUSE turns one entry of dfs_entry into another.
THEOREM IdentityKept == Spec => RowsKeepIdentity
<1>1. IInv /\ [Next]_vars => [RowsKeep]_vars
    BY StepRowsKeep
<1> QED BY <1>1, InvariantIInv, PTL DEF Spec, RowsKeepIdentity

-----------------------------------------------------------------------------
(* The refinement.  The rows of Drive files, by their uuids, form the tree. *)

TreeShape ==
    /\ DOMAIN MirrorTree = {entries[i].uuid : i \in DriveRows}
    /\ \A i \in DriveRows : MirrorTree[entries[i].uuid] = ParentUuid(i)
    /\ \A i, j \in DriveRows : entries[i].uuid = entries[j].uuid => i = j

\* MirrorTree is what its name says because a file has one row at most.
LEMMA TreeOfRows == TableOK => TreeShape
<1> SUFFICES ASSUME TableOK PROVE TreeShape
    OBVIOUS
<1>1. ASSUME NEW i \in DriveRows PROVE First(ByUuid(entries[i].uuid)) = i
    <2>1. i \in Nat
        BY TableShape DEF DriveRows, TableOK
    <2>2. ByUuid(entries[i].uuid) = {i}
        BY DEF DriveRows, TableOK, TableInv, UuidsUnique
    <2>3. First({i}) \in {i}
        BY <2>1, FirstIsMember
    <2> QED BY <2>2, <2>3
<1>2. \A i, j \in DriveRows : entries[i].uuid = entries[j].uuid => i = j
    BY DEF DriveRows, TableOK, TableInv, UuidsUnique
<1> QED BY <1>1, <1>2 DEF MirrorTree, TreeShape

\* No Drive file gets a row, and those that have one stay where they are.
LEMMA TreeUnchanged ==
    ASSUME TableOK, TableOK', Len(entries') >= Len(entries),
           \A i \in 2..Len(entries) : /\ entries'[i].uuid = entries[i].uuid
                                      /\ entries'[i].parent = entries[i].parent,
           \A i \in (Len(entries) + 1)..Len(entries') : entries'[i].uuid = Null
    PROVE  MirrorTree' = MirrorTree
<1>1. Len(entries) \in Nat /\ Len(entries') \in Nat
    BY TableShape, LenProperties DEF TableOK, TableTypeOK
<1>2. DriveRows' = DriveRows
    BY <1>1 DEF DriveRows
<1>3. ASSUME NEW i \in DriveRows
      PROVE  entries'[i].uuid = entries[i].uuid /\ ParentUuid(i)' = ParentUuid(i)
    <2>1. i \in 2..Len(entries) /\ entries[i].parent \in 1..Len(entries)
        BY <1>1 DEF DriveRows, TableOK, TableInv, ParentsKnown
    <2> QED BY <1>1, <2>1 DEF ParentUuid
<1>4. TreeShape
    BY TreeOfRows
<1>5. TreeShape'
    BY TreeOfRows, PTL
<1>6. DOMAIN MirrorTree' = DOMAIN MirrorTree
    BY <1>2, <1>3, <1>4, <1>5 DEF TreeShape
<1>7. \A u \in DOMAIN MirrorTree : MirrorTree'[u] = MirrorTree[u]
    BY <1>2, <1>3, <1>4, <1>5 DEF TreeShape
<1> QED BY <1>6, <1>7 DEF MirrorTree

\* The mirror with a file recorded in a folder.
Recorded(u, p) == [v \in DOMAIN MirrorTree \cup {u} |-> IF v = u THEN p ELSE MirrorTree[v]]

\* One Drive file, in row k, is recorded in folder p, and the others stay where they are.
LEMMA TreePlaced ==
    ASSUME TableOK, TableOK', NEW u, NEW p, NEW k \in DriveRows',
           entries'[k].uuid = u, ParentUuid(k)' = p,
           DriveRows' = DriveRows \cup {k},
           \A i \in DriveRows : entries'[i].uuid = entries[i].uuid,
           \A i \in DriveRows \ {k} : ParentUuid(i)' = ParentUuid(i)
    PROVE  MirrorTree' = Recorded(u, p)
<1>1. TreeShape
    BY TreeOfRows
<1>2. TreeShape'
    BY TreeOfRows, PTL
<1>3. DOMAIN MirrorTree' = DOMAIN MirrorTree \cup {u}
    BY <1>1, <1>2 DEF TreeShape
<1>4. ASSUME NEW i \in DriveRows \ {k} PROVE entries[i].uuid # u
    <2>1. i \in DriveRows' /\ entries'[i].uuid = entries[i].uuid
        OBVIOUS
    <2> QED BY <1>2, <2>1 DEF TreeShape
<1>5. ASSUME NEW v \in DOMAIN MirrorTree' PROVE MirrorTree'[v] = Recorded(u, p)[v]
    <2>1. CASE v = u
        BY <1>2, <1>3, <2>1 DEF TreeShape, Recorded
    <2>2. CASE v # u
        <3>1. PICK i \in DriveRows \ {k} : v = entries[i].uuid
            BY <1>1, <1>3, <2>2 DEF TreeShape
        <3>2. MirrorTree'[v] = ParentUuid(i)' /\ MirrorTree[v] = ParentUuid(i)
            BY <1>1, <1>2, <3>1 DEF TreeShape
        <3> QED BY <1>3, <2>2, <3>1, <3>2 DEF Recorded
    <2> QED BY <2>1, <2>2
<1> QED BY <1>3, <1>5 DEF MirrorTree, Recorded

\* A step that records a Drive file places it in the mirror.
LEMMA RecordPlaces ==
    ASSUME TableOK, TableOK', NEW f, f.uuid # Null, f.parent \in Uuids, Filed(f)
    PROVE  /\ f.parent \in DOMAIN MirrorTree \cup {Root}
           /\ <<f.uuid, f.parent>> \in placed'
           /\ MirrorTree' = Recorded(f.uuid, f.parent)
<1>1. Len(entries) \in Nat
    BY TableShape DEF TableOK
<1>q. PICK q \in 1..Len(entries) :
          /\ entries[q].uuid = f.parent /\ (f.parent = Root <=> q = 1)
          /\ \/ Added(NewRow(f, q))
             \/ \E i \in 2..Len(entries) : entries[i].uuid = f.uuid /\ Moved(i, q)
    BY DEF Filed
<1>2. f.parent \in DOMAIN MirrorTree \cup {Root}
    <2>1. CASE q # 1
        <3>1. q \in DriveRows
            BY <1>1, <1>q, <2>1, DbAssumption DEF DriveRows
        <3> QED BY <1>q, <3>1, TreeOfRows DEF TreeShape
    <2> QED BY <1>q, <2>1
<1>3. \A i \in DriveRows : i \in 2..Len(entries) /\ entries[i].parent \in 1..Len(entries)
    BY <1>1 DEF DriveRows, TableOK, TableInv, ParentsKnown
<1>4. CASE Added(NewRow(f, q))
    <2> PICK k \in Nat : k = Len(entries) + 1
        BY <1>1
    <2>1. Len(entries') = k /\ k \in 2..k
        BY <1>1, <1>4 DEF Added
    <2>2. entries'[k].uuid = f.uuid /\ entries'[k].parent = q
        BY <1>4 DEF Added, NewRow
    <2>3. DriveRows' = DriveRows \cup {k}
        BY <1>1, <1>4, <2>1, <2>2 DEF Added, DriveRows
    <2>4. \A i \in DriveRows : entries'[i].uuid = entries[i].uuid /\ ParentUuid(i)' = ParentUuid(i)
        BY <1>1, <1>3, <1>4 DEF Added, ParentUuid
    <2>5. ParentUuid(k)' = f.parent
        BY <1>q, <1>4, <2>2 DEF Added, ParentUuid
    <2>6. <<f.uuid, f.parent>> \in placed'
        BY <2>1, <2>2, <2>5 DEF TableOK, PlacementOnceTrue
    <2>7. k \in DriveRows'
        BY <2>3
    <2>8. MirrorTree' = Recorded(f.uuid, f.parent)
        BY <2>2, <2>3, <2>4, <2>5, <2>7, TreePlaced
    <2> QED BY <1>2, <2>6, <2>8
<1>5. CASE \E i \in 2..Len(entries) : entries[i].uuid = f.uuid /\ Moved(i, q)
    <2>1. PICK k \in 2..Len(entries) : entries[k].uuid = f.uuid /\ Moved(k, q)
        BY <1>5
    <2>2. k \in DriveRows /\ DriveRows' = DriveRows \cup {k}
        BY <1>1, <2>1 DEF Moved, DriveRows
    <2>3. entries'[k].uuid = f.uuid /\ entries'[k].parent = q
        BY <1>1, <2>1 DEF Moved
    <2>4. \A i \in DriveRows : entries'[i].uuid = entries[i].uuid
        BY <1>1, <1>3, <2>1 DEF Moved
    <2>5. \A i \in DriveRows \ {k} : ParentUuid(i)' = ParentUuid(i)
        BY <1>1, <1>3, <2>1 DEF Moved, ParentUuid
    <2>6. ParentUuid(k)' = f.parent
        BY <1>q, <1>1, <2>1, <2>3 DEF Moved, ParentUuid
    <2>7. <<f.uuid, f.parent>> \in placed'
        BY <1>1, <2>1, <2>3, <2>6 DEF Moved, TableOK, PlacementOnceTrue
    <2>8. k \in DriveRows'
        BY <2>2
    <2>9. MirrorTree' = Recorded(f.uuid, f.parent)
        BY <2>2, <2>3, <2>4, <2>5, <2>6, <2>8, TreePlaced
    <2> QED BY <1>2, <2>7, <2>9
<1> QED BY <1>q, <1>4, <1>5

\* A new table mirrors nothing.
LEMMA InitMirror == Init => M!Init
<1> SUFFICES ASSUME Init PROVE M!Init
    OBVIOUS
<1>1. TableOK
    BY InitIInv DEF IInv
<1>2. Len(entries) = 1
    BY DEF Init, TableInit
<1>3. DriveRows = {}
    BY <1>2 DEF DriveRows
<1>4. DOMAIN MirrorTree = {}
    BY <1>1, <1>3, TreeOfRows DEF TreeShape
<1>5. placed \in SUBSET (Uuids \X Uuids)
    BY InitIInv DEF IInv, TypeOK
<1> QED BY <1>4, <1>5 DEF M!Init, Init, TableInit

\* A step places at most the file recurse has the answer of.
LEMMA StepTree ==
    ASSUME IInv, IInv', [Next]_vars
    PROVE  \/ MirrorTree' = MirrorTree
           \/ /\ UpdateEntry /\ got.kind # "native" /\ UNCHANGED <<change, placed>>
              /\ got.uuid \in Uuids \ {Root} /\ got.parent \in Uuids
              /\ got.parent \in DOMAIN MirrorTree \cup {Root}
              /\ <<got.uuid, got.parent>> \in placed'
              /\ MirrorTree' = Recorded(got.uuid, got.parent)
<1>1. TableOK /\ TableOK' /\ Len(entries) \in Nat
    BY TableShape DEF IInv, TableOK
<1>2. ASSUME SameRows \/ Marked \/ (\E u : RootRewritten(u)) \/ \E r : r.uuid = Null /\ Added(r)
      PROVE  MirrorTree' = MirrorTree
    <2>1. /\ Len(entries') >= Len(entries)
          /\ \A i \in 2..Len(entries) : /\ entries'[i].uuid = entries[i].uuid
                                        /\ entries'[i].parent = entries[i].parent
          /\ \A i \in (Len(entries) + 1)..Len(entries') : entries'[i].uuid = Null
        <3>1. \A i \in 1..Len(entries) : entries[i] \in Row
            BY <1>1, TableShape DEF TableOK
        <3>2. CASE Marked
            <4>1. ASSUME NEW i \in 1..Len(entries)
                  PROVE  entries'[i].uuid = entries[i].uuid /\ entries'[i].parent = entries[i].parent
                BY <3>1, <3>2 DEF Marked, Row
            <4>2. Len(entries') = Len(entries)
                BY <3>2 DEF Marked
            <4> QED BY <1>1, <4>1, <4>2
        <3>3. CASE SameRows
            BY <1>1, <3>3 DEF SameRows
        <3>4. CASE \E u : RootRewritten(u)
            BY <1>1, <3>4 DEF RootRewritten
        <3>5. CASE \E r : r.uuid = Null /\ Added(r)
            <4>1. Len(entries') = Len(entries) + 1 /\ entries'[Len(entries) + 1].uuid = Null
                BY <3>5 DEF Added
            <4>2. \A i \in 2..Len(entries) : entries'[i] = entries[i]
                BY <1>1, <3>5 DEF Added
            <4>3. \A i \in (Len(entries) + 1)..Len(entries') : i = Len(entries) + 1
                BY <1>1, <4>1
            <4> QED BY <1>1, <4>1, <4>2, <4>3
        <3> QED BY <1>2, <3>2, <3>3, <3>4, <3>5
    <2> QED BY <1>1, <2>1, TreeUnchanged
<1>3. CASE UpdateEntry /\ got.kind # "native" /\ UNCHANGED <<change, placed>> /\ Filed(got)
    <2>1. /\ got.uuid \in Uuids \ {Root} /\ got.parent \in Uuids
          /\ got.uuid # Null
        BY <1>3, DbAssumption DEF IInv, AnswerOK, Answers, Filed
    <2> QED BY <1>1, <1>3, <2>1, RecordPlaces
<1> QED BY <1>2, <1>3, StepShape

\* Every step of DriveSync is a step of Mirror, or a stutter.
LEMMA StepMirror ==
    ASSUME IInv, IInv', [Next]_vars
    PROVE  [M!Next]_(M!vars)
<1>1. CASE MirrorTree' = MirrorTree
    <2>1. CASE UNCHANGED <<change, placed>>
        BY <1>1, <2>1 DEF M!vars
    <2>2. CASE pc = "store" /\ change' = changeid /\ UNCHANGED placed
        <3>1. change = Empty /\ changeid \in Tokens \cup {Empty}
            BY <2>2 DEF IInv, ScanInv, TypeOK
        <3> QED BY <1>1, <2>2, <3>1 DEF M!vars, M!Next, M!Save
    <2>3. CASE UNCHANGED change /\ placed \subseteq placed'
        BY <1>1, <2>3 DEF M!Next, M!Claim, IInv, TypeOK
    <2> QED BY <2>1, <2>2, <2>3, NextTable
            DEF vars, tableVars, remoteVars, UpdateEntry, dbcache_update, dbcache_mkdir,
                dbcache_rmdir
<1>2. CASE /\ UpdateEntry /\ UNCHANGED <<change, placed>>
           /\ got.uuid \in Uuids \ {Root} /\ got.parent \in Uuids
           /\ got.parent \in DOMAIN MirrorTree \cup {Root}
           /\ <<got.uuid, got.parent>> \in placed'
           /\ MirrorTree' = Recorded(got.uuid, got.parent)
    <2>1. change = Empty
        BY <1>2 DEF IInv, ScanInv, UpdateEntry
    <2>2. M!Place(got.uuid, got.parent)
        BY <1>2, <2>1 DEF M!Place, Recorded
    <2> QED BY <1>2, <2>2 DEF M!Next
<1> QED BY <1>1, <1>2, StepTree

\* The Drive thread, dbcache and FUSE together implement the abstract mirror: a
\* file is recorded only where the Drive had it, below a folder on record, none
\* is lost, and nothing is recorded any more once a change token is stored.
THEOREM MirrorCorrect == Spec => MirrorSpec
<1>1. IInv /\ IInv' /\ [Next]_vars => [M!Next]_(M!vars)
    BY StepMirror
<1> QED BY <1>1, InitMirror, InvariantIInv, PTL DEF Spec, MirrorSpec, M!Spec

=============================================================================
