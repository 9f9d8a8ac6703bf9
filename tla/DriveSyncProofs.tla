-------------------------- MODULE DriveSyncProofs --------------------------
(***************************************************************************)
(* For every set of files, names, tokens and paths, every Drive it starts  *)
(* from and every bound: the types and the table invariants of DriveSync.  *)
(*                                                                         *)
(* IInv is inductive.  To what the runs check it adds what the table takes *)
(* from the thread and from the Drive: the answer a scan holds was true at *)
(* some time (AnswerOK), and so was every answer the stack of the thread   *)
(* may still hold (JrootOK), every file on the Drive is on record as       *)
(* having been where it is (RemoteInv), and during a scan no change token  *)
(* is stored yet (ScanInv).                                                *)
(***************************************************************************)
EXTENDS DriveSync, DbCacheProofs

-----------------------------------------------------------------------------
(* What dbcache_update, dbcache_mkdir and dbcache_rmdir do to a well-formed *)
(* table.                                                                   *)

\* An answer of the Drive: only the root's, or none at all, has no parent.
AnswerOK(f) ==
    /\ f \in Answers
    /\ f.parent = Empty => f.uuid \in {Empty, Root}
    /\ f.parent # Empty => /\ f.uuid \in Uuids \ {Root}
                           /\ f.name \in Names
                           /\ <<f.uuid, f.parent>> \in placed

TableOK == TableTypeOK /\ TableInv /\ PlacementOnceTrue /\ TombstonesAreFolders

\* The row found for a Drive file is its row, and that of the root is row 1.
LEMMA RowOfUuid ==
    ASSUME TableTypeOK, TableInv, NEW u \in Uuids, ByUuid(u) # {}
    PROVE  /\ First(ByUuid(u)) \in 1..Len(entries)
           /\ entries[First(ByUuid(u))].uuid = u
           /\ u = Root <=> First(ByUuid(u)) = 1
<1> DEFINE i == First(ByUuid(u))
<1>1. ByUuid(u) \in SUBSET Nat
    BY TableShape DEF ByUuid
<1>2. i \in ByUuid(u)
    BY <1>1, FirstIsMember
<1>3. i \in 1..Len(entries) /\ entries[i].uuid = u
    BY <1>2, TableShape DEF ByUuid
<1>4. CASE i = 1
    BY <1>3, <1>4, DbAssumption DEF TableInv, RootStays
<1>5. CASE i # 1
    <2>1. i \in 2..Len(entries)
        BY <1>3, <1>5, TableShape
    <2>2. u # Null
        BY DbAssumption
    <2> QED BY <1>3, <1>5, <2>1, <2>2 DEF TableInv, UuidsUnique
<1> QED BY <1>3, <1>4, <1>5

\* An answer without a parent cannot hurt more than the uuid of row 1.
LEMMA UpdateRootKeeps ==
    ASSUME TableOK, NEW f, AnswerOK(f), UpdateRoot(f), UNCHANGED <<change, placed>>
    PROVE  TableOK'
<1> DEFINE r == [uuid |-> f.uuid, name |-> RootName, type |-> Dir, sync |-> 0, parent |-> Null]
<1>1. 1 \in 1..Len(entries) /\ Len(entries) \in Nat
    BY TableShape, EmptySeq DEF TableOK, TableInv, RootStays, TableTypeOK
<1>2. f.uuid \in {Empty, Root} /\ r \in Row
    BY DbAssumption DEF AnswerOK, UpdateRoot, Row, Dir, File
<1>3. entries' = [entries EXCEPT ![1] = r]
    BY <1>1 DEF UpdateRoot, updbyid, TableOK, TableInv, RootStays
<1>4. /\ entries' \in Seq(Row)
      /\ Len(entries') = Len(entries)
      /\ \A j \in 1..Len(entries) : entries'[j] = IF j = 1 THEN r ELSE entries[j]
    BY <1>1, <1>2, <1>3, ReplaceRow DEF TableOK
<1>5. TableTypeOK'
    BY <1>4 DEF TableOK, TableTypeOK
<1>6. DOMAIN entries' = 1..Len(entries)
    BY <1>4, LenProperties
<1>7. RootStays'
    BY <1>1, <1>2, <1>4, <1>6 DEF RootStays
<1>8. ParentsKnown'
    BY <1>1, <1>4 DEF ParentsKnown, TableOK, TableInv
<1>9. UuidsUnique'
    BY <1>1, <1>4, <1>6, TableShape, DbAssumption
       DEF UuidsUnique, TableOK, TableInv, ByUuid, AnswerOK, UpdateRoot
<1>10. PlacementOnceTrue'
    BY <1>1, <1>4, TableShape DEF PlacementOnceTrue, ParentUuid, TableOK, TableInv, ParentsKnown
<1>11. TombstonesAreFolders'
    BY <1>1, <1>4, <1>6, TableShape DEF TombstonesAreFolders, TableOK
<1> QED BY <1>5, <1>7, <1>8, <1>9, <1>10, <1>11 DEF TableOK, TableInv

\* Moving the row of a known file, never the root's, to the row of a known folder.
LEMMA MoveEntryKeeps ==
    ASSUME TableOK, NEW f, AnswerOK(f), MoveEntry(f), UNCHANGED <<change, placed>>
    PROVE  TableOK'
<1> DEFINE i == First(ByUuid(f.uuid))
           q == First(ByUuid(f.parent))
           r == [uuid |-> f.uuid, name |-> entries[i].name, type |-> entries[i].type,
                 sync |-> entries[i].sync, parent |-> q]
<1>1. f.uuid \in Uuids \ {Root} /\ f.parent \in Uuids /\ <<f.uuid, f.parent>> \in placed
    BY DEF AnswerOK, MoveEntry, Answers
<1>2. i \in 2..Len(entries) /\ entries[i].uuid = f.uuid
    BY <1>1, RowOfUuid, TableShape DEF MoveEntry, TableOK
<1>3. q \in 1..Len(entries) /\ entries[q].uuid = f.parent /\ (f.parent = Root <=> q = 1)
    BY <1>1, RowOfUuid DEF MoveEntry, TableOK
<1>4. Len(entries) \in Nat /\ i \in 1..Len(entries)
    BY <1>2, TableShape DEF TableOK
<1>5. entries' = [entries EXCEPT ![i] = r]
    BY DEF MoveEntry, updbyid
<1>6. r \in Row
    BY <1>1, <1>3, <1>4, TableShape DEF Row, TableOK
<1>7. /\ entries' \in Seq(Row)
      /\ Len(entries') = Len(entries)
      /\ \A j \in 1..Len(entries) : entries'[j] = IF j = i THEN r ELSE entries[j]
    BY <1>4, <1>5, <1>6, ReplaceRow DEF TableOK
<1> HIDE DEF i, q
<1>8. \A j \in 1..Len(entries) : /\ entries'[j].uuid = entries[j].uuid
                                 /\ entries'[j].type = entries[j].type
                                 /\ entries'[j].sync = entries[j].sync
                                 /\ j # i => entries'[j] = entries[j]
    BY <1>2, <1>7
<1>9. DOMAIN entries' = 1..Len(entries) /\ DOMAIN entries = 1..Len(entries)
    BY <1>7, LenProperties, TableShape DEF TableOK
<1>10. TableTypeOK'
    BY <1>7 DEF TableOK, TableTypeOK
<1>11. RootStays'
    BY <1>2, <1>4, <1>8, <1>9 DEF RootStays, TableOK, TableInv
<1>12. ParentsKnown'
    <2> SUFFICES ASSUME NEW j \in 2..Len(entries)
                 PROVE  entries'[j].parent \in IF entries[j].uuid = Null THEN {0, 1}
                                               ELSE 1..Len(entries)
        BY <1>4, <1>7, <1>8, <1>9 DEF ParentsKnown
    <2>1. entries[i].uuid # Null /\ entries'[i].parent = q
        BY <1>1, <1>2, <1>4, <1>7, DbAssumption
    <2>2. CASE j = i
        BY <1>3, <2>1, <2>2
    <2>3. CASE j # i
        BY <1>4, <1>8, <1>9, <2>3 DEF ParentsKnown, TableOK, TableInv
    <2> QED BY <2>2, <2>3
<1>13. UuidsUnique'
    BY <1>4, <1>7, <1>8, <1>9 DEF UuidsUnique, TableOK, TableInv, ByUuid
<1>14. PlacementOnceTrue'
    <2> SUFFICES ASSUME NEW j \in 2..Len(entries), entries[j].uuid # Null
                 PROVE  <<entries[j].uuid, ParentUuid(j)'>> \in placed
        BY <1>4, <1>7, <1>8 DEF PlacementOnceTrue
    <2>1. CASE j = i
        BY <1>1, <1>2, <1>3, <1>4, <1>7, <1>8, <2>1 DEF ParentUuid
    <2>2. CASE j # i
        <3>1. entries'[j].parent = entries[j].parent /\ entries[j].parent \in 1..Len(entries)
            BY <1>4, <1>8, <2>2 DEF TableOK, TableInv, ParentsKnown
        <3>2. ParentUuid(j)' = ParentUuid(j)
            BY <1>8, <3>1 DEF ParentUuid
        <3> QED BY <3>2 DEF TableOK, PlacementOnceTrue
    <2> QED BY <2>1, <2>2
<1>15. TombstonesAreFolders'
    BY <1>8, <1>9 DEF TombstonesAreFolders, TableOK
<1> QED BY <1>10, <1>11, <1>12, <1>13, <1>14, <1>15 DEF TableOK, TableInv

\* A row added for a new Drive file below an existing row, or for a local directory at the top
\* or below the id 0 that dbcache_mkdir writes.
LEMMA AddRowKeeps ==
    ASSUME TableOK, NEW r \in Row, entries' = Append(entries, r), UNCHANGED placed,
           TableTypeOK',
           r.sync # -1,
           \/ r.uuid = Null /\ r.parent \in {0, 1}
           \/ /\ r.uuid \in Uuids \ {Root} /\ ByUuid(r.uuid) = {}
              /\ r.parent \in 1..Len(entries)
              /\ <<r.uuid, IF r.parent = 1 THEN Root ELSE entries[r.parent].uuid>> \in placed
    PROVE  TableOK'
<1> DEFINE n == Len(entries)
<1>1. /\ Len(entries') = n + 1
      /\ entries'[n + 1] = r
      /\ \A j \in 1..n : entries'[j] = entries[j]
    BY AddRow DEF TableOK
<1>2. n \in Nat /\ DOMAIN entries = 1..n /\ DOMAIN entries' = 1..(n + 1)
    BY <1>1, TableShape, LenProperties DEF TableOK, TableTypeOK
<1>3. 1 \in 1..n
    BY <1>2, EmptySeq DEF TableOK, TableInv, RootStays, TableTypeOK
<1> HIDE DEF n
<1>4. /\ \A j \in 1..(n + 1) : j \in 1..n \/ j = n + 1
      /\ \A j \in 2..(n + 1) : j \in 2..n \/ j = n + 1
    BY <1>2
<1>5. RootStays'
    BY <1>1, <1>2, <1>3 DEF RootStays, TableOK, TableInv
<1>6. ParentsKnown'
    <2> SUFFICES ASSUME NEW j \in 2..(n + 1)
                 PROVE  entries'[j].parent \in IF entries'[j].uuid = Null THEN {0, 1}
                                               ELSE 1..(n + 1)
        BY <1>1, <1>2 DEF ParentsKnown
    <2>1. CASE j = n + 1
        BY <1>1, <1>2, <2>1, DbAssumption DEF n
    <2>2. CASE j \in 2..n
        BY <1>1, <1>2, <2>2 DEF ParentsKnown, TableOK, TableInv, n
    <2> QED BY <1>4, <2>1, <2>2
<1>7. UuidsUnique'
    <2> SUFFICES ASSUME NEW j \in 2..(n + 1), entries'[j].uuid # Null
                 PROVE  /\ entries'[j].uuid \in Uuids \ {Root}
                        /\ \A k \in 1..(n + 1) : entries'[k].uuid = entries'[j].uuid => k = j
        <3>1. \A j \in 2..(n + 1) :
                 (\A k \in 1..(n + 1) : entries'[k].uuid = entries'[j].uuid => k = j)
                    => {k \in 1..(n + 1) : entries'[k].uuid = entries'[j].uuid} = {j}
            BY <1>2
        <3>2. \A u : ByUuid(u)' = {k \in 1..(n + 1) : entries'[k].uuid = u}
            BY <1>2 DEF ByUuid
        <3> QED BY <1>1, <3>1, <3>2 DEF UuidsUnique
    <2>1. CASE j = n + 1
        <3>1. \A k \in 1..n : entries'[k].uuid # r.uuid
            BY <1>1, <1>2, <2>1 DEF ByUuid
        <3> QED BY <1>1, <1>2, <2>1, <3>1
    <2>2. CASE j \in 2..n
        <3>1. entries'[j].uuid = entries[j].uuid
            BY <1>1, <1>2, <2>2
        <3>2. /\ entries[j].uuid \in Uuids \ {Root}
              /\ \A k \in 1..n : entries[k].uuid = entries[j].uuid => k = j
            BY <1>2, <2>2, <3>1 DEF TableOK, TableInv, UuidsUnique, ByUuid, n
        <3>3. r.uuid # entries[j].uuid
            BY <1>2, <2>2, <3>2, DbAssumption DEF ByUuid
        <3>4. ASSUME NEW k \in 1..(n + 1), entries'[k].uuid = entries'[j].uuid PROVE k = j
            <4>1. k # n + 1
                BY <1>1, <3>1, <3>3, <3>4
            <4>2. k \in 1..n
                BY <1>4, <4>1
            <4> QED BY <1>1, <3>1, <3>2, <3>4, <4>2
        <3> QED BY <3>1, <3>2, <3>4
    <2> QED BY <1>4, <2>1, <2>2
<1>8. PlacementOnceTrue'
    <2> SUFFICES ASSUME NEW j \in 2..(n + 1), entries'[j].uuid # Null
                 PROVE  <<entries'[j].uuid, ParentUuid(j)'>> \in placed
        BY <1>1 DEF PlacementOnceTrue
    <2>1. CASE j = n + 1
        BY <1>1, <1>2, <2>1 DEF ParentUuid, n
    <2>2. CASE j \in 2..n
        <3>1. entries'[j] = entries[j] /\ entries[j].parent \in 1..n
            BY <1>1, <1>2, <2>2 DEF TableOK, TableInv, ParentsKnown, n
        <3>2. ParentUuid(j)' = ParentUuid(j)
            BY <1>1, <3>1 DEF ParentUuid
        <3> QED BY <2>2, <3>1, <3>2 DEF TableOK, PlacementOnceTrue, n
    <2> QED BY <1>4, <2>1, <2>2
<1>9. TombstonesAreFolders'
    BY <1>1, <1>2 DEF TombstonesAreFolders, TableOK
<1> QED BY <1>5, <1>6, <1>7, <1>8, <1>9 DEF TableOK, TableInv

\* A new file goes below the row of its folder, under a uuid no row has.
LEMMA InsertEntryKeeps ==
    ASSUME TableOK, NEW f, AnswerOK(f), InsertEntry(f), UNCHANGED <<change, placed>>
    PROVE  TableOK'
<1> DEFINE q == First(ByUuid(f.parent))
<1>1. f.uuid \in Uuids \ {Root} /\ f.parent \in Uuids /\ <<f.uuid, f.parent>> \in placed
    BY DEF AnswerOK, InsertEntry, Answers
<1>2. q \in 1..Len(entries) /\ entries[q].uuid = f.parent /\ (f.parent = Root <=> q = 1)
    BY <1>1, RowOfUuid DEF InsertEntry, TableOK
<1>3. Len(entries) \in Nat
    BY TableShape DEF TableOK
<1>4. f.name \in Names
    BY DEF AnswerOK, InsertEntry
<1>5. NewRow(f, q) \in Row
    BY <1>1, <1>2, <1>3, <1>4 DEF NewRow, Row, Dir, File
<1>6. entries' = Append(entries, NewRow(f, q))
    BY DEF InsertEntry
<1>7. TableTypeOK'
    BY <1>5, <1>6, AddRow DEF TableOK, TableTypeOK
<1> DEFINE r == NewRow(f, q)
<1>8. r.uuid = f.uuid /\ r.parent = q /\ r.sync = 1
    BY DEF NewRow
<1>9. ByUuid(f.uuid) = {}
    BY DEF InsertEntry
<1>10. r \in Row /\ entries' = Append(entries, r)
    BY <1>5, <1>6
<1> HIDE DEF q, r
<1>11. r.parent \in 1..Len(entries) /\ r.sync # -1
    BY <1>2, <1>3, <1>8
<1>12. <<r.uuid, IF r.parent = 1 THEN Root ELSE entries[r.parent].uuid>> \in placed
    BY <1>1, <1>2, <1>8
<1>13. r.uuid \in Uuids \ {Root} /\ ByUuid(r.uuid) = {}
    BY <1>1, <1>8, <1>9
<1> QED BY <1>7, <1>10, <1>11, <1>12, <1>13, AddRowKeeps

\* The whole of dbcache_update.
LEMMA UpdateKeeps ==
    ASSUME TableOK, NEW f, AnswerOK(f), dbcache_update(f), UNCHANGED placed
    PROVE  TableOK'
<1>1. UNCHANGED change
    BY DEF dbcache_update
<1>2. CASE UpdateRoot(f)
    BY <1>1, <1>2, UpdateRootKeeps
<1>3. CASE MoveEntry(f)
    BY <1>1, <1>3, MoveEntryKeeps
<1>4. CASE InsertEntry(f)
    BY <1>1, <1>4, InsertEntryKeeps
<1>5. CASE RejectOrphan(f)
    BY <1>1, <1>5 DEF RejectOrphan, TableOK, TableTypeOK, TableInv, RootStays, ParentsKnown,
                      UuidsUnique, ByUuid, PlacementOnceTrue, ParentUuid, TombstonesAreFolders
<1> QED BY <1>2, <1>3, <1>4, <1>5 DEF dbcache_update

\* Nothing but the set of the placements that were ever true changes, and that grows.
LEMMA PlacedGrows ==
    ASSUME TableOK, UNCHANGED entries, change' \in Tokens \cup {Empty}, placed \subseteq placed'
    PROVE  TableOK'
BY DEF TableOK, TableTypeOK, TableInv, RootStays, ParentsKnown, UuidsUnique, ByUuid,
       PlacementOnceTrue, ParentUuid, TombstonesAreFolders

\* The first component of a path is a name.
LEMMA PathName ==
    ASSUME NEW path \in Paths
    PROVE  path[1] \in Names
<1>1. path \in Seq(Names) /\ path # <<>>
    BY DriveAssumption
<1> QED BY <1>1, EmptySeq, ElementOfSeq

\* A local directory has no uuid, so the Drive's rows are as before.
LEMMA MkdirKeeps ==
    ASSUME TableOK, NEW path \in Paths, dbcache_mkdir(path), UNCHANGED placed
    PROVE  TableOK'
<1> DEFINE r == LocalRow(path[1], ParentReached(path))
<1>1. CASE WalkFails(path)
    BY <1>1, PlacedGrows DEF dbcache_mkdir, TableOK, TableTypeOK
<1>2. CASE ~WalkFails(path)
    <2>1. r \in Row
        BY PathName DEF LocalRow, ParentReached, Row, Dir, File
    <2>2. entries' = Append(entries, r) /\ UNCHANGED change
        BY <1>2 DEF dbcache_mkdir
    <2>3. Len(entries) \in Nat \ {0}
        BY EmptySeq DEF TableOK, TableTypeOK, TableInv, RootStays
    <2>4. r.parent \in {0, 1} /\ r.sync # -1 /\ r.uuid = Null
        BY DEF LocalRow, ParentReached
    <2>5. TableTypeOK'
        BY <2>1, <2>2, AddRow DEF TableOK, TableTypeOK
    <2> HIDE DEF r
    <2> QED BY <2>1, <2>2, <2>4, <2>5, AddRowKeeps
<1> QED BY <1>1, <1>2

\* Setting sync to -1 in a directory found by name below a parent, so not in row 1.
LEMMA RmdirKeeps ==
    ASSUME TableOK, NEW path \in Paths, dbcache_rmdir(path), UNCHANGED placed
    PROVE  TableOK'
<1> DEFINE id == First(RmdirMatches(path))
<1>1. CASE UNCHANGED entries
    BY <1>1, PlacedGrows DEF dbcache_rmdir, TableOK, TableTypeOK
<1>2. CASE RmdirMatches(path) # {} /\ entries[id].type = Dir
    <2>1. RmdirMatches(path) \in SUBSET Nat
        BY TableShape DEF RmdirMatches, ByNamePar, TableOK
    <2>2. id \in RmdirMatches(path)
        BY <1>2, <2>1, FirstIsMember
    <2>3. id \in 1..Len(entries) /\ entries[id].name = path[1]
        BY <2>2, TableShape DEF RmdirMatches, ByNamePar, TableOK
    <2>4. id # 1
        BY <2>3, PathName, DbAssumption DEF TableOK, TableInv, RootStays
    <2> HIDE DEF id
    <2> DEFINE r == [entries[id] EXCEPT !.sync = -1]
    <2>5. entries[id] \in Row
        BY <2>3, TableShape DEF TableOK
    <2>6. /\ r \in Row
          /\ r.uuid = entries[id].uuid /\ r.parent = entries[id].parent
          /\ r.type = entries[id].type
        BY <2>5 DEF Row
    <2>7. entries' = [entries EXCEPT ![id] = r]
        BY <1>2, <2>2 DEF dbcache_rmdir, id
    <2> HIDE DEF r
    <2>8. /\ entries' \in Seq(Row)
          /\ Len(entries') = Len(entries)
          /\ \A j \in 1..Len(entries) : entries'[j] = IF j = id THEN r ELSE entries[j]
        BY <2>3, <2>6, <2>7, ReplaceRow DEF TableOK
    <2>9. /\ Len(entries) \in Nat
          /\ DOMAIN entries' = 1..Len(entries) /\ DOMAIN entries = 1..Len(entries)
        BY <2>8, LenProperties, TableShape DEF TableOK
    <2>10. \A j \in 1..Len(entries) : /\ entries'[j].uuid = entries[j].uuid
                                      /\ entries'[j].parent = entries[j].parent
        BY <2>6, <2>8
    <2>11. TableTypeOK'
        BY <2>8 DEF TableOK, TableTypeOK, dbcache_rmdir
    <2>12. RootStays'
        BY <2>3, <2>4, <2>8, <2>9 DEF RootStays, TableOK, TableInv
    <2>13. ParentsKnown'
        BY <2>8, <2>9, <2>10 DEF ParentsKnown, TableOK, TableInv
    <2>14. UuidsUnique'
        BY <2>8, <2>9, <2>10 DEF UuidsUnique, TableOK, TableInv, ByUuid
    <2>15. PlacementOnceTrue'
        BY <2>8, <2>9, <2>10
           DEF PlacementOnceTrue, ParentUuid, TableOK, TableInv, ParentsKnown
    <2>16. TombstonesAreFolders'
        BY <1>2, <2>4, <2>6, <2>8, <2>9 DEF TombstonesAreFolders, TableOK, id
    <2> QED BY <2>11, <2>12, <2>13, <2>14, <2>15, <2>16 DEF TableOK, TableInv
<1> QED BY <1>1, <1>2 DEF dbcache_rmdir

-----------------------------------------------------------------------------
(* The inductive invariant                                                 *)

\* Every file but the root has a parent, and the history knows it.
RemoteInv ==
    \A u \in DOMAIN remote :
        /\ u = Root => remote[u].parent = Empty
        /\ u # Root => /\ remote[u].parent \in Uuids
                       /\ remote[u].name \in Names
                       /\ <<u, remote[u].parent>> \in placed

\* A scan only runs while no change token is stored.
ScanInv == pc \in {"token", "details", "update", "list", "next", "store"} => change = Empty

\* What an answer left behind in jroot was true once.
TrueAnswers == {f \in Answers : AnswerOK(f)}

JrootOK == jroot \in Seq(TrueAnswers)

IInv == TypeOK /\ TableOK /\ RemoteInv /\ AnswerOK(got) /\ JrootOK /\ ScanInv

\* An error is taken for an answer about the root.
LEMMA NoAnswerOK == AnswerOK(EmptyAnswer)
BY DbAssumption DEF AnswerOK, EmptyAnswer, Answers

LEMMA InitIInv == Init => IInv
<1> SUFFICES ASSUME Init PROVE IInv
    OBVIOUS
<1>1. IsDrive(remote)
    BY DriveAssumption DEF Init
<1>2. RootRow \in Row
    BY DEF RootRow, Row, Dir
<1>3. /\ entries = <<RootRow>> /\ entries \in Seq(Row) /\ Len(entries) = 1
      /\ DOMAIN entries = {1} /\ entries[1] = RootRow
    BY <1>2 DEF Init, TableInit
<1>4. TableOK
    BY <1>3 DEF TableOK, TableTypeOK, Init, TableInit, TableInv, RootStays, ParentsKnown,
                UuidsUnique, PlacementOnceTrue, TombstonesAreFolders, RootRow
<1>5. RemoteInv /\ placed \subseteq Uuids \X Uuids
    BY <1>1, DbAssumption DEF RemoteInv, Init, IsDrive, Placements
<1>6. TypeOK
    BY <1>1, <1>4, <1>5, NoAnswerOK, DbAssumption
       DEF TypeOK, Init, PCs, TableOK, AnswerOK, IsDrive
<1>7. JrootOK
    BY EmptySeq DEF JrootOK, Init
<1> QED BY <1>4, <1>5, <1>6, <1>7, NoAnswerOK DEF IInv, ScanInv, Init, TableInit

\* What each step does to the table and to the history of placements.
LEMMA NextTable ==
    ASSUME Next
    PROVE  \/ UNCHANGED <<entries, change, placed>>
           \/ pc = "store" /\ change' = changeid /\ UNCHANGED <<entries, placed>>
           \/ UpdateEntry /\ got.kind # "native"
           \/ \E path \in Paths : (dbcache_mkdir(path) \/ dbcache_rmdir(path)) /\ UNCHANGED placed
           \/ UNCHANGED <<entries, change>> /\ placed \subseteq placed'
<1>1. CASE DriveStep
    BY <1>1 DEF DriveStep, LoadChange, GetStartToken, StoreChange, GetChanges, Goto, IdleAgain,
                IdleExpired, Exit, QueryDetails, UpdateEntry, ListFolder, Descend, Return,
                ScanDone, tableVars, remoteVars, dbcache_change_store
<1>2. CASE RemoteStep
    BY <1>2 DEF RemoteStep, RemoteMove, RemoteRename, RemoteRemove, Edit, tableVars
<1>3. CASE FuseStep
    BY <1>3 DEF FuseStep, FuseMkdir, FuseRmdir, remoteVars
<1>4. CASE Stop \/ Restart \/ Crash
    BY <1>4 DEF Stop, Restart, Crash, Start, tableVars, remoteVars
<1> QED BY <1>1, <1>2, <1>3, <1>4 DEF Next

LEMMA StepTable ==
    ASSUME IInv, [Next]_vars
    PROVE  TableOK'
<1>1. CASE UNCHANGED <<entries, change, placed>>
    BY <1>1, PlacedGrows DEF IInv, TableOK, TableTypeOK
<1>2. CASE pc = "store" /\ change' = changeid /\ UNCHANGED <<entries, placed>>
    BY <1>2, PlacedGrows DEF IInv, TypeOK
<1>3. CASE UpdateEntry /\ got.kind # "native"
    BY <1>3, UpdateKeeps DEF IInv, UpdateEntry, remoteVars
<1>4. CASE \E path \in Paths : (dbcache_mkdir(path) \/ dbcache_rmdir(path)) /\ UNCHANGED placed
    BY <1>4, MkdirKeeps, RmdirKeeps DEF IInv
<1>5. CASE UNCHANGED <<entries, change>> /\ placed \subseteq placed'
    BY <1>5, PlacedGrows DEF IInv, TableOK, TableTypeOK
<1> QED BY <1>1, <1>2, <1>3, <1>4, <1>5, NextTable DEF vars, tableVars, remoteVars

\* The Drive stays a tree of typed files, and the history covers it.
LEMMA StepRemote ==
    ASSUME IInv, [Next]_vars
    PROVE  /\ DOMAIN remote' \subseteq Uuids
           /\ remote' \in [DOMAIN remote' -> RemoteFile]
           /\ placed \subseteq placed' /\ placed' \subseteq Uuids \X Uuids
           /\ RemoteInv'
<1>1. CASE UNCHANGED <<remote, placed>>
    BY <1>1 DEF IInv, TypeOK, RemoteInv
<1>2. CASE RemoteStep
    <2> SUFFICES ASSUME NEW r,
                        /\ DOMAIN r \subseteq Uuids
                        /\ r \in [DOMAIN r -> RemoteFile]
                        /\ \A u \in DOMAIN r :
                              /\ u = Root => r[u].parent = Empty
                              /\ u # Root => r[u].parent \in Uuids /\ r[u].name \in Names,
                        remote' = r, placed' = placed \cup Placements(r)
                 PROVE  /\ placed' \subseteq Uuids \X Uuids
                        /\ RemoteInv'
        <3>1. PICK u \in DOMAIN remote \ {Root} :
                    \/ \E p \in Uuids : RemoteMove(u, p)
                    \/ \E n \in Names : RemoteRename(u, n)
                    \/ RemoteRemove(u)
            BY <1>2 DEF RemoteStep
        <3>2. /\ DOMAIN remote \subseteq Uuids
              /\ remote \in [DOMAIN remote -> RemoteFile]
              /\ \A v \in DOMAIN remote :
                    /\ v = Root => remote[v].parent = Empty
                    /\ v # Root => remote[v].parent \in Uuids /\ remote[v].name \in Names
            BY DEF IInv, TypeOK, RemoteInv
        <3>3. CASE \E p \in Uuids : RemoteMove(u, p)
            <4>1. PICK p \in Uuids : RemoteMove(u, p)
                BY <3>3
            <4> DEFINE r == [remote EXCEPT ![u].parent = p]
            <4>2. remote' = r /\ placed' = placed \cup Placements(r)
                BY <4>1 DEF RemoteMove, Edit
            <4>3. /\ DOMAIN r \subseteq Uuids
                  /\ r \in [DOMAIN r -> RemoteFile]
                  /\ \A v \in DOMAIN r :
                        /\ v = Root => r[v].parent = Empty
                        /\ v # Root => r[v].parent \in Uuids /\ r[v].name \in Names
                BY <3>1, <3>2 DEF RemoteFile
            <4> QED BY <4>2, <4>3
        <3>4. CASE \E n \in Names : RemoteRename(u, n)
            <4>1. PICK n \in Names : RemoteRename(u, n)
                BY <3>4
            <4> DEFINE r == [remote EXCEPT ![u].name = n]
            <4>2. remote' = r /\ placed' = placed \cup Placements(r)
                BY <4>1 DEF RemoteRename, Edit
            <4>3. /\ DOMAIN r \subseteq Uuids
                  /\ r \in [DOMAIN r -> RemoteFile]
                  /\ \A v \in DOMAIN r :
                        /\ v = Root => r[v].parent = Empty
                        /\ v # Root => r[v].parent \in Uuids /\ r[v].name \in Names
                BY <3>1, <3>2 DEF RemoteFile
            <4> QED BY <4>2, <4>3
        <3>5. CASE RemoteRemove(u)
            <4> DEFINE r == [v \in DOMAIN remote \ {u} |-> remote[v]]
            <4>1. remote' = r /\ placed' = placed \cup Placements(r)
                BY <3>5 DEF RemoteRemove, Edit
            <4>2. /\ DOMAIN r \subseteq Uuids
                  /\ r \in [DOMAIN r -> RemoteFile]
                  /\ \A v \in DOMAIN r :
                        /\ v = Root => r[v].parent = Empty
                        /\ v # Root => r[v].parent \in Uuids /\ r[v].name \in Names
                BY <3>2
            <4> QED BY <4>1, <4>2
        <3> QED BY <3>1, <3>3, <3>4, <3>5
    <2>1. placed \subseteq Uuids \X Uuids
        BY DEF IInv, TypeOK
    <2>2. Placements(r) \subseteq Uuids \X Uuids
        BY DEF Placements
    <2>3. \A u \in DOMAIN r : u # Root => <<u, r[u].parent>> \in Placements(r)
        BY DEF Placements
    <2> QED BY <2>1, <2>2, <2>3 DEF RemoteInv
<1>3. CASE ~RemoteStep /\ Next
    BY <1>1, <1>3 DEF Next, DriveStep, LoadChange, GetStartToken, StoreChange, GetChanges, Goto,
                IdleAgain, IdleExpired, Exit, QueryDetails, UpdateEntry, ListFolder, Descend,
                Return, ScanDone, FuseStep, FuseMkdir, FuseRmdir, Stop, Restart, Crash, Start,
                remoteVars
<1> QED BY <1>1, <1>2, <1>3 DEF vars, remoteVars

\* What the Drive answers about a file was true when it answered.
LEMMA StepGot ==
    ASSUME IInv, [Next]_vars
    PROVE  AnswerOK(got)'
<1>1. placed \subseteq placed'
    BY StepRemote
<1>2. ASSUME got' \in {got, EmptyAnswer} PROVE AnswerOK(got)'
    BY <1>1, <1>2, NoAnswerOK DEF IInv, AnswerOK
<1>3. CASE QueryDetails
    <2>1. CASE got' = Answer(alias) /\ alias \in DOMAIN remote
        <3>1. remote[alias] \in RemoteFile /\ alias \in Uuids
            BY <2>1 DEF IInv, TypeOK
        <3>2. Answer(alias) \in Answers
            BY <2>1, <3>1 DEF Answer, Answers, RemoteFile, Kinds
        <3>3. AnswerOK(Answer(alias))
            BY <2>1, <3>1, <3>2, DbAssumption DEF Answer, AnswerOK, IInv, RemoteInv
        <3> QED BY <1>1, <2>1, <3>3 DEF AnswerOK
    <2>2. CASE got' = StaleAnswer
        <3>1. CASE Depth \in DOMAIN jroot
            <4>1. jroot[Depth] \in TrueAnswers
                BY <3>1, LenProperties, ElementOfSeq DEF IInv, JrootOK
            <4> QED BY <2>2, <3>1, <4>1, <1>1 DEF StaleAnswer, TrueAnswers, AnswerOK
        <3>2. CASE Depth \notin DOMAIN jroot
            BY <1>2, <2>2, <3>2 DEF StaleAnswer
        <3> QED BY <3>1, <3>2
    <2> QED BY <1>2, <1>3, <2>1, <2>2 DEF QueryDetails, Answer
<1>4. CASE ~QueryDetails /\ [Next]_vars
    BY <1>2, <1>4 DEF Next, DriveStep, LoadChange, GetStartToken, StoreChange, GetChanges, Goto,
                IdleAgain, IdleExpired, Exit, UpdateEntry, ListFolder, Descend, Return, ScanDone,
                FuseStep, FuseMkdir, FuseRmdir, RemoteStep, RemoteMove, RemoteRename,
                RemoteRemove, Edit, Stop, Restart, Crash, Start, driveVars, vars
<1> QED BY <1>3, <1>4

\* A request leaves in jroot the answer it got, or an empty one.
LEMMA JrootStep ==
    ASSUME [Next]_vars, NEW S, jroot \in Seq(S), EmptyAnswer \in S, QueryDetails => got' \in S
    PROVE  jroot' \in Seq(S)
<1>1. ASSUME NEW a \in S, NEW d, jroot' = [jroot EXCEPT ![d] = a]
      PROVE  jroot' \in Seq(S)
    <2>1. CASE d \in 1..Len(jroot)
        BY <1>1, <2>1, ExceptSeq
    <2>2. CASE d \notin 1..Len(jroot)
        <3>1. jroot' = jroot
            BY <1>1, <2>2, LenProperties
        <3> QED BY <3>1
    <2> QED BY <2>1, <2>2
<1>2. CASE QueryDetails
    <2>1. PICK a \in {got', StaleAnswer} : Leave(a)
        BY <1>2 DEF QueryDetails
    <2>2. a \in S
        BY <1>2, LenProperties, ElementOfSeq DEF StaleAnswer
    <2>3. CASE jroot' = [jroot EXCEPT ![Depth] = a]
        BY <1>1, <2>2, <2>3
    <2>4. CASE jroot' = Append(jroot, a)
        BY <2>2, <2>4
    <2> QED BY <2>1, <2>3, <2>4 DEF Leave
<1>3. CASE ListFolder
    <2>1. CASE jroot' = [jroot EXCEPT ![Depth] = EmptyAnswer]
        BY <1>1, <2>1
    <2> QED BY <1>3, <2>1 DEF ListFolder, Listed
<1>4. CASE Restart \/ Crash
    BY <1>4, EmptySeq DEF Restart, Crash, Start
<1>5. CASE UNCHANGED jroot
    BY <1>5
<1> QED
    BY <1>2, <1>3, <1>4, <1>5
       DEF Next, DriveStep, LoadChange, GetStartToken, StoreChange, GetChanges, Goto, IdleAgain,
           IdleExpired, Exit, UpdateEntry, Descend, Return, ScanDone, FuseStep, FuseMkdir,
           FuseRmdir, RemoteStep, RemoteMove, RemoteRename, RemoteRemove, Edit, Stop, driveVars,
           vars

\* So every answer in jroot was true at some time.
LEMMA StepJroot ==
    ASSUME IInv, [Next]_vars
    PROVE  jroot' \in Seq(Answers) /\ JrootOK'
<1>1. TrueAnswers \subseteq TrueAnswers' /\ TrueAnswers' \subseteq Answers
    BY StepRemote DEF TrueAnswers, AnswerOK, Answers
<1>2. EmptyAnswer \in TrueAnswers' /\ got' \in TrueAnswers'
    BY <1>1, NoAnswerOK, StepGot DEF TrueAnswers, AnswerOK
<1>3. jroot \in Seq(TrueAnswers')
    BY <1>1, SeqMonotonic DEF IInv, JrootOK
<1>4. jroot' \in Seq(TrueAnswers')
    BY <1>2, <1>3, JrootStep
<1> QED BY <1>1, <1>4, SeqMonotonic DEF JrootOK

LEMMA StepScan ==
    ASSUME IInv, [Next]_vars
    PROVE  ScanInv'
<1>1. CASE DriveStep
    BY <1>1 DEF IInv, ScanInv, DriveStep, LoadChange, GetStartToken, StoreChange, GetChanges, Goto,
                IdleAgain, IdleExpired, Exit, QueryDetails, UpdateEntry, ListFolder, Descend,
                Return, ScanDone, tableVars, dbcache_update
<1>2. CASE RemoteStep \/ FuseStep \/ Stop \/ Restart \/ Crash \/ UNCHANGED vars
    BY <1>2 DEF IInv, ScanInv, FuseStep, FuseMkdir, FuseRmdir, dbcache_mkdir, dbcache_rmdir,
                RemoteStep, RemoteMove, RemoteRename, RemoteRemove, Edit, Stop, Restart, Crash,
                Start, tableVars, driveVars, vars
<1> QED BY <1>1, <1>2 DEF Next

LEMMA StepStack ==
    ASSUME IInv, [Next]_vars
    PROVE  stack' \in Seq(SUBSET Uuids)
<1>1. stack \in Seq(SUBSET Uuids)
    BY DEF IInv, TypeOK
<1>2. CASE ListFolder
    <2>1. \A c : c \in SUBSET Uuids => Append(stack, c) \in Seq(SUBSET Uuids)
        BY <1>1
    <2>2. Children(remote, got.uuid) \in SUBSET Uuids
        BY DEF Children, IInv, TypeOK
    <2> QED BY <1>2, <2>1, <2>2 DEF ListFolder, Listed
<1>3. CASE Descend
    <2>1. PICK c \in Top : stack' = [stack EXCEPT ![Len(stack)] = @ \ {c}]
        BY <1>3 DEF Descend
    <2>2. Len(stack) \in 1..Len(stack)
        BY <1>1, <1>3, EmptySeq DEF Descend
    <2>3. stack[Len(stack)] \ {c} \in SUBSET Uuids
        BY <1>1, <2>2, ElementOfSeq
    <2> QED BY <1>1, <2>1, <2>2, <2>3, ExceptSeq
<1>4. CASE Return
    <2>1. Len(stack) \in Nat /\ \A i \in 1..(Len(stack) - 1) : stack[i] \in SUBSET Uuids
        BY <1>1, LenProperties, ElementOfSeq
    <2> QED BY <1>4, <2>1, SubSeqProperties DEF Return
<1>5. CASE Restart \/ Crash
    BY <1>5, EmptySeq DEF Restart, Crash, Start
<1>6. CASE UNCHANGED stack
    BY <1>1, <1>6
<1> QED
    BY <1>2, <1>3, <1>4, <1>5, <1>6
       DEF Next, DriveStep, LoadChange, GetStartToken, StoreChange, GetChanges, Goto, IdleAgain,
           IdleExpired, Exit, QueryDetails, UpdateEntry, ScanDone, FuseStep, FuseMkdir, FuseRmdir,
           RemoteStep, RemoteMove, RemoteRename, RemoteRemove, Edit, Stop, driveVars, vars

LEMMA StepType ==
    ASSUME IInv, [Next]_vars
    PROVE  TypeOK'
<1>1. TableTypeOK'
    BY StepTable DEF TableOK
<1>2. got' \in Answers
    BY StepGot DEF AnswerOK
<1>3. /\ pc' \in PCs
      /\ alias' \in Uuids
      /\ changeid' \in Tokens \cup {Empty}
      /\ keep_running' \in BOOLEAN
      /\ lost' \subseteq {"edit", "failure", "page"}
      /\ {edits, failures, crashes}' \subseteq Nat
    <2> USE DEF IInv, TypeOK, PCs
    <2>1. CASE LoadChange \/ StoreChange \/ GetChanges \/ IdleAgain \/ IdleExpired \/ Exit
                 \/ UpdateEntry \/ Return \/ ScanDone
        BY <2>1 DEF LoadChange, StoreChange, GetChanges, Goto, IdleAgain, IdleExpired, Exit,
                    UpdateEntry, Return, ScanDone, remoteVars, TableTypeOK
    <2>2. CASE GetStartToken \/ QueryDetails \/ ListFolder
        BY <2>2, DbAssumption DEF GetStartToken, QueryDetails, ListFolder, Fail, NoFail, remoteVars
    <2>3. CASE Descend
        <3>1. stack \in Seq(SUBSET Uuids) /\ Len(stack) \in 1..Len(stack)
            BY <2>3, EmptySeq DEF Descend
        <3>2. Top \subseteq Uuids
            BY <3>1, ElementOfSeq DEF Top
        <3> QED BY <2>3, <3>2 DEF Descend, remoteVars
    <2>4. CASE RemoteStep
        <3>1. /\ edits' = edits + 1 /\ lost' = lost \cup {"edit"}
              /\ UNCHANGED <<pc, alias, changeid, keep_running, failures, crashes>>
            BY <2>4 DEF RemoteStep, RemoteMove, RemoteRename, RemoteRemove, Edit, driveVars
        <3> QED BY <3>1
    <2>5. CASE FuseStep
        BY <2>5 DEF FuseStep, FuseMkdir, FuseRmdir, driveVars, remoteVars
    <2>6. CASE Stop \/ UNCHANGED vars
        BY <2>6 DEF Stop, driveVars, remoteVars, vars
    <2>7. CASE Restart \/ Crash
        <3>1. /\ pc' = "outer" /\ alias' = Root /\ changeid' = Empty /\ keep_running' = TRUE
              /\ UNCHANGED <<edits, failures, lost>>
              /\ crashes' \in {crashes, crashes + 1}
            BY <2>7 DEF Restart, Crash, Start, remoteVars
        <3> QED BY <3>1, DbAssumption
    <2> QED BY <2>1, <2>2, <2>3, <2>4, <2>5, <2>6, <2>7 DEF Next, DriveStep
<1> QED BY <1>1, <1>2, <1>3, StepRemote, StepStack, StepJroot DEF TypeOK

LEMMA StepIInv == IInv /\ [Next]_vars => IInv'
BY StepType, StepTable, StepRemote, StepGot, StepJroot, StepScan DEF IInv

LEMMA InvariantIInv == Spec => []IInv
BY InitIInv, StepIInv, PTL DEF Spec

-----------------------------------------------------------------------------
(* Theorems                                                                *)

\* The table, the answers in hand and left behind, the stack of folders and the
\* tokens always have the shape the code relies on, whatever the Drive holds and does.
THEOREM TypeCorrect == Spec => []TypeOK
<1>1. IInv => TypeOK
    BY DEF IInv
<1> QED BY <1>1, InvariantIInv, PTL

\* dfs_entry keeps one root row, a row for the parent of every Drive file it
\* holds and one row at most for each, through any number of scans, crashes,
\* mkdirs and rmdirs; a directory FUSE makes is filed under 1 or under 0, which
\* is no row (ForeignKey).
THEOREM TableCorrect == Spec => []TableInv
<1>1. IInv => TableInv
    BY DEF IInv, TableOK
<1> QED BY <1>1, InvariantIInv, PTL

\* dbcache_update never files a Drive file under a folder it was never in.
THEOREM PlacementCorrect == Spec => []PlacementOnceTrue
<1>1. IInv => PlacementOnceTrue
    BY DEF IInv, TableOK
<1> QED BY <1>1, InvariantIInv, PTL

\* What dbcache_rmdir marks is a directory other than the root.
THEOREM TombstonesCorrect == Spec => []TombstonesAreFolders
<1>1. IInv => TombstonesAreFolders
    BY DEF IInv, TableOK
<1> QED BY <1>1, InvariantIInv, PTL

=============================================================================
