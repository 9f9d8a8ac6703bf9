----------------------------- MODULE ScanProofs -----------------------------
(***************************************************************************)
(* Once a scan that missed nothing has been recorded, what FUSE finds in   *)
(* the table is the Drive: FuseSeesDrive.                                  *)
(*                                                                         *)
(* While such a scan runs, the files of the Drive fall into those it has   *)
(* recorded and those it has yet to visit; the children of the former are  *)
(* among the two (Seen).  When it ends nothing is left to visit, and since *)
(* no set of files is closed under "parent" all are recorded (Whole).  A   *)
(* path is then walked in the table row by row as on the Drive file by     *)
(* file, both walks being folds over its names.                            *)
(***************************************************************************)
EXTENDS MirrorProofs

\* The files on a stack, and those a scan has yet to put on record.
Members(s) == UNION {s[k] : k \in DOMAIN s}

Pending == Members(stack) \cup (IF pc \in {"details", "update"} THEN {alias} ELSE {})

\* A scan runs and has missed nothing yet.
Scanning == pc \in {"details", "update", "list", "next", "store"} /\ lost = {}

\* A file is in the table where it is on the Drive, unless it is native to Google Docs.
OnRecord(u) ==
    IF u = Root THEN entries[1].uuid = Root
    ELSE Mirrored(u) => u \in DOMAIN MirrorTree /\ MirrorTree[u] = remote[u].parent

\* V is what the scan has seen of the Drive.
Seen(V) ==
    /\ \A u \in V : OnRecord(u)
    /\ \A u \in DOMAIN remote \ {Root} :
          remote[u].parent \in V => u \in V \cup Pending \/ (pc = "list" /\ remote[u].parent = alias)
    /\ \A u \in Pending : u \in DOMAIN remote /\ (u # Root => remote[u].parent \in V)
    /\ Root \in V \cup Pending
    /\ pc = "list" => alias \in V
    /\ pc \in {"update", "list"} => got = Answer(alias)

\* Every file of the Drive is on record.
Whole == \A u \in DOMAIN remote : OnRecord(u)

\* The answers whose file, if it is still on the Drive, is of the kind they say.
KindKnown == {f \in Answers : f.uuid \in DOMAIN remote => f.kind = remote[f.uuid].kind}

\* The files native to Google Docs have no row, the others one of their type.
KindsTrue ==
    /\ \A i \in DriveRows :
          entries[i].uuid \in DOMAIN remote =>
              /\ Mirrored(entries[i].uuid)
              /\ entries[i].type = IF remote[entries[i].uuid].kind = "folder" THEN Dir ELSE File
    /\ got \in KindKnown
    /\ jroot \in Seq(KindKnown)

\* Outside recurse nothing is left on its stack.
StackEmpty == pc \notin {"details", "update", "list", "next"} => stack = <<>>

\* What the scan has not seen yet it will visit; a token is stored when it has seen all.
Covered == Scanning => \E V \in SUBSET DOMAIN remote : Seen(V)

Saved == change # Empty /\ lost = {} => Whole

SInv ==
    /\ IInv
    /\ IsDrive(remote)
    /\ KindsTrue
    /\ StackEmpty
    /\ Covered
    /\ Saved

-----------------------------------------------------------------------------
(* The Drive stays a tree, and no file changes its kind.                   *)

\* A step that changes the Drive, and one that does not.
LEMMA StepDrive ==
    ASSUME IInv, IsDrive(remote), [Next]_vars
    PROVE  /\ IsDrive(remote)'
           /\ DOMAIN remote' \subseteq DOMAIN remote
           /\ \A u \in DOMAIN remote' : remote'[u].kind = remote[u].kind
           /\ remote' = remote \/ (lost' # {} /\ RemoteStep)
<1>1. CASE RemoteStep
    <2>1. PICK u \in DOMAIN remote \ {Root} :
                \/ \E p \in Uuids : RemoteMove(u, p)
                \/ \E n \in Names : RemoteRename(u, n)
                \/ RemoteRemove(u)
        BY <1>1 DEF RemoteStep
    <2>2. lost' # {}
        BY <2>1 DEF RemoteMove, RemoteRename, RemoteRemove, Edit
    <2>3. remote \in [DOMAIN remote -> RemoteFile] /\ remote[u] \in RemoteFile
        BY <2>1 DEF IsDrive
    <2>4. CASE \E p \in Uuids : RemoteMove(u, p)
        <3>1. PICK p \in Uuids : RemoteMove(u, p)
            BY <2>4
        <3>2. remote' = [remote EXCEPT ![u].parent = p] /\ IsDrive(remote')
            BY <3>1 DEF RemoteMove, Edit
        <3> QED BY <1>1, <2>2, <2>3, <3>2 DEF RemoteFile
    <2>5. CASE \E n \in Names : RemoteRename(u, n)
        <3>1. PICK n \in Names : RemoteRename(u, n)
            BY <2>5
        <3> DEFINE f == [remote[u] EXCEPT !.name = n]
        <3>2. remote' = [remote EXCEPT ![u] = f]
            BY <3>1 DEF RemoteRename, Edit
        <3>3. /\ f \in RemoteFile
              /\ f.name = n /\ f.parent = remote[u].parent /\ f.kind = remote[u].kind
            BY <2>3 DEF RemoteFile
        <3> HIDE DEF f
        <3>4. /\ DOMAIN remote' = DOMAIN remote
              /\ remote' \in [DOMAIN remote -> RemoteFile]
              /\ remote'[Root] = remote[Root]
              /\ \A v \in DOMAIN remote : /\ remote'[v].parent = remote[v].parent
                                          /\ remote'[v].kind = remote[v].kind
                                          /\ remote'[v].name \in {remote[v].name, n}
            BY <2>1, <2>3, <3>2, <3>3 DEF IsDrive
        <3>5. IsDrive(remote')
            BY <3>4 DEF IsDrive
        <3> QED BY <1>1, <2>2, <3>4, <3>5
    <2>6. CASE RemoteRemove(u)
        <3>1. remote' = [v \in DOMAIN remote \ {u} |-> remote[v]] /\ Children(remote, u) = {}
            BY <2>6 DEF RemoteRemove, Edit
        <3>2. /\ DOMAIN remote' = DOMAIN remote \ {u}
              /\ \A v \in DOMAIN remote' : remote'[v] = remote[v]
              /\ \A v \in DOMAIN remote \ {Root} : remote[v].parent # u
            BY <3>1 DEF Children
        <3>3. IsDrive(remote')
            BY <2>1, <3>1, <3>2 DEF IsDrive
        <3> QED BY <1>1, <2>2, <3>2, <3>3
    <2> QED BY <2>1, <2>4, <2>5, <2>6
<1>2. CASE ~RemoteStep
    <2>1. remote' = remote
        BY <1>2 DEF Next, DriveStep, LoadChange, GetStartToken, StoreChange, GetChanges, Goto,
                    IdleAgain, IdleExpired, Exit, QueryDetails, UpdateEntry, ListFolder, Descend,
                    Return, ScanDone, FuseStep, FuseMkdir, FuseRmdir, Stop, Restart, Crash, Start,
                    remoteVars, vars
    <2> QED BY <2>1
<1> QED BY <1>1, <1>2

\* Every Drive row of the next state is one of this state, or holds the answer in hand.
LEMMA StepDriveRows ==
    ASSUME IInv, [Next]_vars, NEW i \in DriveRows'
    PROVE  \/ /\ i \in DriveRows
              /\ entries'[i].uuid = entries[i].uuid /\ entries'[i].type = entries[i].type
           \/ /\ got.kind # "native"
              /\ entries'[i].uuid = got.uuid
              /\ entries'[i].type = IF got.kind = "folder" THEN Dir ELSE File
<1>1. /\ Len(entries) \in Nat
      /\ i \in 2..Len(entries') /\ entries'[i].uuid # Null
      /\ \A j \in 1..Len(entries) : entries[j] \in Row
    BY TableShape DEF DriveRows, IInv, TableOK
<1>2. CASE SameRows
    BY <1>2 DEF SameRows, DriveRows
<1>3. CASE Marked
    <2>1. i \in 2..Len(entries) /\ i \in 1..Len(entries)
        BY <1>1, <1>3 DEF Marked
    <2>2. PICK s \in {-1, entries[i].sync} : entries'[i] = [entries[i] EXCEPT !.sync = s]
        BY <1>3, <2>1 DEF Marked
    <2>3. entries[i] \in Row
        BY <1>1, <2>1
    <2> QED BY <1>1, <2>1, <2>2, <2>3 DEF DriveRows, Row
<1>4. CASE \E u : RootRewritten(u)
    BY <1>1, <1>4 DEF RootRewritten, DriveRows
<1>5. CASE \E r \in Row : r.uuid = Null /\ Added(r)
    BY <1>1, <1>5 DEF Added, DriveRows
<1>6. CASE got.kind # "native" /\ Filed(got)
    <2>1. CASE \E q \in 1..Len(entries) : Added(NewRow(got, q))
        BY <1>1, <1>6, <2>1 DEF Added, DriveRows, NewRow
    <2>2. CASE \E k \in 2..Len(entries), q \in 1..Len(entries) : Moved(k, q)
        BY <1>1, <2>2 DEF Moved, DriveRows
    <2> QED BY <1>6, <2>1, <2>2 DEF Filed
<1> QED BY <1>2, <1>3, <1>4, <1>5, <1>6, StepShape

\* The answer in hand is kept, dropped, or replaced by one the Drive gives now or gave.
LEMMA StepAnswer ==
    ASSUME [Next]_vars
    PROVE  got' \in {got, EmptyAnswer, Answer(alias), StaleAnswer}
<1>1. CASE QueryDetails
    BY <1>1 DEF QueryDetails
<1>2. CASE ~QueryDetails
    BY <1>2 DEF Next, DriveStep, LoadChange, GetStartToken, StoreChange, GetChanges, Goto,
                IdleAgain, IdleExpired, Exit, UpdateEntry, ListFolder, Descend, Return, ScanDone,
                FuseStep, FuseMkdir, FuseRmdir, RemoteStep, RemoteMove, RemoteRename,
                RemoteRemove, Edit, Stop, Restart, Crash, Start, driveVars, vars
<1> QED BY <1>1, <1>2

LEMMA StepKinds ==
    ASSUME IInv, IsDrive(remote), KindsTrue, [Next]_vars
    PROVE  KindsTrue'
<1>1. /\ DOMAIN remote' \subseteq DOMAIN remote /\ DOMAIN remote \subseteq Uuids
      /\ \A u \in DOMAIN remote' : remote'[u].kind = remote[u].kind
    BY StepDrive DEF IsDrive
<1>2. ASSUME NEW i \in DriveRows', entries'[i].uuid \in DOMAIN remote'
      PROVE  /\ Mirrored(entries[i].uuid)'
             /\ entries'[i].type = IF remote'[entries'[i].uuid].kind = "folder" THEN Dir ELSE File
    <2>1. CASE /\ i \in DriveRows
               /\ entries'[i].uuid = entries[i].uuid /\ entries'[i].type = entries[i].type
        BY <1>1, <1>2, <2>1 DEF KindsTrue, Mirrored
    <2>2. CASE /\ got.kind # "native"
               /\ entries'[i].uuid = got.uuid
               /\ entries'[i].type = IF got.kind = "folder" THEN Dir ELSE File
        BY <1>1, <1>2, <2>2 DEF KindsTrue, KindKnown, Mirrored
    <2> QED BY <2>1, <2>2, StepDriveRows
<1>3. KindKnown \subseteq KindKnown'
    BY <1>1 DEF KindKnown
<1>4. EmptyAnswer \in KindKnown
    BY <1>1, NoAnswerOK, DbAssumption DEF EmptyAnswer, KindKnown, AnswerOK
<1>5. got' \in KindKnown'
    <2>1. CASE got' \in {got, EmptyAnswer}
        BY <1>3, <1>4, <2>1 DEF KindsTrue
    <2>2. CASE got' = Answer(alias)
        <3>1. got' \in Answers
            BY StepGot DEF AnswerOK
        <3>2. got'.uuid \in DOMAIN remote => got'.kind = remote[got'.uuid].kind
            BY <1>1, <2>2, DbAssumption DEF Answer, EmptyAnswer
        <3> QED BY <1>3, <3>1, <3>2 DEF KindKnown
    <2>3. CASE got' = StaleAnswer
        <3>1. Depth \in DOMAIN jroot => jroot[Depth] \in KindKnown
            BY LenProperties, ElementOfSeq DEF KindsTrue
        <3> QED BY <1>3, <1>4, <2>3, <3>1 DEF StaleAnswer
    <2> QED BY <2>1, <2>2, <2>3, StepAnswer
<1>6. jroot' \in Seq(KindKnown')
    <2>1. jroot \in Seq(KindKnown')
        BY <1>3, SeqMonotonic DEF KindsTrue
    <2> QED BY <1>3, <1>4, <1>5, <2>1, JrootStep
<1> QED BY <1>2, <1>5, <1>6 DEF KindsTrue

LEMMA StepStackEmpty ==
    ASSUME StackEmpty, [Next]_vars
    PROVE  StackEmpty'
<1>1. CASE DriveStep
    BY <1>1 DEF StackEmpty, DriveStep, LoadChange, GetStartToken, StoreChange, GetChanges, Goto,
                IdleAgain, IdleExpired, Exit, QueryDetails, UpdateEntry, ListFolder, Descend,
                Return, ScanDone
<1>2. CASE RemoteStep \/ FuseStep \/ Stop \/ Restart \/ Crash \/ UNCHANGED vars
    BY <1>2 DEF StackEmpty, FuseStep, FuseMkdir, FuseRmdir, RemoteStep, RemoteMove, RemoteRename,
                RemoteRemove, Edit, Stop, Restart, Crash, Start, driveVars, vars
<1> QED BY <1>1, <1>2 DEF Next

-----------------------------------------------------------------------------
(* The steps of a scan                                                     *)

\* Only recurse's call of dbcache_update touches the tree or the root's id.
LEMMA StepKept ==
    ASSUME IInv, IInv', [Next]_vars, ~UpdateEntry
    PROVE  MirrorTree' = MirrorTree /\ entries'[1].uuid = entries[1].uuid
<1>1. MirrorTree' = MirrorTree
    BY StepTree
<1>2. 1 \in 1..Len(entries) /\ entries[1] \in Row
    <2>1. Len(entries) \in Nat \ {0}
        BY EmptySeq DEF IInv, TableOK, TableTypeOK, TableInv, RootStays
    <2> QED BY <2>1, TableShape DEF IInv, TableOK
<1>3. CASE Marked
    <2>1. PICK s \in {-1, entries[1].sync} : entries'[1] = [entries[1] EXCEPT !.sync = s]
        BY <1>2, <1>3 DEF Marked
    <2> QED BY <1>1, <1>2, <2>1 DEF Row
<1>4. CASE SameRows \/ \E r \in Row : Added(r)
    BY <1>1, <1>2, <1>4 DEF SameRows, Added
<1> QED BY <1>3, <1>4, StepShape

\* What the scan has recorded stays on record while the table and the Drive are left alone.
LEMMA RecordKept ==
    ASSUME MirrorTree' = MirrorTree, entries'[1].uuid = entries[1].uuid, remote' = remote, NEW u
    PROVE  OnRecord(u)' <=> OnRecord(u)
BY DEF OnRecord, Mirrored

\* A listing is put on the stack.
LEMMA MembersPushed ==
    ASSUME NEW s \in Seq(SUBSET Uuids), NEW c
    PROVE  Members(Append(s, c)) = Members(s) \cup c
<1>1. /\ DOMAIN s = 1..Len(s) /\ Len(s) \in Nat
      /\ DOMAIN Append(s, c) = 1..(Len(s) + 1)
      /\ Append(s, c)[Len(s) + 1] = c
      /\ \A k \in 1..Len(s) : Append(s, c)[k] = s[k]
    OBVIOUS
<1> DEFINE t == Append(s, c)
<1> HIDE DEF t
<1>2. ASSUME NEW u PROVE u \in Members(t) <=> u \in Members(s) \cup c
    <2>1. \A k \in 1..(Len(s) + 1) : k \in 1..Len(s) \/ k = Len(s) + 1
        BY <1>1
    <2>2. Len(s) + 1 \in 1..(Len(s) + 1) /\ \A k \in 1..Len(s) : k \in 1..(Len(s) + 1)
        BY <1>1
    <2> QED BY <1>1, <2>1, <2>2 DEF t, Members
<1> QED BY <1>2 DEF t

\* A file is taken off the topmost listing.
LEMMA MembersTaken ==
    ASSUME NEW s \in Seq(SUBSET Uuids), s # <<>>, NEW c \in s[Len(s)]
    PROVE  Members(s) = Members([s EXCEPT ![Len(s)] = @ \ {c}]) \cup {c}
<1>1. DOMAIN s = 1..Len(s) /\ Len(s) \in 1..Len(s)
    BY EmptySeq
<1> DEFINE t == [s EXCEPT ![Len(s)] = @ \ {c}]
<1>2. DOMAIN t = 1..Len(s) /\ \A k \in 1..Len(s) : t[k] = IF k = Len(s) THEN s[k] \ {c} ELSE s[k]
    BY <1>1
<1> HIDE DEF t
<1>3. ASSUME NEW u PROVE u \in Members(s) <=> u \in Members(t) \cup {c}
    BY <1>1, <1>2 DEF Members
<1> QED BY <1>3 DEF t

\* The topmost listing is dropped when nothing is left of it.
LEMMA MembersPopped ==
    ASSUME NEW s \in Seq(SUBSET Uuids), s # <<>>, s[Len(s)] = {}
    PROVE  Members(SubSeq(s, 1, Len(s) - 1)) = Members(s)
<1>1. DOMAIN s = 1..Len(s) /\ Len(s) \in 1..Len(s) /\ Len(s) \in Nat
    BY EmptySeq, LenProperties
<1> DEFINE t == SubSeq(s, 1, Len(s) - 1)
<1>2. DOMAIN t = 1..(Len(s) - 1) /\ \A k \in 1..(Len(s) - 1) : t[k] = s[k]
    BY <1>1
<1> HIDE DEF t
<1>3. \A n \in Nat : \A k \in 1..n : k = n \/ k \in 1..(n - 1)
    OBVIOUS
<1>4. \A k \in 1..(Len(s) - 1) : k \in 1..Len(s)
    BY <1>1
<1>5. ASSUME NEW u PROVE u \in Members(s) <=> u \in Members(t)
    BY <1>1, <1>2, <1>3, <1>4 DEF Members
<1> QED BY <1>5 DEF t

\* A scan starts with the root.
LEMMA CoveredToken ==
    ASSUME SInv, GetStartToken, lost' = {}
    PROVE  Covered'
<1>1. stack' = <<>> /\ pc' = "details" /\ alias' = Root /\ remote' = remote
    BY DEF GetStartToken, SInv, StackEmpty, remoteVars
<1>2. Members(<<>>) = {}
    BY DEF Members
<1>3. Pending' = {Root}
    BY <1>1, <1>2 DEF Pending
<1>4. Root \in DOMAIN remote
    BY DEF SInv, IsDrive
<1>5. Seen({})'
    BY <1>1, <1>3, <1>4 DEF Seen
<1> QED BY <1>1, <1>5 DEF Covered

\* The file's details are true.
LEMMA CoveredDetails ==
    ASSUME SInv, IInv', [Next]_vars, QueryDetails, lost' = {}
    PROVE  Covered'
<1>1. /\ pc = "details" /\ pc' = "update" /\ lost = {}
      /\ got' = Answer(alias)
      /\ UNCHANGED <<remote, alias, stack>>
    BY DEF QueryDetails, Fail, NoFail, remoteVars
<1>2. PICK V \in SUBSET DOMAIN remote : Seen(V)
    BY <1>1 DEF SInv, Covered, Scanning
<1>3. Pending' = Pending
    BY <1>1 DEF Pending
<1>4. \A u \in V : OnRecord(u)'
    BY <1>1, <1>2, StepKept, RecordKept DEF SInv, Seen, UpdateEntry
<1>5. Answer(alias)' = Answer(alias)
    BY <1>1 DEF Answer
<1>6. Seen(V)'
    BY <1>1, <1>2, <1>3, <1>4, <1>5 DEF Seen
<1> QED BY <1>1, <1>6 DEF Covered

\* The parent of a file is a folder, and the root has none.
LEMMA DriveFacts ==
    ASSUME IsDrive(remote), NEW u \in DOMAIN remote
    PROVE  /\ u \in Uuids
           /\ Mirrored(Root) /\ remote[Root].parent = Empty /\ remote[Root].kind = "folder"
           /\ u # Root => /\ remote[u].parent \in DOMAIN remote
                          /\ remote[u].parent # Empty
                          /\ remote[remote[u].parent].kind = "folder"
                          /\ Mirrored(remote[u].parent)
BY DbAssumption DEF IsDrive, Mirrored

\* A file whose folder is on record is put on record below it.
LEMMA UpdatePlaces ==
    ASSUME SInv, IInv', [Next]_vars, UpdateEntry, NEW u \in DOMAIN remote, got = Answer(u),
           u # Root => OnRecord(remote[u].parent)
    PROVE  /\ OnRecord(u)'
           /\ \A v \in DOMAIN remote : OnRecord(v) => OnRecord(v)'
<1>1. /\ pc = "update" /\ UNCHANGED <<remote, placed>>
      /\ got.kind = "native" => UNCHANGED entries
      /\ got.kind # "native" => dbcache_update(got)
    BY DEF UpdateEntry, remoteVars, tableVars
<1>2. got.uuid = u /\ got.parent = remote[u].parent /\ got.kind = remote[u].kind
    BY DEF Answer
<1>3. TableOK /\ TableOK' /\ AnswerOK(got) /\ IsDrive(remote)
    BY DEF SInv, IInv
<1>4. CASE u = Root
    <2>1. UpdateRoot(got)
        BY <1>1, <1>2, <1>3, <1>4, DriveFacts
           DEF dbcache_update, UpdateRoot, MoveEntry, InsertEntry, RejectOrphan
    <2>2. RootRewritten(Root)
        BY <1>2, <1>3, <1>4, <2>1, UpdateRootShape
    <2>3. 1 \in 1..Len(entries) /\ entries[1] \in Row
        <3>1. Len(entries) \in Nat \ {0}
            BY <1>3, EmptySeq DEF TableOK, TableTypeOK, TableInv, RootStays
        <3> QED BY <1>3, <3>1, TableShape DEF TableOK
    <2>4. entries'[1].uuid = Root
        BY <2>2, <2>3 DEF RootRewritten, Row
    <2>5. MirrorTree' = MirrorTree
        BY <1>1, <1>2, <1>4, StepTree DEF SInv
    <2> QED BY <1>1, <1>4, <2>4, <2>5 DEF OnRecord, Mirrored
<1>5. CASE u # Root /\ got.kind = "native"
    <2>1. SameRows
        BY <1>1, <1>5 DEF SameRows
    <2>2. MirrorTree' = MirrorTree
        BY <1>5, StepTree DEF SInv
    <2>3. \A v \in DOMAIN remote : OnRecord(v)' <=> OnRecord(v)
        BY <1>1, <2>1, <2>2, RecordKept DEF SameRows
    <2> QED BY <1>1, <1>2, <1>5, <2>3 DEF OnRecord, Mirrored
<1>6. CASE u # Root /\ got.kind # "native"
    <2> DEFINE p == remote[u].parent
    <2>1. p \in Uuids /\ p # Empty /\ Mirrored(p)
        BY <1>3, <1>6, DriveFacts DEF IsDrive
    <2>2. ByUuid(p) # {}
        <3>1. CASE p = Root
            <4>1. 1 \in DOMAIN entries /\ entries[1].uuid = Root
                <5>1. Len(entries) \in Nat \ {0} /\ DOMAIN entries = 1..Len(entries)
                    BY <1>3, EmptySeq, TableShape DEF TableOK, TableTypeOK, TableInv, RootStays
                <5> QED BY <1>6, <3>1, <5>1 DEF OnRecord
            <4> QED BY <3>1, <4>1 DEF ByUuid
        <3>2. CASE p # Root
            <4>1. p \in DOMAIN MirrorTree
                BY <1>6, <2>1, <3>2 DEF OnRecord
            <4>2. PICK i \in DriveRows : entries[i].uuid = p
                BY <1>3, <4>1, TreeOfRows DEF TreeShape
            <4>3. i \in DOMAIN entries
                BY <1>3, <4>2, TableShape DEF DriveRows, TableOK
            <4> QED BY <4>2, <4>3 DEF ByUuid
        <3> QED BY <3>1, <3>2
    <2>3. Filed(got)
        <3>1. MoveEntry(got) \/ InsertEntry(got)
            BY <1>1, <1>2, <1>6, <2>1, <2>2
               DEF dbcache_update, UpdateRoot, MoveEntry, InsertEntry, RejectOrphan
        <3> QED BY <1>3, <3>1, MoveEntryShape, InsertEntryShape
    <2>4. MirrorTree' = Recorded(u, p)
        <3>1. got.uuid # Null
            BY <1>2, <1>3, DbAssumption, DriveFacts
        <3> QED BY <1>2, <1>3, <2>1, <2>3, <3>1, RecordPlaces
    <2>5. entries'[1] = entries[1]
        <3>1. 1 \in 1..Len(entries) /\ entries[1] \in Row /\ entries'[1] \in Row
            <4>1. Len(entries) \in Nat \ {0} /\ Len(entries') \in Nat \ {0}
                BY <1>3, EmptySeq DEF TableOK, TableTypeOK, TableInv, RootStays
            <4> QED BY <1>3, <4>1, ElementOfSeq DEF TableOK, TableTypeOK
        <3>2. CASE \E q \in 1..Len(entries) : Added(NewRow(got, q))
            BY <3>1, <3>2 DEF Added
        <3>3. CASE \E k \in 2..Len(entries), q \in 1..Len(entries) : Moved(k, q)
            BY <3>1, <3>3 DEF Moved, Row
        <3> QED BY <2>3, <3>2, <3>3 DEF Filed
    <2> HIDE DEF p
    <2>6. \A v \in DOMAIN remote : OnRecord(v) => OnRecord(v)' \/ v = u
        BY <1>1, <2>4, <2>5 DEF OnRecord, Mirrored, Recorded
    <2>7. OnRecord(u)'
        BY <1>1, <1>6, <2>4 DEF OnRecord, Recorded, p
    <2> QED BY <2>6, <2>7
<1> QED BY <1>4, <1>5, <1>6

\* The file is seen; if it is a folder its children are still to be listed.
LEMMA CoveredUpdate ==
    ASSUME SInv, IInv', [Next]_vars, UpdateEntry, lost' = {}
    PROVE  Covered'
<1>1. /\ pc = "update" /\ pc' = (IF got.kind = "folder" THEN "list" ELSE "next") /\ lost = {}
      /\ UNCHANGED <<remote, alias, stack, got>>
    BY DEF UpdateEntry, remoteVars
<1>2. PICK V \in SUBSET DOMAIN remote : Seen(V)
    BY <1>1 DEF SInv, Covered, Scanning
<1>3. /\ alias \in DOMAIN remote /\ got = Answer(alias)
      /\ alias # Root => remote[alias].parent \in V
    BY <1>1, <1>2 DEF Seen, Pending
<1>4. \A u \in V \cup {alias} : OnRecord(u)'
    BY <1>2, <1>3, UpdatePlaces DEF Seen
<1>5. Pending' \subseteq Pending /\ Pending \subseteq Pending' \cup {alias}
    BY <1>1 DEF Pending
<1>6. \A u \in DOMAIN remote \ {Root} : remote[u].parent = alias => pc' = "list"
    BY <1>1, <1>3, DriveFacts DEF SInv, Answer
<1>7. Answer(alias)' = Answer(alias)
    BY <1>1 DEF Answer
<1>8. Seen(V \cup {alias})'
    BY <1>1, <1>2, <1>3, <1>4, <1>5, <1>6, <1>7 DEF Seen
<1> QED BY <1>1, <1>3, <1>8 DEF Covered

\* The children of a folder are to be visited.
LEMMA CoveredList ==
    ASSUME SInv, IInv', [Next]_vars, ListFolder, lost' = {}
    PROVE  Covered'
<1>1. /\ pc = "list" /\ pc' = "next" /\ lost = {}
      /\ stack' = Append(stack, Children(remote, got.uuid))
      /\ UNCHANGED <<remote, alias>>
    BY DEF ListFolder, Listed, Fail, NoFail, remoteVars
<1>2. PICK V \in SUBSET DOMAIN remote : Seen(V)
    BY <1>1 DEF SInv, Covered, Scanning
<1>3. alias \in V /\ got.uuid = alias
    BY <1>1, <1>2 DEF Seen, Answer
<1>4. Pending' = Pending \cup Children(remote, alias)
    BY <1>1, <1>3, MembersPushed DEF Pending, SInv, IInv, TypeOK
<1>5. \A u \in V : OnRecord(u)'
    BY <1>1, <1>2, StepKept, RecordKept DEF SInv, Seen, UpdateEntry
<1>6. Seen(V)'
    BY <1>1, <1>2, <1>3, <1>4, <1>5 DEF Seen, Children
<1> QED BY <1>1, <1>6 DEF Covered

\* The next file is visited, or the listing is done with, or the scan is.
LEMMA CoveredNext ==
    ASSUME SInv, IInv', [Next]_vars, Descend \/ Return \/ ScanDone, lost' = {}
    PROVE  Covered'
<1>1. pc = "next" /\ pc' \notin {"update", "list"} /\ lost = {} /\ UNCHANGED remote
    BY DEF Descend, Return, ScanDone, Goto, remoteVars
<1>2. PICK V \in SUBSET DOMAIN remote : Seen(V)
    BY <1>1 DEF SInv, Covered, Scanning
<1>3. stack \in Seq(SUBSET Uuids)
    BY DEF SInv, IInv, TypeOK
<1>4. Pending' = Pending
    <2>1. CASE Descend
        BY <1>3, <2>1, MembersTaken DEF Descend, Pending, Top
    <2>2. CASE Return
        BY <1>3, <2>2, MembersPopped DEF Return, Pending, Top
    <2>3. CASE ScanDone
        BY <2>3 DEF ScanDone, Goto, Pending
    <2> QED BY <2>1, <2>2, <2>3
<1>5. \A u \in V : OnRecord(u)'
    BY <1>1, <1>2, StepKept, RecordKept DEF SInv, Seen, UpdateEntry
<1>6. Seen(V)'
    BY <1>1, <1>2, <1>4, <1>5 DEF Seen
<1> QED BY <1>1, <1>6 DEF Covered

\* The other threads, and what is left of drive_run, do not concern a scan.
LEMMA CoveredElse ==
    ASSUME SInv, IInv', [Next]_vars,
           ~(GetStartToken \/ QueryDetails \/ UpdateEntry \/ ListFolder \/ Descend \/ Return \/ ScanDone)
    PROVE  Covered'
<1> SUFFICES ASSUME Scanning' PROVE \E V \in SUBSET DOMAIN remote' : Seen(V)'
    BY DEF Covered
<1>1. UNCHANGED <<pc, alias, got, stack, remote, lost>>
    <2>1. remote' = remote
        BY StepDrive DEF SInv, Scanning
    <2>2. CASE LoadChange \/ StoreChange \/ GetChanges \/ IdleAgain \/ IdleExpired \/ Exit
                \/ Restart \/ Crash
        BY <2>2 DEF Scanning, LoadChange, StoreChange, GetChanges, Goto, IdleAgain, IdleExpired,
                    Exit, Restart, Crash, Start
    <2>3. CASE RemoteStep
        BY <2>3 DEF Scanning, RemoteStep, RemoteMove, RemoteRename, RemoteRemove, Edit
    <2>4. CASE Stop \/ FuseStep \/ UNCHANGED vars
        BY <2>1, <2>4 DEF Stop, FuseStep, FuseMkdir, FuseRmdir, driveVars, tableVars, vars
    <2> QED BY <2>2, <2>3, <2>4 DEF Next, DriveStep
<1>2. PICK V \in SUBSET DOMAIN remote : Seen(V)
    BY <1>1 DEF SInv, Covered, Scanning
<1>3. MirrorTree' = MirrorTree /\ entries'[1].uuid = entries[1].uuid
    BY StepKept DEF SInv
<1>4. \A u \in V : OnRecord(u)'
    BY <1>1, <1>2, <1>3, RecordKept DEF Seen
<1>5. Pending' = Pending /\ Answer(alias)' = Answer(alias)
    BY <1>1 DEF Pending, Answer
<1>6. Seen(V)'
    BY <1>1, <1>2, <1>4, <1>5 DEF Seen
<1> QED BY <1>1, <1>6

\* A scan that ends with nothing left to visit has put the whole Drive on record.
LEMMA ScanWhole ==
    ASSUME SInv, pc = "store", lost = {}
    PROVE  Whole
<1>1. PICK V \in SUBSET DOMAIN remote : Seen(V)
    BY DEF SInv, Covered, Scanning
<1>2. Pending = {}
    BY DEF SInv, StackEmpty, Pending, Members
<1>3. Root \in V /\ \A u \in DOMAIN remote \ {Root} : remote[u].parent \in V => u \in V
    BY <1>1, <1>2 DEF Seen
<1> DEFINE S == DOMAIN remote \ V
<1>4. S \in SUBSET (DOMAIN remote \ {Root})
    BY <1>3
<1>5. S = {} \/ \E u \in S : remote[u].parent \notin S
    BY <1>4 DEF SInv, IsDrive
<1>6. \A u \in S : remote[u].parent \in DOMAIN remote
    BY <1>4 DEF SInv, IsDrive
<1>7. S = {}
    BY <1>3, <1>5, <1>6
<1> QED BY <1>1, <1>7 DEF Whole, Seen

\* Only StoreChange stores a token, and only a scan that starts forgets what was missed.
LEMMA StepHistory ==
    ASSUME SInv, [Next]_vars, ~StoreChange, change' # Empty, lost' = {}
    PROVE  change' = change /\ lost = {}
<1>1. CASE DriveStep
    BY <1>1 DEF DriveStep, LoadChange, GetStartToken, GetChanges, Goto, IdleAgain, IdleExpired,
                Exit, QueryDetails, UpdateEntry, ListFolder, Descend, Return, ScanDone, Fail,
                NoFail, tableVars, dbcache_update
<1>2. CASE RemoteStep \/ FuseStep \/ Stop \/ Restart \/ Crash \/ UNCHANGED vars
    BY <1>2 DEF FuseStep, FuseMkdir, FuseRmdir, dbcache_mkdir, dbcache_rmdir, RemoteStep,
                RemoteMove, RemoteRename, RemoteRemove, Edit, Stop, Restart, Crash, Start,
                tableVars, vars
<1> QED BY <1>1, <1>2 DEF Next

\* While a token is stored nothing is recorded, and the history tells whether the Drive changed.
LEMMA StepSaved ==
    ASSUME SInv, IInv', [Next]_vars
    PROVE  Saved'
<1> SUFFICES ASSUME change' # Empty, lost' = {} PROVE Whole'
    BY DEF Saved
<1>1. remote' = remote
    BY StepDrive DEF SInv
<1>2. pc # "update" /\ Whole
    <2>1. CASE StoreChange
        BY <2>1, ScanWhole DEF StoreChange
    <2>2. CASE ~StoreChange
        <3>1. change' = change /\ lost = {}
            BY <2>2, StepHistory
        <3> QED BY <3>1 DEF SInv, Saved, IInv, ScanInv
    <2> QED BY <2>1, <2>2
<1>3. MirrorTree' = MirrorTree /\ entries'[1].uuid = entries[1].uuid
    BY <1>2, StepKept DEF SInv, UpdateEntry
<1> QED BY <1>1, <1>2, <1>3, RecordKept DEF Whole

LEMMA StepCovered ==
    ASSUME SInv, IInv', [Next]_vars
    PROVE  Covered'
<1>1. CASE lost' = {}
    BY <1>1, CoveredToken, CoveredDetails, CoveredUpdate, CoveredList, CoveredNext, CoveredElse
<1>2. CASE lost' # {}
    BY <1>2 DEF Covered, Scanning
<1> QED BY <1>1, <1>2

LEMMA InitSInv == Init => SInv
<1> SUFFICES ASSUME Init PROVE SInv
    OBVIOUS
<1>1. IInv /\ IsDrive(remote)
    BY InitIInv, DriveAssumption DEF Init
<1>2. Len(entries) = 1 /\ pc = "outer" /\ stack = <<>> /\ change = Empty /\ got = EmptyAnswer
    BY DEF Init, TableInit
<1>3. DriveRows = {}
    BY <1>1, <1>2 DEF DriveRows
<1>4. got \in KindKnown
    BY <1>1, <1>2, NoAnswerOK, DbAssumption DEF KindKnown, AnswerOK, EmptyAnswer, IsDrive
<1>5. jroot \in Seq(KindKnown)
    BY EmptySeq DEF Init
<1> QED BY <1>1, <1>2, <1>3, <1>4, <1>5
           DEF SInv, KindsTrue, StackEmpty, Covered, Scanning, Saved

LEMMA StepSInv == SInv /\ [Next]_vars => SInv'
<1> SUFFICES ASSUME SInv, [Next]_vars PROVE SInv'
    OBVIOUS
<1>1. IInv' /\ IsDrive(remote)' /\ KindsTrue' /\ StackEmpty'
    BY StepIInv, StepDrive, StepKinds, StepStackEmpty DEF SInv
<1> QED BY <1>1, StepCovered, StepSaved DEF SInv

LEMMA InvariantSInv == Spec => []SInv
BY InitSInv, StepSInv, PTL DEF Spec

-----------------------------------------------------------------------------
(* Paths, on the Drive and in the table                                    *)

\* The one file of a name in a folder of the Drive, Empty if there is not exactly one.
Found(u, n) == {c \in Children(remote, u) : remote[c].name = n}

FileIn(u, n) ==
    IF \E c \in Found(u, n) : Found(u, n) = {c} THEN CHOOSE c \in Found(u, n) : TRUE ELSE Empty

\* RemoteByPath goes from file to file, one name at a time.
LEMMA RemoteByPathWalks ==
    ASSUME IsDrive(remote), NEW path, Len(path) \in Nat, DOMAIN path = 1..Len(path)
    PROVE  \E x \in [0..Len(path) -> Uuids \cup {Empty}] :
              /\ x[0] = Root
              /\ \A k \in 1..Len(path) : x[k] = FileIn(x[k - 1], path[k])
              /\ RemoteByPath(path) = x[Len(path)]
<1> DEFINE n == Len(path)
           X == Uuids \cup {Empty}
           G == [y \in X \X (1..n) |-> FileIn(y[1], path[y[2]])]
           Fold(h) == h = [s \in SUBSET DOMAIN path |->
                              IF s = {} THEN Root ELSE FileIn(h[s \ {Max(s)}], path[Max(s)])]
           iter == CHOOSE h : Fold(h)
           x == [k \in 0..n |-> iter[1..k]]
<1>1. RemoteByPath(path) = iter[1..n]
    BY DEF RemoteByPath, FoldLeft, MapThenFoldSet, FileIn, Found
<1>2. \A u : \A name : FileIn(u, name) \in X
    BY DEF FileIn, Found, Children, IsDrive
<1>3. \E h : Fold(h)
    <2>1. G \in [X \X (1..n) -> X] /\ n \in Nat /\ Root \in X
        BY <1>2, DbAssumption
    <2> HIDE DEF n, G, X
    <2>2. PICK h : Solves(h, n, X, Root, G)
        BY <2>1, FoldExists
    <2> USE DEF n, Solves
    <2>3. ASSUME NEW s \in SUBSET (1..n), s # {}
          PROVE  G[h[s \ {Max(s)}], Max(s)] = FileIn(h[s \ {Max(s)}], path[Max(s)])
        <3>1. Max(s) \in 1..n
            BY <2>3, MaxMember
        <3>2. <<h[s \ {Max(s)}], Max(s)>> \in X \X (1..n)
            BY <2>2, <3>1
        <3> QED BY <3>2 DEF G
    <2>4. h = [s \in SUBSET DOMAIN path |->
                  IF s = {} THEN Root ELSE FileIn(h[s \ {Max(s)}], path[Max(s)])]
        BY <2>2, <2>3
    <2> QED BY <2>4
<1>4. Fold(iter)
    BY <1>3
<1> HIDE DEF iter
<1>5. iter[{}] = Root
    BY <1>4
<1>6. ASSUME NEW k \in 1..n PROVE iter[1..k] = FileIn(iter[1..(k - 1)], path[k])
    <2>1. /\ 1..k \in SUBSET (1..n) /\ 1..k # {}
          /\ (1..k) \ {k} = 1..(k - 1) /\ Max(1..k) = k
        BY Prefix
    <2> QED BY <1>4, <2>1
<1>7. x[0] = Root /\ \A k \in 1..n : x[k] = FileIn(x[k - 1], path[k])
    <2>1. 1..0 = {}
        OBVIOUS
    <2> QED BY <1>5, <1>6, <2>1
<1>8. x \in [0..n -> X]
    <2>1. ASSUME NEW k \in 0..n PROVE iter[1..k] \in X
        <3>1. CASE k = 0
            BY <1>5, <3>1, DbAssumption
        <3>2. CASE k # 0
            BY <1>2, <1>6, <3>2
        <3> QED BY <3>1, <3>2
    <2> QED BY <2>1
<1>9. RemoteByPath(path) = x[n]
    BY <1>1
<1> HIDE DEF x
<1> QED BY <1>7, <1>8, <1>9

\* The rows below the row of a folder are those of the files the Drive has in it,
\* and local directories.
LEMMA RowsBelow ==
    ASSUME SInv, Whole, NEW u \in DOMAIN remote, Mirrored(u),
           NEW id \in 1..Len(entries), entries[id].uuid = u
    PROVE  /\ \A j \in DOMAIN entries :
                 entries[j].parent = id /\ entries[j].uuid \in DOMAIN remote =>
                    /\ j \in DriveRows
                    /\ entries[j].uuid \in Children(remote, u) /\ Mirrored(entries[j].uuid)
           /\ \A c \in Children(remote, u) :
                 Mirrored(c) => \E j \in DriveRows : entries[j].uuid = c /\ entries[j].parent = id
<1>1. /\ TableOK /\ IsDrive(remote)
      /\ Len(entries) \in Nat /\ DOMAIN entries = 1..Len(entries)
    BY TableShape DEF SInv, IInv, TableOK
<1>2. /\ entries[1].parent = Null /\ entries[1].uuid \in {Null, Empty, Root}
      /\ \A j \in 2..Len(entries) : entries[j].uuid # Null => entries[j].uuid \in Uuids \ {Root}
    BY <1>1 DEF TableOK, TableInv, RootStays, UuidsUnique
<1>3. u \in Uuids /\ (u = Root <=> id = 1)
    BY <1>1, <1>2, DbAssumption DEF IsDrive
<1>4. \A i \in DriveRows :
         /\ i \in 2..Len(entries) /\ entries[i].uuid \in Uuids \ {Root}
         /\ entries[i].uuid \in DOMAIN MirrorTree
         /\ MirrorTree[entries[i].uuid] = ParentUuid(i)
         /\ entries[i].parent \in 1..Len(entries)
    BY <1>1, <1>2, TreeOfRows DEF TreeShape, DriveRows, TableOK, TableInv, ParentsKnown
<1>5. ASSUME NEW j \in DOMAIN entries, entries[j].parent = id, entries[j].uuid \in DOMAIN remote
      PROVE  /\ j \in DriveRows
             /\ entries[j].uuid \in Children(remote, u) /\ Mirrored(entries[j].uuid)
    <2>1. j # 1
        BY <1>1, <1>2, <1>5, DbAssumption
    <2>2. j \in DriveRows
        BY <1>1, <1>5, <2>1, DbAssumption DEF DriveRows, IsDrive
    <2>3. ParentUuid(j) = u
        BY <1>3, <1>5 DEF ParentUuid
    <2>4. Mirrored(entries[j].uuid) /\ entries[j].uuid # Root
        BY <1>4, <1>5, <2>2 DEF SInv, KindsTrue
    <2>5. remote[entries[j].uuid].parent = u
        BY <1>4, <1>5, <2>2, <2>3, <2>4 DEF Whole, OnRecord
    <2> QED BY <1>5, <2>2, <2>4, <2>5 DEF Children
<1>6. ASSUME NEW c \in Children(remote, u), Mirrored(c)
      PROVE  \E j \in DriveRows : entries[j].uuid = c /\ entries[j].parent = id
    <2>1. c \in DOMAIN remote \ {Root} /\ remote[c].parent = u
        BY DEF Children
    <2>2. c \in DOMAIN MirrorTree /\ MirrorTree[c] = u
        BY <1>6, <2>1 DEF Whole, OnRecord
    <2>3. PICK j \in DriveRows : entries[j].uuid = c
        BY <1>1, <2>2, TreeOfRows DEF TreeShape
    <2>4. ParentUuid(j) = u
        BY <1>4, <2>2, <2>3
    <2>5. CASE entries[j].parent = 1
        BY <1>3, <2>3, <2>4, <2>5 DEF ParentUuid
    <2>6. CASE entries[j].parent # 1
        <3>1. entries[j].parent \in 2..Len(entries) /\ entries[entries[j].parent].uuid = u
            BY <1>1, <1>4, <2>4, <2>6 DEF ParentUuid
        <3>2. u # Null /\ u # Root
            BY <1>2, <1>3, <3>1, DbAssumption
        <3>3. ByUuid(u) = {entries[j].parent}
            BY <1>1, <3>1, <3>2 DEF TableOK, TableInv, UuidsUnique
        <3>4. id \in ByUuid(u)
            BY <1>1 DEF ByUuid
        <3> QED BY <2>3, <3>3, <3>4
    <2> QED BY <2>5, <2>6
<1> QED BY <1>5, <1>6

\* One name further the table has the row of the file the Drive has, unless a row is shadowed.
LEMMA NameFound ==
    ASSUME SInv, Whole, NEW path, ~Shadowed(path), NEW k \in DOMAIN path, path[k] \in Names,
           NEW u \in DOMAIN remote, Mirrored(u),
           NEW id \in 1..Len(entries), entries[id].uuid = u,
           FileIn(u, path[k]) # Empty, Mirrored(FileIn(u, path[k]))
    PROVE  /\ FileIn(u, path[k]) \in DOMAIN remote
           /\ NameIn(id, path[k]) \in 1..Len(entries)
           /\ entries[NameIn(id, path[k])].uuid = FileIn(u, path[k])
<1> DEFINE n == path[k]
           c == FileIn(u, n)
<1>1. Found(u, n) = {c}
    BY DEF FileIn
<1>2. c \in Children(remote, u) /\ c \in DOMAIN remote /\ remote[c].name = n
    BY <1>1 DEF Found, Children
<1>3. /\ TableOK /\ Len(entries) \in Nat /\ DOMAIN entries = 1..Len(entries)
      /\ entries[1].name = RootName
    BY TableShape DEF SInv, IInv, TableOK, TableInv, RootStays
<1> HIDE DEF c
<1>4. PICK i \in DriveRows : entries[i].uuid = c /\ entries[i].parent = id
    BY <1>2, RowsBelow DEF c
<1>5. i \in 2..Len(entries) /\ entries[i].name = n
    BY <1>2, <1>4 DEF Shadowed, Bears, DriveRows
<1>6. i \in ByNamePar(n, id)
    BY <1>3, <1>4, <1>5 DEF ByNamePar
<1>7. ASSUME NEW j \in ByNamePar(n, id) PROVE j = i
    <2>1. j \in DOMAIN entries /\ entries[j].name = n /\ entries[j].parent = id
        BY DEF ByNamePar
    <2>2. j \in 2..Len(entries)
        BY <1>3, <2>1, DbAssumption
    <2>3. entries[j].uuid \in DOMAIN remote /\ remote[entries[j].uuid].name = n
        BY <2>1, <2>2 DEF Shadowed, Bears
    <2>4. j \in DriveRows /\ entries[j].uuid \in Children(remote, u)
        BY <2>1, <2>3, RowsBelow
    <2>5. entries[j].uuid = c
        BY <1>1, <2>3, <2>4 DEF Found, c
    <2> QED BY <1>3, <1>4, <2>4, <2>5, TreeOfRows DEF TreeShape
<1>8. ByNamePar(n, id) = {i} /\ id # 0 /\ i \in Nat
    BY <1>3, <1>5, <1>6, <1>7
<1>9. NameIn(id, n) = i
    <2>1. First({i}) \in {i}
        BY <1>8, FirstIsMember
    <2> QED BY <1>8, <2>1 DEF NameIn
<1> QED BY <1>2, <1>3, <1>4, <1>5, <1>9 DEF c

\* A path leads to the row of the file it leads to on the Drive.
LEMMA PathFound ==
    ASSUME SInv, Whole, NEW path \in Seq(Names), ~Shadowed(path),
           RemoteByPath(path) # Empty, Mirrored(RemoteByPath(path))
    PROVE  /\ RemoteByPath(path) \in DOMAIN remote
           /\ FindByPath(path) \in 1..Len(entries)
           /\ entries[FindByPath(path)].uuid = RemoteByPath(path)
<1>1. TableOK /\ TableTypeOK /\ IsDrive(remote) /\ Len(entries) \in Nat /\ Len(entries) # 0
    BY TableShape, EmptySeq DEF SInv, IInv, TableOK, TableTypeOK, TableInv, RootStays
<1> DEFINE n == Len(path)
<1>2. /\ n \in Nat /\ DOMAIN path = 1..n /\ \A k \in 1..n : path[k] \in Names
    BY LenProperties, ElementOfSeq
<1>3. PICK w \in [0..n -> Nat] :
          /\ w[0] = 1
          /\ \A k \in 1..n : w[k] = NameIn(w[k - 1], path[k])
          /\ FindByPath(path) = w[n]
    BY <1>1, <1>2, FindByPathWalks
<1>4. PICK x \in [0..n -> Uuids \cup {Empty}] :
          /\ x[0] = Root
          /\ \A k \in 1..n : x[k] = FileIn(x[k - 1], path[k])
          /\ RemoteByPath(path) = x[n]
    BY <1>1, <1>2, RemoteByPathWalks
<1> HIDE DEF n
<1> DEFINE Agree(k) == /\ x[k] \in DOMAIN remote
                       /\ w[k] \in 1..Len(entries) /\ entries[w[k]].uuid = x[k]
           S == {k \in 0..n : x[k] # Empty /\ Mirrored(x[k]) => Agree(k)}
<1>5. 0 \in S
    <2>1. Root \in DOMAIN remote /\ entries[1].uuid = Root /\ 1 \in 1..Len(entries)
        BY <1>1 DEF IsDrive, Whole, OnRecord
    <2> QED BY <1>2, <1>3, <1>4, <2>1
<1>6. ASSUME NEW k \in 1..n, k - 1 \in S PROVE k \in S
    <2> SUFFICES ASSUME x[k] # Empty, Mirrored(x[k]) PROVE Agree(k)
        BY <1>2
    <2>1. k - 1 \in 0..n /\ x[k] = FileIn(x[k - 1], path[k]) /\ w[k] = NameIn(w[k - 1], path[k])
        BY <1>2, <1>3, <1>4
    <2>2. Found(x[k - 1], path[k]) # {}
        BY <2>1 DEF FileIn
    <2>3. PICK c \in DOMAIN remote \ {Root} : remote[c].parent = x[k - 1]
        BY <2>2 DEF Found, Children
    <2>4. x[k - 1] # Empty /\ Mirrored(x[k - 1])
        BY <1>1, <2>3, DriveFacts
    <2>5. Agree(k - 1)
        BY <1>6, <2>4
    <2>6. path[k] \in Names /\ k \in DOMAIN path
        BY <1>2
    <2> QED BY <2>1, <2>4, <2>5, <2>6, NameFound
<1>7. n \in S
    <2> HIDE DEF S
    <2>1. \A k \in 0..n : k \in S
        BY <1>2, <1>5, <1>6, UpTo
    <2> QED BY <1>2, <2>1
<1> QED BY <1>3, <1>4, <1>7

\* What FUSE finds below a path, and what it lists there, is what the Drive has.
LEMMA ShownIsDrive == SInv => FuseSeesDrive
<1> SUFFICES ASSUME SInv, change # Empty, lost = {},
                    NEW path \in Paths \cup {<<>>},
                    RemoteByPath(path) # Empty, Mirrored(RemoteByPath(path)), ~Shadowed(path)
             PROVE  LET u == RemoteByPath(path)
                        id == FindByPath(path)
                    IN  /\ id # 0
                        /\ entries[id].uuid = u
                        /\ entries[id].type = IF remote[u].kind = "folder" THEN Dir ELSE File
                        /\ ListedFiles(path) = {c \in Children(remote, u) : Mirrored(c)}
    BY DEF FuseSeesDrive
<1> DEFINE u == RemoteByPath(path)
           id == FindByPath(path)
<1>1. Whole /\ path \in Seq(Names)
    BY DriveAssumption, EmptySeq DEF SInv, Saved
<1>2. u \in DOMAIN remote /\ id \in 1..Len(entries) /\ entries[id].uuid = u
    BY <1>1, PathFound
<1>3. /\ TableOK /\ IsDrive(remote) /\ KindsTrue
      /\ Len(entries) \in Nat /\ DOMAIN entries = 1..Len(entries)
    BY TableShape DEF SInv, IInv, TableOK
<1> HIDE DEF u, id
<1>4. entries[id].type = IF remote[u].kind = "folder" THEN Dir ELSE File
    <2>1. CASE id = 1
        <3>1. u = Root /\ entries[id].type = Dir
            BY <1>2, <1>3, <2>1, DbAssumption DEF TableOK, TableInv, RootStays, IsDrive
        <3> QED BY <1>3, <3>1 DEF IsDrive
    <2>2. CASE id # 1
        <3>1. id \in DriveRows
            BY <1>2, <1>3, <2>2, DbAssumption DEF DriveRows, IsDrive
        <3> QED BY <1>2, <1>3, <3>1 DEF KindsTrue
    <2> QED BY <2>1, <2>2
<1>5. ListedFiles(path) = {c \in Children(remote, u) : Mirrored(c)}
    <2>1. Listdir(path) = {i \in DOMAIN entries : entries[i].parent = id}
        BY <1>2, <1>3 DEF Listdir, ByPar, id
    <2>2. Mirrored(u)
        BY DEF u
    <2>3. ASSUME NEW c PROVE c \in ListedFiles(path) => c \in Children(remote, u) /\ Mirrored(c)
        BY <1>1, <1>2, <2>1, <2>2, RowsBelow DEF ListedFiles
    <2>4. ASSUME NEW c \in Children(remote, u), Mirrored(c) PROVE c \in ListedFiles(path)
        <3>1. PICK j \in DriveRows : entries[j].uuid = c /\ entries[j].parent = id
            BY <1>1, <1>2, <2>2, <2>4, RowsBelow
        <3>2. j \in DOMAIN entries /\ c \in DOMAIN remote
            BY <1>3 DEF DriveRows, Children
        <3> QED BY <2>1, <3>1, <3>2 DEF ListedFiles
    <2> QED BY <2>3, <2>4
<1> QED BY <1>2, <1>3, <1>4, <1>5 DEF u, id

-----------------------------------------------------------------------------
(* Theorem                                                                 *)

\* After a scan that missed nothing, dbcache_findbypath and dbcache_listdir show
\* the Drive as it is, whatever crashes, restarts, older scans, mkdirs and rmdirs
\* the table has been through.
THEOREM DriveShown == Spec => []FuseSeesDrive
BY InvariantSInv, ShownIsDrive, PTL

=============================================================================
