----------------------------- MODULE DriveSync -----------------------------
(***************************************************************************)
(* The Drive thread (drive_run and recurse, src/src/driveapi.c) mirroring  *)
(* a Google Drive into the metadata cache, while the Drive changes, while  *)
(* FUSE makes and removes directories in the same table, and while the     *)
(* process is stopped, started again or killed between any two steps.      *)
(*                                                                         *)
(* A step of the thread is one request to Drive, one call of dbcache or    *)
(* one turn of a loop; the table survives the process, the rest does not.  *)
(***************************************************************************)
EXTENDS DbCache

CONSTANTS
    RemoteTrees,    \* what the Drive may hold at first
    EditKinds,      \* how it may change: a subset of {"move", "rename", "remove"}
    Paths,          \* the paths FUSE is asked about
    MaxRows,        \* bounds: FUSE makes no directory in a table of this size,
    MaxEdits,       \*   edits made on the Drive,
    MaxFailures,    \*   failed or cut requests,
    MaxCrashes      \*   crashes

VARIABLES
    remote,         \* the files on the Drive: id -> parent, name and kind
    placed,         \* history: every <<file, parent>> that was ever true on the Drive
    pc,             \* where the Drive thread is
    alias,          \* the file recurse was called for
    got,            \* the fields it took from the answer to its details request
    jroot,          \* for each depth of recurse, the answer its jroot was left with
    stack,          \* for each active call of recurse, the files it has yet to visit
    changeid,       \* the change token in memory
    keep_running,   \* cleared by drive_stop
    lost,           \* history: why the current scan may have missed something
    edits, failures, crashes    \* how often each has happened

driveVars == <<pc, alias, got, jroot, stack, changeid>>
remoteVars == <<remote, placed, edits>>
vars == <<tableVars, remoteVars, driveVars, keep_running, lost, failures, crashes>>

Kinds == {"folder", "file", "native"}
RemoteFile == [parent : Uuids \cup {Empty}, name : Names \cup {RootName}, kind : Kinds]

PCs == {"outer", "token", "details", "update", "list", "next", "store", "poll", "idle", "exit"}

EmptyAnswer == [uuid |-> Empty, name |-> Empty, parent |-> Empty, kind |-> "file"]

Children(r, u) == {c \in DOMAIN r \ {Root} : r[c].parent = u}

\* The root is a folder without a parent; no other set of files is closed under "parent".
IsDrive(r) ==
    /\ DOMAIN r \subseteq Uuids
    /\ r \in [DOMAIN r -> RemoteFile]
    /\ Root \in DOMAIN r
    /\ r[Root] = [parent |-> Empty, name |-> RootName, kind |-> "folder"]
    /\ \A u \in DOMAIN r \ {Root} :
          /\ r[u].name \in Names
          /\ r[u].parent \in DOMAIN r /\ r[r[u].parent].kind = "folder"
    /\ \A S \in SUBSET (DOMAIN r \ {Root}) :
          S = {} \/ \E u \in S : r[u].parent \notin S

Placements(r) == {<<u, r[u].parent>> : u \in DOMAIN r \ {Root}}

ASSUME DriveAssumption ==
    /\ \A r \in RemoteTrees : IsDrive(r)
    /\ EditKinds \subseteq {"move", "rename", "remove"}
    /\ Paths \subseteq Seq(Names) \ {<<>>}
    /\ {MaxRows, MaxEdits, MaxFailures, MaxCrashes} \subseteq Nat

TypeOK ==
    /\ TableTypeOK
    /\ DOMAIN remote \subseteq Uuids
    /\ remote \in [DOMAIN remote -> RemoteFile]
    /\ placed \subseteq Uuids \X Uuids
    /\ pc \in PCs
    /\ alias \in Uuids
    /\ got \in Answers
    /\ jroot \in Seq(Answers)
    /\ stack \in Seq(SUBSET Uuids)
    /\ changeid \in Tokens \cup {Empty}
    /\ keep_running \in BOOLEAN
    /\ lost \subseteq {"edit", "failure", "page"}
    /\ {edits, failures, crashes} \subseteq Nat

Init ==
    /\ TableInit
    /\ remote \in RemoteTrees
    /\ placed = Placements(remote)
    /\ pc = "outer"
    /\ alias = Root
    /\ got = EmptyAnswer
    /\ jroot = <<>>
    /\ stack = <<>>
    /\ changeid = Empty
    /\ keep_running = TRUE
    /\ lost = {}
    /\ edits = 0 /\ failures = 0 /\ crashes = 0

-----------------------------------------------------------------------------
(* drive_run                                                               *)

Fail ==
    /\ failures < MaxFailures
    /\ failures' = failures + 1
    /\ lost' = lost \cup {"failure"}

NoFail == UNCHANGED <<failures, lost>>

\* The thread goes on without having changed anything.
Goto(to) ==
    /\ pc' = to
    /\ UNCHANGED <<tableVars, remoteVars, alias, got, jroot, stack, changeid, keep_running,
                   lost, failures, crashes>>

\* Mutation: every turn of the outer loop scans.
LoadChange_ignored ==
    /\ pc = "outer" /\ keep_running
    /\ changeid' = change
    /\ pc' = "token"
    /\ lost' = {}
    /\ UNCHANGED <<tableVars, remoteVars, alias, got, jroot, stack, keep_running, failures,
                   crashes>>

\* The outer loop: with a token in the table there is nothing to scan.
LoadChange ==
    /\ pc = "outer" /\ keep_running
    /\ changeid' = change
    /\ pc' = IF change = Empty THEN "token" ELSE "poll"
    /\ lost' = IF change = Empty THEN {} ELSE lost
    /\ UNCHANGED <<tableVars, remoteVars, alias, got, jroot, stack, keep_running, failures,
                   crashes>>

\* A failed request leaves changeid as it was, "", and the scan runs all the same.
GetStartToken ==
    /\ pc = "token"
    /\ \/ changeid' \in Tokens /\ NoFail
       \/ Fail /\ UNCHANGED changeid
    /\ pc' = "details"
    /\ alias' = Root
    /\ UNCHANGED <<tableVars, remoteVars, got, jroot, stack, keep_running, crashes>>

StoreChange ==
    /\ pc = "store"
    /\ dbcache_change_store(changeid)
    /\ pc' = "poll"
    /\ UNCHANGED <<remoteVars, alias, got, jroot, stack, changeid, keep_running, lost, failures,
                   crashes>>

\* Mutation: the inner loop does not look at keep_running.
GetChanges_forever == pc = "poll" /\ Goto("idle")

\* The inner loop: get_changes writes the answer to a file nobody reads and never sets
\* anychange.  A thread that is told to stop goes back to the outer loop.
GetChanges == pc = "poll" /\ Goto(IF keep_running THEN "idle" ELSE "outer")

\* A minute later, or stopped: round the inner loop, or out of it if the token has expired.
IdleAgain == pc = "idle" /\ Goto("poll")

\* Mutation: an expired token does not end the inner loop.
IdleExpired_polls == pc = "idle" /\ Goto("poll")

IdleExpired == pc = "idle" /\ Goto("outer")

\* Only the loops of drive_run look at keep_running, recurse does not.
Exit == pc = "outer" /\ ~keep_running /\ Goto("exit")

-----------------------------------------------------------------------------
(* recurse(alias)                                                          *)

Answer(u) ==
    IF u \in DOMAIN remote
    THEN [uuid |-> u, name |-> remote[u].name, parent |-> remote[u].parent,
          kind |-> remote[u].kind]
    ELSE EmptyAnswer

\* How deep the call is; its jroot, on the C stack, lies where that of an earlier call of the
\* depth lay, and has what that one was left with.
Depth == Len(stack) + 1
StaleAnswer == IF Depth \in DOMAIN jroot THEN jroot[Depth] ELSE EmptyAnswer

\* What the request of a call leaves in its jroot.
Leave(answer) ==
    jroot' = IF Depth \in DOMAIN jroot THEN [jroot EXCEPT ![Depth] = answer]
             ELSE Append(jroot, answer)

\* Mutation: parent is not cleared, and still has what an earlier answer left in it.
QueryDetails_parentKept ==
    /\ pc = "details"
    /\ \/ got' = Answer(alias) /\ NoFail
       \/ got' = [EmptyAnswer EXCEPT !.parent = StaleAnswer.parent] /\ Fail
    /\ Leave(got')
    /\ pc' = "update"
    /\ UNCHANGED <<tableVars, remoteVars, alias, stack, changeid, keep_running, crashes>>

\* A request that fails, or is answered by an error, leaves every field empty; one answered
\* by nothing at all reads jroot uninitialised, where an earlier answer may still lie.  Any
\* that is answered by nothing leaves jroot as it was.
QueryDetails ==
    /\ pc = "details"
    /\ \/ got' = Answer(alias) /\ Leave(got') /\ NoFail
       \/ got' \in {EmptyAnswer, StaleAnswer} /\ (Leave(got') \/ Leave(StaleAnswer)) /\ Fail
    /\ pc' = "update"
    /\ UNCHANGED <<tableVars, remoteVars, alias, stack, changeid, keep_running, crashes>>

\* The files that are native to Google Docs are left out of the table.
UpdateEntry ==
    /\ pc = "update"
    /\ IF got.kind = "native" THEN UNCHANGED tableVars ELSE dbcache_update(got)
    /\ pc' = IF got.kind = "folder" THEN "list" ELSE "next"
    /\ UNCHANGED <<remoteVars, alias, got, jroot, stack, changeid, keep_running, lost, failures,
                   crashes>>

\* An answered listing, whose object has none of the fields of a file.
Listed(files) ==
    /\ stack' = Append(stack, files)
    /\ jroot' = [jroot EXCEPT ![Depth] = EmptyAnswer]

\* All the children; the first page of them; an error, without any; or nothing at all, and
\* then jroot still holds the details, which list no files.
ListFolder ==
    /\ pc = "list"
    /\ LET children == Children(remote, got.uuid)
       IN  \/ Listed(children) /\ NoFail
           \/ /\ failures < MaxFailures
              /\ failures' = failures + 1
              /\ lost' = lost \cup {"page"}
              /\ \E page \in SUBSET children \ {{}, children} : Listed(page)
           \/ Listed({}) /\ Fail
           \/ stack' = Append(stack, {}) /\ UNCHANGED jroot /\ Fail
    /\ pc' = "next"
    /\ UNCHANGED <<tableVars, remoteVars, alias, got, changeid, keep_running, crashes>>

Top == stack[Len(stack)]

\* Mutation: the loop over a listing does not advance.
Descend_again ==
    /\ pc = "next" /\ stack # <<>>
    /\ alias' \in Top
    /\ pc' = "details"
    /\ UNCHANGED <<tableVars, remoteVars, got, jroot, stack, changeid, keep_running, lost,
                   failures, crashes>>

Descend ==
    /\ pc = "next" /\ stack # <<>>
    /\ \E c \in Top :
          /\ alias' = c
          /\ stack' = [stack EXCEPT ![Len(stack)] = @ \ {c}]
    /\ pc' = "details"
    /\ UNCHANGED <<tableVars, remoteVars, got, jroot, changeid, keep_running, lost, failures,
                   crashes>>

Return ==
    /\ pc = "next" /\ stack # <<>> /\ Top = {}
    /\ stack' = SubSeq(stack, 1, Len(stack) - 1)
    /\ UNCHANGED <<tableVars, remoteVars, pc, alias, got, jroot, changeid, keep_running,
                   lost, failures, crashes>>

ScanDone == pc = "next" /\ stack = <<>> /\ Goto("store")

-----------------------------------------------------------------------------
(* The process, the other threads and the Drive                            *)

\* main has left the FUSE loop and calls drive_stop, which waits for the thread.
Stop ==
    /\ keep_running
    /\ keep_running' = FALSE
    /\ UNCHANGED <<tableVars, remoteVars, driveVars, lost, failures, crashes>>

\* A new process starts from the table alone.
Start ==
    /\ pc' = "outer" /\ alias' = Root /\ got' = EmptyAnswer /\ jroot' = <<>> /\ stack' = <<>>
    /\ changeid' = Empty
    /\ keep_running' = TRUE
    /\ UNCHANGED <<tableVars, remoteVars, lost, failures>>

Restart == pc = "exit" /\ Start /\ UNCHANGED crashes

Crash ==
    /\ pc # "exit" /\ crashes < MaxCrashes
    /\ crashes' = crashes + 1
    /\ Start

FuseMkdir(path) ==
    /\ keep_running /\ Len(entries) < MaxRows
    /\ dbcache_mkdir(path)
    /\ UNCHANGED <<remoteVars, driveVars, keep_running, lost, failures, crashes>>

FuseRmdir(path) ==
    /\ keep_running
    /\ dbcache_rmdir(path)
    /\ UNCHANGED <<remoteVars, driveVars, keep_running, lost, failures, crashes>>

Edit(kind, r) ==
    /\ kind \in EditKinds /\ edits < MaxEdits
    /\ edits' = edits + 1
    /\ remote' = r
    /\ placed' = placed \cup Placements(r)
    /\ lost' = lost \cup {"edit"}
    /\ UNCHANGED <<tableVars, driveVars, keep_running, failures, crashes>>

RemoteMove(u, p) ==
    /\ p \in DOMAIN remote /\ remote[p].kind = "folder" /\ p # remote[u].parent
    /\ IsDrive([remote EXCEPT ![u].parent = p])
    /\ Edit("move", [remote EXCEPT ![u].parent = p])

RemoteRename(u, n) ==
    /\ n # remote[u].name
    /\ Edit("rename", [remote EXCEPT ![u].name = n])

RemoteRemove(u) ==
    /\ Children(remote, u) = {}
    /\ Edit("remove", [v \in DOMAIN remote \ {u} |-> remote[v]])

-----------------------------------------------------------------------------

DriveStep ==
    \/ LoadChange \/ GetStartToken \/ StoreChange \/ GetChanges \/ IdleAgain \/ IdleExpired
    \/ Exit \/ QueryDetails \/ UpdateEntry \/ ListFolder \/ Descend \/ Return \/ ScanDone

RemoteStep ==
    \E u \in DOMAIN remote \ {Root} :
        \/ \E p \in Uuids : RemoteMove(u, p)
        \/ \E n \in Names : RemoteRename(u, n)
        \/ RemoteRemove(u)

FuseStep == \E path \in Paths : FuseMkdir(path) \/ FuseRmdir(path)

Next == DriveStep \/ RemoteStep \/ FuseStep \/ Stop \/ Restart \/ Crash

Spec == Init /\ [][Next]_vars

(* The thread keeps taking steps.                                           *)
FairSpec == Spec /\ WF_vars(DriveStep)

-----------------------------------------------------------------------------
(* Safety                                                                  *)

\* Row 1 stays the root of the mount, whatever is stored as its Drive id.
RootStays ==
    /\ entries # <<>>
    /\ entries[1] \in [uuid : {Null, Empty, Root}, name : {RootName}, type : {Dir},
                       sync : {0}, parent : {Null}]

\* A Drive file is filed under a row there is; a directory FUSE made is at the top, or under
\* 0, which is no row (dbcache_mkdir, below the top level).
ParentsKnown ==
    \A i \in 2..Len(entries) :
        entries[i].parent \in IF entries[i].uuid = Null THEN {0, 1} ELSE DOMAIN entries

UuidsUnique ==
    \A i \in 2..Len(entries) :
        entries[i].uuid # Null =>
            /\ entries[i].uuid \in Uuids \ {Root}
            /\ ByUuid(entries[i].uuid) = {i}

(* The table is well formed: one root, no Drive file under a row that is    *)
(* not there (the foreign key of dfs_entry is not enforced), and one row at *)
(* most for a Drive file, though the schema has no UNIQUE and               *)
(* dbcache_update looks before it inserts, scan after scan and crash after  *)
(* crash.  For FUSE's directories the foreign key does not hold: see        *)
(* ForeignKey below.                                                        *)
TableInv == RootStays /\ ParentsKnown /\ UuidsUnique

\* The Drive folder a row is filed under.
ParentUuid(i) == IF entries[i].parent = 1 THEN Root ELSE entries[entries[i].parent].uuid

(* A Drive file is never filed under a folder it was not in at some time:   *)
(* local directories, ids of rows and the answers a scan holds while the    *)
(* Drive changes are never mixed up by dbcache_update.                      *)
PlacementOnceTrue ==
    \A i \in 2..Len(entries) :
        entries[i].uuid # Null => <<entries[i].uuid, ParentUuid(i)>> \in placed

\* dbcache_rmdir marks directories only, and never the root.
TombstonesAreFolders ==
    \A i \in DOMAIN entries : entries[i].sync = -1 => i # 1 /\ entries[i].type = Dir

(* Neither a scan nor FUSE turns one entry into another: a row keeps its    *)
(* name, its type and, the root aside, its Drive id; a local directory      *)
(* stays where it was made; what rmdir has marked stays marked, also when   *)
(* a later scan finds the folder on the Drive again.                        *)
RowsKeep ==
    /\ Len(entries') >= Len(entries)
    /\ \A i \in DOMAIN entries :
          /\ entries'[i].name = entries[i].name
          /\ entries'[i].type = entries[i].type
          /\ i # 1 => entries'[i].uuid = entries[i].uuid
          /\ entries[i].uuid = Null => entries'[i].parent = entries[i].parent
          /\ entries[i].sync = -1 => entries'[i].sync = -1

RowsKeepIdentity == [][RowsKeep]_vars

-----------------------------------------------------------------------------
(* What the mount shows                                                    *)

\* The file a path leads to on the Drive, Empty if there is none or, Drive
\* allowing files of one name in a folder, more than one.
RemoteByPath(path) ==
    LET step(u, n) ==
            LET found == {c \in Children(remote, u) : remote[c].name = n}
            IN  IF \E c \in found : found = {c} THEN CHOOSE c \in found : TRUE ELSE Empty
    IN  FoldLeft(step, Root, path)

Mirrored(u) == remote[u].kind # "native"

Bears(u, n) == u \in DOMAIN remote /\ remote[u].name = n

\* A row bears a name of the path and its file does not, or the other way round: it is a
\* directory FUSE made, or a file removed or renamed since an earlier scan saw it.
Shadowed(path) ==
    \E k \in DOMAIN path : \E i \in 2..Len(entries) :
        (entries[i].name = path[k]) # Bears(entries[i].uuid, path[k])

\* The files of the Drive that an ls of the path shows.
ListedFiles(path) == {entries[i].uuid : i \in Listdir(path)} \cap DOMAIN remote

(* When a whole scan has been recorded, nothing failed or was cut in it and *)
(* the Drive has not changed since it began, every path of the Drive leads  *)
(* through dbcache_findbypath to the row of its file, with its type, and    *)
(* dbcache_listdir shows exactly the children the Drive has there, whatever *)
(* crashes, restarts, earlier scans, mkdirs and rmdirs came before.         *)
FuseSeesDrive ==
    change # Empty /\ lost = {} =>
        \A path \in Paths \cup {<<>>} :
            LET u == RemoteByPath(path)
                id == FindByPath(path)
            IN  u # Empty /\ Mirrored(u) /\ ~Shadowed(path) =>
                    /\ id # 0
                    /\ entries[id].uuid = u
                    /\ entries[id].type = IF remote[u].kind = "folder" THEN Dir ELSE File
                    /\ ListedFiles(path) = {c \in Children(remote, u) : Mirrored(c)}

-----------------------------------------------------------------------------
(* Refinement                                                              *)

DriveRows == {i \in 2..Len(entries) : entries[i].uuid # Null}

MirrorTree ==
    [u \in {entries[i].uuid : i \in DriveRows} |-> ParentUuid(First(ByUuid(u)))]

M == INSTANCE Mirror WITH claims <- placed, tree <- MirrorTree, token <- change

(* The table, scanned by the Drive thread and edited by FUSE, is a mirror:  *)
(* it files a Drive file only where the Drive had it and below a folder it  *)
(* holds, loses none, and is frozen once a change token is stored, since no *)
(* restart scans again.                                                     *)
MirrorSpec == M!Spec

-----------------------------------------------------------------------------
(* Liveness, under FairSpec                                                *)

(* A thread that is told to stop comes to an end, unless it is killed       *)
(* first, and without waiting for its access token to expire: drive_stop    *)
(* waits for the scan under way, which ends as ScanEnds says, and for no    *)
(* more polls.                                                              *)
StopExits == ~keep_running ~> (pc = "exit" \/ keep_running)

(* A scan ends once the Drive is left alone (edits are finite in number):   *)
(* recurse comes back from whatever tree it walks, however often it was     *)
(* moved about during the walk and however requests fail, unless the        *)
(* process is killed.  While edits go on it may not: a folder moved below   *)
(* another one before that is listed is visited again, and so forth.        *)
ScanEnds == \A n \in 0..MaxCrashes :
    (pc = "details" /\ crashes = n) ~> (pc = "store" \/ crashes # n)

(* An access token expires: a thread that idles again and again finds it    *)
(* expired again and again.                                                 *)
TokensExpire == SF_vars(IdleExpired)

(* A process left running obtains and stores a change token in the end,     *)
(* even if the request for the start token failed and "" was stored, if     *)
(* access tokens expire.                                                    *)
TokenStored == TokensExpire => (<>[]keep_running => <>(change # Empty))

-----------------------------------------------------------------------------
(* What the source says and the code does not do: each is violated         *)

(* "FOREIGN KEY ( parent ) REFERENCES dfs_entry ( id )" (dbcache.c:134): a  *)
(* row has no parent or one that is in the table.  A directory FUSE makes   *)
(* below the top level is filed under 0 (dbcache.c:487), and SQLite does    *)
(* not enforce the constraint unless asked.                                 *)
ForeignKey == \A i \in DOMAIN entries : entries[i].parent \in DOMAIN entries \cup {Null}

(* "updating root" (dbcache.c:408): the answer stored as the root's is that *)
(* of the root.  It is not: every answer without a parent is, an error too, *)
(* so a file that is removed between the listing of its folder and the      *)
(* request for its details empties the Drive id of row 1, and the files of  *)
(* the root that come after it in the scan are refused.                     *)
RootKnown == entries[1].uuid \in {Null, Root}

(* "uuid found, updating" (dbcache.c:350) and "insert/update entry"         *)
(* (driveapi.c:296): after a whole scan that missed nothing a file bears    *)
(* the name it has on the Drive.  It does not if an earlier, interrupted    *)
(* scan recorded it under another: UPDATE sets its uuid and parent only.    *)
NamesCurrent ==
    change # Empty /\ lost = {} =>
        \A i \in 2..Len(entries) :
            entries[i].uuid \in DOMAIN remote => entries[i].name = remote[entries[i].uuid].name

(* "save for next run" (driveapi.c:347), of the token of the next page of a *)
(* listing: a file that was not on the first page is found by a later run.  *)
(* It is not: the token is dropped, a change token is stored, and no later  *)
(* run scans, be it a turn of the outer loop or a new process.              *)
AllRecorded ==
    \A u \in DOMAIN remote \ {Root} : Mirrored(u) => ByUuid(u) # {}

NextRunResumes == [](lost = {"page"} => <>(AllRecorded \/ lost # {"page"}))

\* The user stops and starts the program again and again.
RestartSpec == FairSpec /\ TokensExpire /\ SF_vars(Stop) /\ WF_vars(Restart)

=============================================================================
