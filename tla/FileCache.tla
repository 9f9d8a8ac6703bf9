------------------------------ MODULE FileCache ------------------------------
(***************************************************************************)
(* The content of files: fuseapi_open, _read and _release, run by the      *)
(* threads of libfuse, the directory of cached files (src/src/fscache.c),  *)
(* drive_download, and as much of the Drive thread as they share with it:  *)
(* dbcache_mutex, auth_mutex and the header auth_chunk.                    *)
(*                                                                         *)
(* A step is one call into the C library or one pass of a mutex.  Files on *)
(* disk survive the process.  A path that leads to no row only passes the  *)
(* mutex, as LockUpdate does, and is left out: rows are never deleted, so  *)
(* for a file the callback of dbcache_findbypath always runs.              *)
(***************************************************************************)
EXTENDS Integers

CONSTANTS
    Files,          \* the uuids of the Drive's files
    Workers,        \* the threads of libfuse
    Handles,        \* the descriptors open() may return
    Size,           \* the length of every file, in blocks
    Drive,          \* the Drive thread
    None,           \* no thread, no file, no descriptor
    Absent,         \* there is no such file in the cache
    Refusal,        \* the file holds an error message of the Drive's
    Closed,         \* the descriptor is not open
    MaxFailures,    \* bounds: calls that fail,
    MaxCrashes      \*   crashes

ASSUME FileAssumption ==
    /\ Size \in Nat \ {0}
    /\ {Absent, Refusal} \cap Int = {} /\ Absent # Refusal
    /\ {Drive, None} \cap Workers = {} /\ Drive # None /\ None \notin Files \cup Handles
    /\ Closed \notin Files
    /\ MaxFailures \in Nat /\ MaxCrashes \in Nat

VARIABLES
    disk,           \* the cached files: how many blocks of each are on disk
    dbcache_mutex,  \* its holder
    auth_mutex,     \* its holder
    auth_chunk,     \* the header of every request: "null", "good" or "bad"
    token,          \* the access token in memory: "good" or "bad"
    drive,          \* where the Drive thread is
    pc,             \* where each worker is
    file,           \* the file a worker opens
    header,         \* the header curl was given for the worker's download
    received,       \* how much of it the worker has passed to fwrite
    fh,             \* the descriptor a worker works on
    off,            \* the block a worker is asked to read
    handles,        \* the file each descriptor is open on
    pos,            \* the offset of each descriptor
    announced,      \* history: the thread has set auth_chunk in this process
    disturbed,      \* history: the files whose download something befell
    overlapped,     \* history: the workers whose read met another on its descriptor
    failures, crashes

cacheVars == <<disk, disturbed>>
lockVars == <<dbcache_mutex, auth_mutex>>
driveVars == <<auth_chunk, token, drive, announced>>
openVars == <<file, header, received>>
readVars == <<off, pos, overlapped>>
countVars == <<failures, crashes>>
vars == <<cacheVars, lockVars, driveVars, pc, openVars, fh, handles, readVars, countVars>>

Contents == 0..Size \cup {Refusal}
Downloading == {"header", "transfer", "fclose"}
Locked == {"stat", "fopen", "open", "unlock"} \cup Downloading
Reading == {"seek", "read"}

TypeOK ==
    /\ disk \in [Files -> Contents \cup {Absent}]
    /\ dbcache_mutex \in Workers \cup {Drive, None}
    /\ auth_mutex \in {Drive, None}
    /\ auth_chunk \in {"null", "good", "bad"}
    /\ token \in {"good", "bad"}
    /\ drive \in {"refresh", "lock", "append", "scan", "update"}
    /\ pc \in [Workers -> {"idle"} \cup Locked \cup Reading]
    /\ file \in [Workers -> Files \cup {None}]
    /\ header \in [Workers -> {"null", "good", "bad"}]
    /\ received \in [Workers -> Contents]
    /\ fh \in [Workers -> Handles \cup {None}]
    /\ off \in [Workers -> 0..Size]
    /\ handles \in [Handles -> Files \cup {Closed}]
    /\ pos \in [Handles -> Nat]
    /\ announced \in BOOLEAN
    /\ disturbed \subseteq Files
    /\ overlapped \subseteq Workers
    /\ failures \in Nat /\ crashes \in Nat

Init ==
    /\ disk = [f \in Files |-> Absent] /\ disturbed = {}
    /\ dbcache_mutex = None /\ auth_mutex = None
    /\ auth_chunk = "null" /\ token = "bad" /\ drive = "refresh" /\ announced = FALSE
    /\ pc = [w \in Workers |-> "idle"]
    /\ file = [w \in Workers |-> None]
    /\ header = [w \in Workers |-> "null"]
    /\ received = [w \in Workers |-> 0]
    /\ fh = [w \in Workers |-> None]
    /\ off = [w \in Workers |-> 0]
    /\ handles = [h \in Handles |-> Closed]
    /\ pos = [h \in Handles |-> 0]
    /\ overlapped = {}
    /\ failures = 0 /\ crashes = 0

Goto(w, from, to) == pc[w] = from /\ pc' = [pc EXCEPT ![w] = to]

Fail == failures < MaxFailures /\ failures' = failures + 1 /\ UNCHANGED crashes

-----------------------------------------------------------------------------
(* fuseapi_open, from the lock to the unlock of dbcache_findbypath          *)

Lock(w, f) ==
    /\ Goto(w, "idle", "stat")
    /\ dbcache_mutex = None /\ dbcache_mutex' = w
    /\ file' = [file EXCEPT ![w] = f]
    /\ UNCHANGED <<cacheVars, auth_mutex, driveVars, header, received, fh, handles, readVars,
                   countVars>>

\* Mutation: an empty file is fetched again.
Stat_again(w) ==
    /\ Goto(w, "stat", IF disk[file[w]] \in {Absent, 0} THEN "fopen" ELSE "open")
    /\ UNCHANGED <<cacheVars, lockVars, driveVars, openVars, fh, handles, readVars, countVars>>

\* A file that is there, whatever is in it, is not fetched again; any other error
\* than ENOENT is the answer.
Stat(w) ==
    /\ \/ Goto(w, "stat", IF disk[file[w]] = Absent THEN "fopen" ELSE "open") /\ UNCHANGED countVars
       \/ Goto(w, "stat", "unlock") /\ Fail
    /\ UNCHANGED <<cacheVars, lockVars, driveVars, openVars, fh, handles, readVars>>

\* Mutation: the failure of fopen is returned with the mutex held.
Fopen_returns(w) ==
    /\ \/ /\ Goto(w, "fopen", "header")
          /\ disk' = [disk EXCEPT ![file[w]] = 0]
          /\ UNCHANGED countVars
       \/ Goto(w, "fopen", "idle") /\ Fail /\ UNCHANGED disk
    /\ UNCHANGED <<disturbed, lockVars, driveVars, openVars, fh, handles, readVars>>

\* Made empty, or, if fopen fails, -ENOENT for an answer.
Fopen(w) ==
    /\ \/ /\ Goto(w, "fopen", "header")
          /\ disk' = [disk EXCEPT ![file[w]] = 0]
          /\ UNCHANGED countVars
       \/ Goto(w, "fopen", "unlock") /\ Fail /\ UNCHANGED disk
    /\ UNCHANGED <<disturbed, lockVars, driveVars, openVars, fh, handles, readVars>>

\* curl is given auth_chunk, whatever it is: NULL until the Drive thread has set it.
TakeHeader(w) ==
    /\ Goto(w, "header", "transfer")
    /\ auth_mutex = None
    /\ header' = [header EXCEPT ![w] = auth_chunk]
    /\ received' = [received EXCEPT ![w] = 0]
    /\ disturbed' = IF auth_chunk = "bad" \/ ~announced THEN disturbed \cup {file[w]} ELSE disturbed
    /\ UNCHANGED <<disk, lockVars, driveVars, file, fh, handles, readVars, countVars>>

\* fwrite buffers: what has been received may be on disk or not.
Write(w, c) ==
    /\ received' = [received EXCEPT ![w] = c]
    /\ disk' = [disk EXCEPT ![file[w]] = c] \/ UNCHANGED disk

\* Mutation: a block too many is taken for the file's.
Receive_beyond(w) ==
    /\ pc[w] = "transfer" /\ header[w] = "good" /\ received[w] \in 0..Size
    /\ Write(w, received[w] + 1)
    /\ UNCHANGED <<disturbed, lockVars, driveVars, pc, file, header, fh, handles, readVars,
                   countVars>>

\* The next block of the file.
Receive(w) ==
    /\ pc[w] = "transfer" /\ header[w] = "good" /\ received[w] \in 0..(Size - 1)
    /\ Write(w, received[w] + 1)
    /\ UNCHANGED <<disturbed, lockVars, driveVars, pc, file, header, fh, handles, readVars,
                   countVars>>

\* Without a valid token the Drive answers with an error, and that is the file.
Refuse(w) ==
    /\ Goto(w, "transfer", "fclose")
    /\ header[w] # "good"
    /\ Write(w, Refusal)
    /\ UNCHANGED <<disturbed, lockVars, driveVars, file, header, fh, handles, readVars, countVars>>

\* The transfer breaks off, or is answered by some other error: nobody looks.
BreakOff(w) ==
    /\ Goto(w, "transfer", "fclose")
    /\ Fail
    /\ \/ Write(w, Refusal) /\ received[w] = 0
       \/ UNCHANGED <<disk, received>>
    /\ disturbed' = disturbed \cup {file[w]}
    /\ UNCHANGED <<lockVars, driveVars, file, header, fh, handles, readVars>>

Complete(w) ==
    /\ Goto(w, "transfer", "fclose")
    /\ header[w] = "good" /\ received[w] = Size
    /\ UNCHANGED <<cacheVars, lockVars, driveVars, openVars, fh, handles, readVars, countVars>>

\* fscache_fclose flushes, then fuseapi_open goes on to open(2).
Fclose(w) ==
    /\ Goto(w, "fclose", "open")
    /\ disk' = [disk EXCEPT ![file[w]] = received[w]]
    /\ received' = [received EXCEPT ![w] = 0] /\ header' = [header EXCEPT ![w] = "null"]
    /\ UNCHANGED <<disturbed, lockVars, driveVars, file, fh, handles, readVars, countVars>>

Open(w) ==
    /\ Goto(w, "open", "unlock")
    /\ \/ \E h \in Handles :
             /\ handles[h] = Closed
             /\ handles' = [handles EXCEPT ![h] = file[w]]
             /\ pos' = [pos EXCEPT ![h] = 0]
             /\ fh' = [fh EXCEPT ![w] = h]
             /\ UNCHANGED countVars
       \/ /\ Fail \/ (UNCHANGED countVars /\ \A h \in Handles : handles[h] # Closed)
          /\ UNCHANGED <<handles, pos, fh>>
    /\ UNCHANGED <<cacheVars, lockVars, driveVars, openVars, off, overlapped>>

Unlock(w) ==
    /\ Goto(w, "unlock", "idle")
    /\ dbcache_mutex' = None
    /\ file' = [file EXCEPT ![w] = None] /\ fh' = [fh EXCEPT ![w] = None]
    /\ UNCHANGED <<cacheVars, auth_mutex, driveVars, header, received, handles, readVars,
                   countVars>>

-----------------------------------------------------------------------------
(* fuseapi_read and fuseapi_release, which take no lock                     *)

\* The kernel has been told of the descriptor: the open that returned it is over.
Usable(h) == handles[h] # Closed /\ \A v \in Workers : ~(pc[v] = "unlock" /\ fh[v] = h)

OnHandle(h) == {v \in Workers : pc[v] \in Reading /\ fh[v] = h}

\* Mutation: the descriptor is read where it stands.
Read_there(w, h, o) ==
    /\ Goto(w, "idle", "read")
    /\ Usable(h)
    /\ fh' = [fh EXCEPT ![w] = h]
    /\ off' = [off EXCEPT ![w] = o]
    /\ overlapped' = IF OnHandle(h) = {} THEN overlapped ELSE overlapped \cup OnHandle(h) \cup {w}
    /\ UNCHANGED <<cacheVars, lockVars, driveVars, openVars, handles, pos, countVars>>

\* Two threads may be given reads on one descriptor: the kernel reads ahead.
Read(w, h, o) ==
    /\ Goto(w, "idle", "seek")
    /\ Usable(h)
    /\ fh' = [fh EXCEPT ![w] = h]
    /\ off' = [off EXCEPT ![w] = o]
    /\ overlapped' = IF OnHandle(h) = {} THEN overlapped ELSE overlapped \cup OnHandle(h) \cup {w}
    /\ UNCHANGED <<cacheVars, lockVars, driveVars, openVars, handles, pos, countVars>>

Lseek(w) ==
    /\ Goto(w, "seek", "read")
    /\ pos' = [pos EXCEPT ![fh[w]] = off[w]]
    /\ UNCHANGED <<cacheVars, lockVars, driveVars, openVars, fh, handles, off, overlapped,
                   countVars>>

\* read(2) returns the block at the descriptor's offset, if there is one, and moves on.
ReadBlock(w) ==
    LET h == fh[w]
        c == disk[handles[h]]
    IN  /\ Goto(w, "read", "idle")
        /\ pos' = IF c \in 0..pos[h] THEN pos ELSE [pos EXCEPT ![h] = @ + 1]
        /\ fh' = [fh EXCEPT ![w] = None] /\ off' = [off EXCEPT ![w] = 0]
        /\ overlapped' = overlapped \ {w}
        /\ UNCHANGED <<cacheVars, lockVars, driveVars, openVars, handles, countVars>>

\* The kernel releases a descriptor when no read on it is under way.
Release(h) ==
    /\ Usable(h) /\ OnHandle(h) = {}
    /\ handles' = [handles EXCEPT ![h] = Closed]
    /\ pos' = [pos EXCEPT ![h] = 0]
    /\ UNCHANGED <<cacheVars, lockVars, driveVars, pc, openVars, fh, off, overlapped, countVars>>

-----------------------------------------------------------------------------
(* The Drive thread                                                         *)

DriveGoto(from, to) == drive = from /\ drive' = to

restOfDrive == <<cacheVars, pc, openVars, fh, handles, readVars>>

\* At the start, and when the token has expired; a failure leaves no token at all.
RefreshTokens ==
    /\ DriveGoto("refresh", "lock")
    /\ \/ token' = "good" /\ UNCHANGED countVars
       \/ token' = "bad" /\ Fail
    /\ UNCHANGED <<restOfDrive, lockVars, auth_chunk, announced>>

\* Mutation: auth_chunk is set anew without auth_mutex.
ClearHeader_unlocked ==
    /\ DriveGoto("lock", "append")
    /\ auth_chunk' = "null"
    /\ UNCHANGED <<restOfDrive, lockVars, token, announced, countVars>>

ClearHeader ==
    /\ DriveGoto("lock", "append")
    /\ auth_mutex = None /\ auth_mutex' = Drive
    /\ auth_chunk' = "null"
    /\ UNCHANGED <<restOfDrive, dbcache_mutex, token, announced, countVars>>

AppendHeader ==
    /\ DriveGoto("append", "scan")
    /\ auth_mutex' = None
    /\ auth_chunk' = token
    /\ announced' = TRUE
    /\ UNCHANGED <<restOfDrive, dbcache_mutex, token, countVars>>

\* dbcache_update, which recurse calls again and again, for as long as it takes.
LockUpdate ==
    /\ DriveGoto("scan", "update")
    /\ dbcache_mutex = None /\ dbcache_mutex' = Drive
    /\ UNCHANGED <<restOfDrive, auth_mutex, auth_chunk, token, announced, countVars>>

UnlockUpdate ==
    /\ DriveGoto("update", "scan")
    /\ dbcache_mutex' = None
    /\ UNCHANGED <<restOfDrive, auth_mutex, auth_chunk, token, announced, countVars>>

\* Back in the outer loop.
Renew ==
    /\ DriveGoto("scan", "refresh")
    /\ UNCHANGED <<restOfDrive, lockVars, auth_chunk, token, announced, countVars>>

\* The Drive stops accepting a token, one that a long scan has outlived for instance.
Expire ==
    /\ auth_chunk = "good"
    /\ auth_chunk' = "bad"
    /\ token' = IF drive = "lock" THEN token ELSE "bad"
    /\ UNCHANGED <<restOfDrive, lockVars, drive, announced, countVars>>

\* The process is killed, and started again with the files on disk and nothing else.
Crash ==
    /\ crashes < MaxCrashes /\ crashes' = crashes + 1
    /\ disturbed' = disturbed \cup {file[w] : w \in {v \in Workers : pc[v] \in Downloading}}
    /\ dbcache_mutex' = None /\ auth_mutex' = None
    /\ auth_chunk' = "null" /\ token' = "bad" /\ drive' = "refresh" /\ announced' = FALSE
    /\ pc' = [w \in Workers |-> "idle"]
    /\ file' = [w \in Workers |-> None]
    /\ header' = [w \in Workers |-> "null"]
    /\ received' = [w \in Workers |-> 0]
    /\ fh' = [w \in Workers |-> None]
    /\ off' = [w \in Workers |-> 0]
    /\ handles' = [h \in Handles |-> Closed]
    /\ pos' = [h \in Handles |-> 0]
    /\ overlapped' = {}
    /\ UNCHANGED <<disk, failures>>

-----------------------------------------------------------------------------

Download(w) == TakeHeader(w) \/ Receive(w) \/ Refuse(w) \/ BreakOff(w) \/ Complete(w)

WorkerStep(w) ==
    \/ Stat(w) \/ Fopen(w) \/ Download(w) \/ Fclose(w) \/ Open(w) \/ Unlock(w)
    \/ Lseek(w) \/ ReadBlock(w)

Request ==
    \/ \E w \in Workers, f \in Files : Lock(w, f)
    \/ \E w \in Workers, h \in Handles, o \in 0..Size : Read(w, h, o)
    \/ \E h \in Handles : Release(h)

DriveStep ==
    \/ RefreshTokens \/ ClearHeader \/ AppendHeader \/ LockUpdate \/ UnlockUpdate \/ Renew

Next == Request \/ (\E w \in Workers : WorkerStep(w)) \/ DriveStep \/ Expire \/ Crash

Spec == Init /\ [][Next]_vars

(* Threads are scheduled, also those that wait for a mutex which is free    *)
(* again and again, as auth_mutex is but for an instant every minute or     *)
(* more; and every transfer comes to an end: curl is given no timeout, so   *)
(* this is asked of the network.                                            *)
FairSpec ==
    /\ Spec
    /\ \A w \in Workers : WF_vars(WorkerStep(w)) /\ SF_vars(TakeHeader(w))
    /\ WF_vars(AppendHeader) /\ WF_vars(UnlockUpdate)

-----------------------------------------------------------------------------
(* Properties                                                               *)

(* A descriptor is open only on a file that is whole, unless something      *)
(* befell its download: nobody reads a file that another thread is still    *)
(* fetching or has not flushed, and no request is sent in between the       *)
(* NULLing of auth_chunk and the setting of the new header.                 *)
CacheWhole ==
    \A h \in Handles :
        handles[h] # Closed /\ handles[h] \notin disturbed => disk[handles[h]] = Size

(* A read that met no other on its descriptor reads where it was asked to.  *)
LoneReadsRight ==
    \A w \in Workers \ overlapped : pc[w] = "read" => pos[fh[w]] = off[w]

\* What has been published of a file: all that is on disk, once nobody is fetching it.
Published ==
    [f \in Files |->
        IF \E w \in Workers : pc[w] \in Downloading /\ file[w] = f THEN Absent ELSE disk[f]]

S == INSTANCE FileStore WITH content <- Published

(* The cache is a store of files that are written once: what an open file   *)
(* holds never changes, nor what a file holds that has been fetched, over   *)
(* all crashes and restarts.                                                *)
StoreSpec == S!Spec

(* Nobody keeps dbcache_mutex, on which every operation of the mount waits, *)
(* for good, not even for a download that fails, and not by waiting for     *)
(* auth_mutex at the same time as the Drive thread waits for the other.     *)
MutexReleased ==
    \A w \in Workers \cup {Drive} : (dbcache_mutex = w) ~> (dbcache_mutex # w)

(* "if(noff != off)" (fscache.c:86): the read that follows starts at the    *)
(* offset that was asked for.  It does not, if between the two calls        *)
(* another thread seeks or reads on the same descriptor: neither is locked. *)
SeekHolds == \A w \in Workers : pc[w] = "read" => pos[fh[w]] = off[w]

=============================================================================
