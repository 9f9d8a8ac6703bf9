# drive-fuse-sync in TLA+

drive-fuse-sync mounts a Google Drive as a directory. One process runs a
*Drive thread*, which scans the Drive into a SQLite table, and the threads of
libfuse, which answer the kernel from that table and fetch the content of a
file when it is first opened. This directory models the program: what it keeps,
every step that changes it, what the steps promise together, and proofs of the
promises that matter most.

`src/` below is the repository; `dbcache.c:329` means `src/src/dbcache.c`, line
329. As committed, the source files begin with an uncommented licence text and
do not compile; the models are of the code below it.

## 1. Inventory

| part | source | state | operations |
|---|---|---|---|
| metadata cache | `dbcache.c` | tables `dfs_entry`, `dfs_change`, `dfs_token`; the prepared statements; `dbcache_mutex` | `dbcache_update`, `_mkdir`, `_rmdir`, `_findbypath`, `_listdir`, `_change_load/_store`, `_auth_load/_store`, `_setup_schema` |
| Drive thread | `driveapi.c` | `changeid`, `auth_chunk`, tokens, the C stack of `recurse`, `keep_running` | `drive_run`, `recurse`, `get_start_token`, `get_changes`, `refresh_tokens`, `drive_start/_stop` |
| FUSE, names | `fuseapi.c` | none of its own | `getattr`, `readdir`, `mkdir`, `rmdir` |
| FUSE, content | `fuseapi.c`, `fscache.c`, `drive_download` | the cache directory, open descriptors and their offsets | `open`, `read`, `release` |
| tokens | `driveapi.c`, `dfs_token` | token type, access and refresh token, `expires_in`, `expiration_time` | `authorize`, `get_tokens`, `refresh_tokens` |
| JSON streaming | `parse_json`, `driveapi.c` | the tokener and the result pointer of one request | one call for each chunk of a body |
| lifecycle | `main.c` | the directory of the database, the schema, connections and prepared statements | `main`, `drive_setup`, `dbcache_open`, `_setup_schema`, `_setup`, `_close` |
| logging, command line, build | `log.c`, `main.c`, autotools | - | - |

How they interact:

* The Drive thread writes `dfs_entry` with `dbcache_update` and the libfuse
  threads with `dbcache_mkdir` and `dbcache_rmdir`; the latter two and the
  change token take **no** mutex.
* All threads share one connection and one set of prepared statements; `mkdir`
  and `rmdir` use, without the mutex, statements that `update`, `findbypath` and
  `listdir` use with it.
* `authorize` waits for a request whose chunks libcurl hands to `parse_json`.
  Its result goes to memory, to `dfs_token` and, later, into the header.
* `fuseapi_open` runs as a callback of `dbcache_findbypath`, so with
  `dbcache_mutex` held, and within it the whole download, which takes
  `auth_mutex` to read the header `auth_chunk` that the Drive thread renews.
* `drive_stop` clears `keep_running` and joins the thread; `recurse` does not
  look at `keep_running`.
* The table and the cache directory survive the process. Nothing else does.

What is hard here, and what correctness means:

* **A scan is long and not isolated.** It takes a request for every file, during
  which the Drive is edited, requests fail, FUSE changes the table, and the
  process is stopped or killed; the next process scans on top of what is there.
  The table must stay well formed, hold no file where it never was, and, after
  a scan nothing disturbed, show the Drive.
* **Answers go stale.** The listing of a folder is used for as long as it takes
  to walk it, and no result of a request is examined.
* **A cached file is fetched once and trusted for ever**, through crashes in the
  middle of its download. Two threads must never fetch or see it half written.
* **Shared descriptors and mutexes.** `lseek` and `read` on one descriptor are
  not atomic; a download holds the mutex everything else waits for.
* **Shared statements.** A function of the cache is a dozen calls on statements
  another thread may be in the middle of.
* **Tokens expire.** The program reckons with a time of its own, stored in an
  `int`, while the request takes time, fails half way, or the process dies.
* **Setup is not a transaction,** and opens the database before it makes the
  directory it lies in.
* **Ending.** Scans and stops must come to an end, a process left running must
  finish the mirror.

`PROJECT.json` lists each hazard at its line with the properties that watch it,
or the reason why none does.

## 2. Modules

| module | models |
|---|---|
| `DbCache` | `dfs_entry` and `dfs_change`, one operator for each query and each `dbcache_*` function that changes them |
| `DriveSync` | extends it: the Drive thread, the Drive, FUSE's mkdir and rmdir, stop, restart, crash |
| `Mirror` | the abstract promise of the two: a tree of files that grows until a token freezes it |
| `MCDriveSync` | instances for TLC |
| `FileCache` | open, download, read, release, the two mutexes, the header, the Drive thread as far as it shares these, crash |
| `FileStore` | its abstract promise: a store of files that are written once |
| `MCFileCache` | instances for TLC |
| `DbStatements` | extends `DbCache`: its functions statement by statement, by many threads, with the mutex or without |
| `MCDbStatements` | an instance for TLC |
| `JsonStream` | a request whose answer is parsed chunk by chunk |
| `Auth` | extends it: the tokens, `authorize`, setup, `drive_run`'s loops, time, crash |
| `Startup` | `main`, the schema, connections and statements, crash, upgrade |
| `DbCacheProofs` | lemmas on the table: a query's first row, one row updated, one row added |
| `DriveSyncProofs`, `MirrorProofs`, `ScanProofs` | the theorems of `DriveSync`, on those lemmas: safety, refinement, what a scan brings |
| `DbStatementsProofs` | the theorems of `DbStatements` |
| `FileCacheProofs`, `AuthProofs`, `StartupProofs` | the theorems of the other three |

`DriveSync`, `FileCache`, `DbStatements`, `Auth` and `Startup` each look at the
program from one side and share little state: what one leaves out is covered
there by a choice. `DriveSync` takes the functions of the cache for atomic,
which `DbStatements` justifies for calls that do not meet in a statement
(`LoneCallsLinear`, proved); its
failed requests and stale answers are what `JsonStream` says `parse_json` may
leave; its expiring token is `Auth`'s; its initial table is what a setup of
`Startup` ends with, unless a directory was made in a half made table before
(`early`): the root is then another row than 1, if there is one, where
`DriveSync`, like the code, relies on 1. These joints are read off the properties, they are not proved refinements.

### DbCache and DriveSync: the correspondence

`entries` is `dfs_entry`: no statement deletes a row, so the ids are 1, 2, ...
and row `i` is `entries[i]`; row 1 is the root. Sizes, modes and times are left
out. `sync` is kept (0 made by FUSE, 1 from the Drive, -1 removed by FUSE).
`change` is the one row of `dfs_change`.

`pc`, `alias`, `got`, `jroot`, `stack`, `changeid` are the Drive thread: where it
is in `drive_run` and `recurse`, the argument and the fields of the current call,
what an earlier call of each depth left in its uninitialised `jroot`, the files
each active call has yet to visit, and the token in memory. A step is one
request to Drive, one dbcache call, or one turn of a loop. The order in which
Drive lists a folder is any.

| code | action |
|---|---|
| `drive_run` 395-415, outer loop, `dbcache_change_load` | `LoadChange` |
| `get_start_token` | `GetStartToken` |
| `recurse` 219-312, the details of a file | `QueryDetails` |
| `recurse` 314-317, `dbcache_update` | `UpdateEntry` |
| `recurse` 319-351, the listing | `ListFolder` |
| `recurse` 352-374, the loop over it and the return | `Descend`, `Return`, `ScanDone` |
| `dbcache_change_store` 421 | `StoreChange` |
| the inner loop 424-453: `keep_running` and `get_changes`, a minute, expiry | `GetChanges`, `IdleAgain`, `IdleExpired` |
| `drive_stop`, the end of the outer loop, the next process | `Stop`, `Exit`, `Restart`, `Crash` |
| `fuseapi_mkdir`, `fuseapi_rmdir` | `FuseMkdir`, `FuseRmdir` |
| edits on the Drive (not in the code) | `RemoteMove`, `RemoteRename`, `RemoteRemove` |

Decisions worth knowing:

* A request that fails, or is answered by an error, leaves all fields empty;
  one with no answer at all leaves `jroot` uninitialised, and what an earlier
  call of the same depth left on the C stack may be read:
  `got' \in {EmptyAnswer, StaleAnswer}`. After a failed listing `jroot` still
  holds the details, which have no `files`: nothing is visited. A listing cut
  after its first page is a failure of its own kind.
* `dbcache_mkdir` and `dbcache_rmdir` never advance beyond the first component
  and read the parent's id from a column the query does not have (0): below the
  top level both act on the first name under parent 0. The model does the same.
* The kernel looks a name up before mkdir and rmdir, but its entry cache and
  the missing mutex make that answer stale, so both are accepted on any path.
* A file has one parent: the code takes `parents[0]`. Files shared with the
  user that have no parent are not in the model.
* A removed file is removed for good: its details are answered by an error.
* History variables: `placed`, every (file, folder) the Drive ever had; `lost`,
  what may have made the current scan miss something.

### FileCache: the correspondence

`disk` says how many blocks of each file are on disk (or none, or an error
message of the Drive's instead), `handles` and `pos` are descriptors and
offsets, `dbcache_mutex`, `auth_mutex`, `auth_chunk` have their names. A step is
one call into the C library, or one pass of a mutex.

| code | action |
|---|---|
| `dbcache_findbypath` 668, 739 | `Lock`, `Unlock` |
| `fscache_stat`, `_fopen`, `_fclose`, `_open` in `fuseapi_open` | `Stat`, `Fopen`, `Fclose`, `Open` |
| `drive_download` 153-155, the header | `TakeHeader` |
| `curl_easy_perform` | `Receive`, `Complete`, `Refuse` (an error for want of a token), `BreakOff` (anything else) |
| `fscache_read` 85, 91 | `Lseek`, `ReadBlock` |
| `fuseapi_release` | `Release` |
| `drive_run` 395-410, 447-451 | `RefreshTokens`, `ClearHeader`, `AppendHeader`, `Renew` |
| `dbcache_update` 342, 418 | `LockUpdate`, `UnlockUpdate` |
| process killed and started | `Crash` |

`fwrite` buffers, so a received block may be on disk or not until `Fclose`. curl
is not told to fail on an HTTP error, so the error body becomes the file. The
results of `curl_easy_perform` and of the download are ignored, so a broken
download is opened like a good one and, since `stat` then finds it, kept.
`auth_chunk` is NULL until the thread first sets it: a file opened in that
window gets the error too. `disturbed` records the files this may have befallen,
`overlapped` the reads that met another on their descriptor. The thread's other
requests hold `auth_mutex` for an instant only and are left out, as are the
metadata operations, which contend for `dbcache_mutex` exactly as `LockUpdate`
does. A descriptor is used only after the open that returned it, and released
when no read on it is under way: that is the kernel's doing. Changes of a file's
content on the Drive are not modelled.

### DbStatements: the correspondence

A thread is a libfuse thread or the Drive thread. `frame[t]` is its call: the
function (`op`), its argument, the program counter, and the C locals `parent`
and `id`; `depth` counts the names of the path used. A step is one
`sqlite3_reset`, `_bind_*`, `_step` or the read of the columns. `selbynampar`
(used by five functions), `insertentry` (by update and mkdir) and `updsyncdelid`
(rmdir) are modelled with their bound parameters and whether they are reset, on
a row, or at their end. `selbyuuid`, `updbyid`, `selbypar` and `selbyid` are
each used by one locked function, so a lookup with them is one step.

| code | action |
|---|---|
| `fuseapi_getattr`, `_readdir`, `_mkdir`, `_rmdir`; the calls of `recurse` | `FuseCall`, `DriveCall` (`Begin`) |
| `pthread_mutex_lock`, `_unlock` in `update`, `findbypath`, `listdir` | `Lock`, `Return` |
| the loop over the names of a path | `Reset`, `BindName`, `BindParent`, `Step`, `ReadId` |
| `findbypath` of `/`, `listdir` 853 | `FindRoot`, `NextRow` |
| `rmdir`: type, mark | `ReadType`, `ResetMark`, `BindId`, `Mark` |
| `update`: selbyuuid twice, updbyid | `LookupUuid`, `LookupParent`, `FileEntry` |
| `insertentry` in `update` and `mkdir` | `ResetInsert`, `BindFields`, `Insert` |

What SQLite does with a statement two threads use at once is external and is
modelled as SQLite 3.40 behaves: parameters survive a reset; a bind on a
statement that is not reset fails (`SQLITE_MISUSE`) and is ignored here; a step
at the end starts over; a column that does not exist, or is read off a row, is
0. Texts are bound by pointers into the caller's stack (`SQLITE_STATIC`); a torn
row inserted after its caller has returned may have any name, and the model gives
it the one that was bound. The kernel holds the lock of a directory while it makes or removes a name in
it, so two `mkdir`s of one directory do not meet (`KernelAllows`), while two of
different directories, and a lookup or an update with either, do.

History: `seen[t]` is everything the call would have done if it had been made in
one piece at one of the moments since it began; `disturbed[t]` says that a call
without the mutex touched a statement while `t` was using it, or `t` without the
mutex used a statement somebody touched; `overlapped`, that this has happened.
When calls do meet, a row may be torn (the name of one, the parent of the other)
or inserted twice, and a mark may be set on any row: no property says otherwise,
and `RowsKeepIdentity` says what even then does not happen. An unlocked call
that no other one meets is still not quite atomic: below the top level `mkdir`
and `rmdir` look for the first name, and act, at two moments (`Walked`).

### JsonStream and Auth: the correspondence

`JsonStream` has the body of one answer: `ValueLen` units of JSON and blanks
behind it, of which `reach` arrive, cut into chunks in every way. `pointer` is
what `*context->pointer` holds. `parse_json` sets it with every chunk: to the
object with the chunk that completes it, to NULL with any other, **also with a
chunk of blanks behind the object**: an answer whose last chunk is white space
is lost. The callers do not initialise the pointer, so when nothing arrives it
is whatever the stack holds, which may be the object of an earlier call.

`Auth` keeps times as what is left: `access` is for how long Drive will go on
accepting a copy of a token, `left` for how long the program reckons with it
(until `expiration_time`). `Tick` ages every copy. `elapsed` is the time since
`authorize` took the time, before the request; `int_left`, the time until
`INT_MAX`, beyond which `dbcache_auth_store`'s cast makes the time one long past.

| code | action |
|---|---|
| `main` with and without `--setup`, `drive_stop`, a kill | `Start`, `Stop`, `Crash` |
| `dbcache_auth_load` in `drive_run` | `Load` |
| `drive_run`: is the token expired; `auth_chunk`; the idle loop | `CheckExpired`, `MakeHeader`, `IdleExpired` |
| `authorize` up to the request, `refresh_tokens`, `get_tokens` | `Authorize`, `AnyRequest`, `GoodRequest` |
| `parse_json` | `Chunk` |
| `authorize` after the request: the fields, 5/6 of the lifetime | `Take` |
| `dbcache_auth_store` | `Store` |

A request with an empty or "(invalid)" refresh token is refused by Drive. An
answer of no use, or none, leaves the access token empty, and the program stores
that, makes a header of it, and tries again a minute later, having kept the
refresh token. `drive_setup` does store the refresh token of its answer, none if
there is none: it is the exception in `RefreshKept`. `misled` marks tokens taken
from a stale object: they may be believed in although they have expired.

### Startup: the correspondence

`basedir`, `tables` and `rows` are what is on disk, statement by statement as
`dbcache_setup_schema` makes it (`Schema`; the indexes are left out); SQLite
commits each by itself. `sql`, `open` and `stmts` are the connection, the
connections that are open, and the prepared statements: of which tables, on
which connection.

| code | action |
|---|---|
| `main` 59-60, `dbcache_open` | `OpenFirst` |
| `dbcache_setup_schema` 88-185 | `SchemaStep`, `VersionMismatch` |
| `dbcache_setup` | `Prepare` |
| `drive_setup` (an empty code exits) | `DriveSetup` |
| `dbcache_close` | `Close` |
| `main` 70, `mkdir` | `Mkdir` |
| `dbcache_open` 83 and `dbcache_setup` without `--setup` | `Reopen`, `Prepare` |
| end of `main` | `Unmount` |
| `fuseapi_mkdir` on a table that may be half made | `MakeDirectory` |
| `dbcache_update` of the Drive's root 407-416 on such a table | `UpdateRoot` |
| kill, another version of the program | `Crash`, `Upgrade` |

A row of `dfs_entry` is the root `setup` inserts, a directory, or a directory
that has lost its parent: the Drive thread's first update sets the parent of row
1 to NULL, whatever row that is, and `dbcache_setup_schema` inserts the root only
where no row has a NULL parent. So after a setup killed before the root and a
mount that made a directory, the next setup makes `/` row 2 or, once a scan has
begun, makes none: row 1, which the rest of the code takes for the root
(`dbcache.c:442`), never becomes it (`SetupCompletes`).

Three more things the model brings out. On a fresh home `--setup` ends at once,
because the directory it opens a database in is made later; a run *without*
`--setup` makes it. Such a run has a database without tables, its prepared
statements are NULL, and nobody notices. And `dbcache_close` after setup does
not close: the connection has statements, `sqlite3_close` says BUSY, and the
mount lives on the statements of the connection it has lost.

## 3. What the runs show

| run | properties | result |
|---|---|---|
| `drive_scan` | `TypeOK`, `TableInv`, `TombstonesAreFolders`, `PlacementOnceTrue`, `FuseSeesDrive`, `RowsKeepIdentity`, `MirrorSpec` | hold |
| `drive_live` | `PlacementOnceTrue`, `MirrorSpec`, `StopExits`, `ScanEnds`, `TokenStored` | hold, the last three under `FairSpec` |
| `file_cache` | `TypeOK`, `CacheWhole`, `LoneReadsRight`, `StoreSpec` | hold |
| `file_live` | `MutexReleased` | holds under `FairSpec` |
| `statements` | `TypeOK`, `LoneCallsLinear`, `LoneTableSound`, `RowsKeepIdentity` | hold |
| `auth` | `TypeOK`, `WholeOrNothing`, `BeliefSound`, `RefreshKept`, `TokenRenewed` | hold, the last under `FairSpec` |
| `startup` | `TypeOK`, `OneOfEach`, `SetupCompletes`, `StatementsUsable`, `Installed` | hold, the last under `FairSpec` |
| `orphan_dirs` | `ForeignKey` | violated: a directory made below the top level is filed under 0 (`dbcache.c:487`), against the foreign key the schema declares (`dbcache.c:134`) |
| `root_clobber` | `RootKnown` | violated: an error about a removed file is stored as the root's row (`dbcache.c:408`), and the root's other files are then refused |
| `rename_stale` | `NamesCurrent` | violated: a row once written keeps its name (`dbcache.c:350`) |
| `page_lost` | `NextRunResumes` | violated: "save for next run" (`driveapi.c:347`) saves nothing |
| `seek_race` | `SeekHolds` | violated: another thread moves the offset between `lseek` and `read` (`fscache.c:85`) |

The properties in words:

* `TableInv`: one root row that stays row 1; a Drive file is filed under a row
  there is, and a directory FUSE made under row 1 or under 0; at most one row for
  each Drive file, although nothing but the order of the code's queries prevents
  two. 0 is no row, and FUSE's directories below the top level are filed there:
  for them the schema's foreign key, which SQLite does not enforce unless asked,
  does not hold, and `ForeignKey`, which states it, is violated.
* `PlacementOnceTrue`: a Drive file is filed only under a folder it was in at
  some time. `RowsKeepIdentity`: no step turns one entry into another.
* `TombstonesAreFolders`: rmdir's mark is on directories, never on the root.
* `FuseSeesDrive`: once a scan that nothing disturbed has been recorded, every
  path leads to the row of its file and every listing shows the children,
  whatever came before. Excluded (`Shadowed`) are paths with a name that a row
  bears and its file does not, or the other way round: a directory made by FUSE,
  a file removed or renamed since an earlier scan. Such rows are never deleted
  or renamed (`rename_stale`).
* `MirrorSpec`: refinement of `Mirror`. `StoreSpec`: refinement of `FileStore`.
* `CacheWhole`: an open descriptor is on a whole file unless its download was
  disturbed. `LoneReadsRight`: a read alone on its descriptor reads where asked.
* `LoneCallsLinear`: a call that met nobody in a statement did, and answered,
  what it would have all at once at some moment since it began.
  `LoneTableSound`: as long as no calls met, there is one row at most for a
  Drive file, and marks are on directories. `RowsKeepIdentity` (of
  `DbStatements`): whatever meets whatever, a row keeps its name, its type and,
  but for the root, its Drive id, and only Drive's files are filed elsewhere.
* `WholeOrNothing`: what a caller of a request is left with, for every way to
  cut the body. `BeliefSound`: while the program takes its token for valid, so
  does Drive, for the token in memory and the one in the header.
  `RefreshKept`: only `drive_setup` loses the stored refresh token.
* `OneOfEach`, `SetupCompletes`: setups may be killed anywhere and repeated, the
  half made table mounted in between, and no `/`, token, change or version is
  inserted twice and no table is missing; every test of the setup that comes to
  its end has found or made its row. The root is row 1, and the only row without
  a parent, unless a directory preceded it (`early`); then no setup ever makes
  it row 1. `StatementsUsable`: who serves the mount has statements on an open
  connection.
* `StopExits`: a stopped thread ends when its scan does, without another poll and
  without waiting for its access token to expire. `ScanEnds`: a scan ends however
  requests fail, once the Drive is left alone. `TokenStored`, `MutexReleased`,
  `TokenRenewed`, `Installed`: something happens in the end.

Each property of a passing run has a mutation of the code's model, listed in
`PROJECT.json` and defined in the module beside the original under a comment
that begins with "Mutation:", with which TLC finds it violated.

### Bounds

`MCDriveSync` has the root, a folder, a file in it, and a second folder or a
native document: the smallest Drive with a file two levels down, a place to move
it to, and a sibling that comes before or after. Two names suffice for clashes
and for renames. Edits, failures, crashes and rows are counted and bounded
(`MaxEdits`, `MaxFailures`, `MaxCrashes`, `MaxRows`): one crash gives two scans,
so a second scan on a partial first, and one failure is what it takes to read a
stale answer. `drive_scan` has one edit of any of the three kinds, and the FUSE
paths `/na`, which clashes with a Drive folder, and `/na/na`, which goes wrong
below the top level. `drive_live`, without FUSE and with two folders, has two
edits between any two steps: they move a folder there and back, or below one that
is not listed yet, where it is visited again, or move it and remove another.
Stops and restarts are not bounded.

`MCFileCache` has two threads, which is what a race takes, two files, two
descriptors, and a file of one block: nothing received, or a truncated file, is
0, a whole one 1, so that every outcome of a download is there; reads are at
block 0 or at the end. Threads, files and descriptors are interchangeable, and
`file_cache` uses that symmetry; `file_live`, a liveness run, does not.

`MCDbStatements` has two libfuse threads with one call each, of four kinds on
`/` and on paths of one, two and three names (no name, the last of a path, one
walked over, one never reached), against two updates by the Drive thread out of
three: the root's, one that moves a folder out of a path, and one that inserts a
row of the same name. Two calls are what a race on a statement takes; that a
statement is left in any state by the call before is covered by the third.
Threads are interchangeable, and the run uses that.

`auth` has lifetimes of 1, whose 5/6 is nothing, and 2, an answer of two units
and a blank, and reaches `INT_MAX` in the middle; the number of processes,
requests and failures is not bounded. `startup` has two versions, two kills, and
two directories made by FUSE.

No run turns the check for deadlock off: the Drive thread is never stuck. In
`statements`, where calls are counted, the end of all calls may stutter
(`Finished`), and any other state without a step would be a deadlock.

### Fairness

`DriveSync!FairSpec`: the Drive thread is scheduled and its requests are
answered or fail (weak fairness of `DriveStep`), and no more. `TokenStored` has a
hypothesis of its own, `TokensExpire`: the access token the thread idles on
expires again and again (strong fairness of `IdleExpired`: the lifetime is finite
and `time` is asked every minute). `StopExits` does without it. Of the Drive one
thing is assumed, by the bound `MaxEdits`: that it is edited finitely often.
`ScanEnds`, and with it `StopExits` and `TokenStored`, need that: if a folder
that was listed is moved below one that is not, this one back and below the
other, and so on for ever, each in time, `recurse` goes deeper and deeper and
never comes back. Nothing is assumed of FUSE, stops or crashes. `RestartSpec`,
for `page_lost`, adds `TokensExpire` and a user who stops and starts the program
again and again, which only makes the violated property easier to meet.

`FileCache!FairSpec`: threads are scheduled, `auth_mutex`, held by nobody but for
an instant, is got by who waits for it (strong fairness of `TakeHeader`), and a
transfer ends. The last is asked of the network: curl is given no timeout.

`Auth!FairSpec`: the thread is scheduled, time passes, and of the requests it
makes again and again some go well (strong fairness of `GoodRequest`: answered
in one go, with nothing behind the object, before the next hour). This is asked
of the network and of Drive. Nothing is assumed of starts, stops and kills.
`Startup!FairSpec`: `main` is scheduled, the mount is ended some time, and the
user tries again and again both with `--setup` and without. Kills are bounded by
`MaxCrashes` in that run, upgrades by the versions.

## 4. What is proved

With TLAPS, for every Drive, every set of files, names, paths, threads and
descriptors, every size and bound, from the assumptions the modules name
(`DbAssumption`, `DriveAssumption`, `StatementsAssumption`, `FileAssumption`,
`StreamAssumption`, `AuthAssumption`, `StartupAssumption`: the special values
differ from the others and from each other and, of NULL, from every id, the
initial Drives are trees, the initial tables of `DbStatements` are as scans and
calls that never met leave them (`Settled`: what `TableInv` and
`TombstonesAreFolders` say of `DriveSync`), only the root, or an error, is
answered without a parent, there is a longest lifetime, the bounds are numbers;
TLC checks them on each instance):

| theorem | states |
|---|---|
| `TypeCorrect`, `TableCorrect`, `PlacementCorrect`, `TombstonesCorrect` | `DriveSync` satisfies `[]TypeOK`, `[]TableInv`, `[]PlacementOnceTrue`, `[]TombstonesAreFolders` |
| `IdentityKept`, `MirrorCorrect` | it satisfies `RowsKeepIdentity` and implements `Mirror` |
| `DriveShown` | it satisfies `[]FuseSeesDrive`, for paths and trees of any depth |
| `StatementsTypeCorrect`, `RowsKeptCorrect` | `DbStatements` satisfies `[]TypeOK`, in which the mutex is held by exactly the locked call under way, and `RowsKeepIdentity` |
| `LoneTableCorrect`, `LoneCallsCorrect` | it satisfies `[]LoneTableSound` and `[]LoneCallsLinear` |
| `FileTypeCorrect`, `CacheWholeCorrect`, `LoneReadsCorrect`, `StoreCorrect` | `FileCache` satisfies `[]TypeOK`, `[]CacheWhole`, `[]LoneReadsRight` and implements `FileStore` |
| `AuthTypeCorrect`, `AnswerCorrect`, `BeliefCorrect`, `RefreshCorrect` | `Auth` satisfies `[]TypeOK`, `[]WholeOrNothing`, `[]BeliefSound` and `RefreshKept` |
| `StartupTypeCorrect`, `OneOfEachCorrect`, `SetupCorrect`, `StatementsCorrect` | `Startup` satisfies `[]TypeOK`, `[]OneOfEach`, `[]SetupCompletes`, `[]StatementsUsable` |

**DriveSync.** `TableInv` and `PlacementOnceTrue` are not inductive: whether an
update keeps them depends on the answer it is given. The invariant `IInv` adds
what is known of that answer (`AnswerOK`: a file with a parent was in that
folder at some time, and only the root's answer, or none at all, has no parent),
of those left behind on the C stack, which may be read again (`JrootOK`),
of the Drive (its placements are all in `placed`) and of the thread (`ScanInv`:
it scans only while no token is stored, which is what freezes the mirror), and
joins the table's conjuncts into `TableOK`, since each update needs all of them. The proofs go
operator by operator: each `dbcache_*` operator keeps `TableOK` if its argument
is an `AnswerOK`; then action by action. `MirrorProofs` says of every step what
it may do to the rows (a lemma for each operator: "adds one such row" or
"re-files one row"), from which both the action property and the refinement
follow.

**A whole scan.** `FuseSeesDrive` says something of the end of a scan, and
nothing in it is inductive. `ScanProofs` finds the invariant: while a scan that
has missed nothing runs there is a set `V` of files it has put on record, and
every file of the Drive whose folder is in `V` is in `V` itself or pending, that
is on a stack of `recurse`, under way, or in the listing about to come (`Seen`).
An update moves one file from the pending ones to `V`, a listing replaces a
folder by its children, and only what is pending is visited. At the end nothing
is pending, so `V` is closed under children; the complement would be closed
under parents, which no tree has without the root, so `V` is the whole Drive
(`Whole`, kept by `Saved` for as long as the token is). What is left is a
statement about two folds over a path, the walk in the table and the walk on the
Drive: by induction over the names they come by the row of the same file, as
long as no name is shadowed. The rows' types are those of the files
(`KindsTrue`), because a row that is found is never typed again and a file does
not change its kind.

**DbStatements.** The statements are shared by calls that hold nothing, so a row
may be put together from the parameters of several calls. It is a row with a
name all the same: an `insertentry` at its end has all its parameters
(`Parameters`), and one that was reset has been given, before any thread
executes it, those the thread is past binding (`Bound`). What the Drive thread
files between its lookups and its `UPDATE` is the row of its own file or the
root's (`Filing`), because `selbyuuid` and `updbyid` are its alone and nobody
else changes a uuid, and a root that has no uuid yet has no parent (`Root1`).
Then only `Mark`, `FileEntry` and `Insert` touch the table, and each is shown to
keep every row's identity.

*A call alone with its statements* is linear, in two invariants. `LInv` ties the
statements to the frames: as long as a call is not disturbed, the parameters it
has bound and the row it stands on are what its frame says (`Lone`), because
whoever touches a statement another call is using disturbs that call, unless
both hold the mutex, which two cannot. What `dbcache_update` did not
find must besides be missing until it inserts it (`LookedUp`, `StillMissing`),
although a `dbcache_mkdir` that others have disturbed may insert a row with any
uuid that is left in the statement; so the invariant follows that uuid too
(`Stale`: its file has a row, or the Drive thread is about to insert it). `CInv` adds the
history: whatever an undisturbed call has still to do or to answer is among the
outcomes it would have had at once since it began (`Tells`). A walk stands where
the names so far lead (`Trail`), a listing is complete up to the row it has come
to (`Listed`), and both survive the steps of others: under the mutex nobody
files a row elsewhere, and a row `mkdir` adds comes after all others, so it is
never the first of a name that had one. At the end the trail is the whole path,
and the id is the one `FindByPath` gives in that very state.

**FileCache.** Why a reader never sees a file half written is mutual exclusion:
the thread inside `fuseapi_open`'s callback holds `dbcache_mutex` (`Exclusive`),
it alone writes a file (`Fetching`), every other file is whole or excused
(`Whole`), nobody has a descriptor on what is being written (`Settled`), the
header is NULL only before the first and while `auth_mutex` is held
(`Announced`), and a descriptor that is being read is open (`Readers`). The
refinement maps a file being fetched to one that is absent: `Fclose` publishes
it, and a crash publishes whatever was there.

**Auth.** The belief of a process is not inductive by itself: it rests on the row
another process stored, and on the answer under way. The invariant says of every
copy of the tokens, in memory, in the table and in the header, that it is
believed in no longer than it is accepted (`Copies`: ageing keeps that, and the
cast to `int` only shortens the belief), and of an answer on its way that it has
lost no more of its lifetime than the time since `authorize` looked at the clock
(`OnItsWay`), which is why counting from the beginning is right. The refresh
token survives because whoever stores has the one that is in the table
(`Carried`).

**Startup.** A setup in the middle has made what the statements before it make
(`Made`), in this run or an earlier one, since tables and rows only grow
(`GrowsKeeps`); a row is inserted only where there is none (`ExecuteStep`), and
the root, unless a directory preceded it, into an empty table (`RootOK`), so
that it is row 1 and the Drive thread's update of row 1 takes no other row's
parent. After
setup there are statements, so `dbcache_close` fails and the connection stays
open (`Prepared`).

Only model-checked: the liveness properties, which are beyond the prover's
reach, and with them that the runs reach what they are about. Every safety
invariant, action property and refinement a passing run checks is proved.

## 5. Not modelled, and the plan

Not modelled: logging, the command line and its default paths, the build, which
keep no state the rest depends on; `daemon` and the pid file, which nobody reads
back; sizes, modes and times of rows, which are handed through (`readdir` takes
the times from the wrong statement, but libfuse's filler uses none of them);
changes of content on the Drive; files shared with the user that have no parent;
functions that nothing calls or that are commented out (about a third of
`dbcache.c` and of `fuseapi.c`). `get_changes` has no effect on the program (its
answer goes to a file nobody reads) other than taking time, and, should that
file not open, a crash, which every model has at every step.

Done: `DbCache`, `DbStatements`, `DriveSync`, `Mirror`, `FileCache`, `FileStore`,
`JsonStream`, `Auth`, `Startup`, with proofs of all their safety properties.

Left, in this order:

1. The joints between the modules, as refinements: that `DbStatements`, while no
   calls have met, implements the atomic functions of `DbCache` with `entries`
   as it is (`LoneCallsLinear` gives the outcomes; a mapping of steps is left).
2. That what `JsonStream` leaves behind is what `DriveSync` lets a request
   answer.
