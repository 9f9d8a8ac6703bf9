--------------------------- MODULE FileCacheProofs ---------------------------
(***************************************************************************)
(* For every set of threads, files and descriptors, every size and bound:  *)
(* a descriptor is open on a whole file unless something befell its        *)
(* download, a read that meets no other is right, and the cache is a       *)
(* FileStore.                                                              *)
(*                                                                         *)
(* The inductive invariant says why: the one thread inside the locked part *)
(* of an open is the only one to write a file (Exclusive, Fetching), a     *)
(* file is either whole, or being written, or excused (Whole), nobody has  *)
(* a descriptor on a file that is being written (Settled), and the header  *)
(* is NULL only before the Drive thread first set it and while that thread *)
(* holds auth_mutex (Announced).                                           *)
(***************************************************************************)
EXTENDS FileCache, TLAPS

Exclusive ==
    /\ \A w \in Workers : pc[w] \in Locked <=> dbcache_mutex = w
    /\ drive = "update" <=> dbcache_mutex = Drive
    /\ \A w \in Workers : pc[w] \in Locked => file[w] \in Files

Announced ==
    /\ drive = "append" <=> auth_mutex = Drive
    /\ auth_chunk = "null" /\ announced => auth_mutex = Drive

Fetching == \A w \in Workers :
    /\ pc[w] = "fopen" => disk[file[w]] = Absent
    /\ pc[w] \in Downloading \cup {"open"} => disk[file[w]] # Absent
    /\ pc[w] = "transfer" /\ header[w] # "good" => file[w] \in disturbed
    /\ pc[w] = "fclose" => file[w] \in disturbed \/ received[w] = Size

Whole == \A f \in Files \ disturbed :
    disk[f] \in {Absent, Size} \/ \E w \in Workers : pc[w] \in Downloading /\ file[w] = f

Settled == \A h \in Handles :
    handles[h] # Closed =>
        /\ disk[handles[h]] # Absent
        /\ \A w \in Workers : pc[w] \in Downloading => file[w] # handles[h]

Readers == \A w \in Workers :
    pc[w] \in Reading =>
        /\ fh[w] \in Handles /\ handles[fh[w]] # Closed
        /\ \A v \in Workers \ {w} : pc[v] \in Reading /\ fh[v] = fh[w] => w \in overlapped

IInv ==
    /\ TypeOK /\ Exclusive /\ Announced /\ Fetching /\ Whole /\ Settled /\ Readers
    /\ LoneReadsRight

LEMMA InitIInv == Init => IInv
<1> SUFFICES ASSUME Init PROVE IInv
    OBVIOUS
<1> USE FileAssumption DEF Init, Locked, Downloading, Reading
<1>1. TypeOK
    <2>1. announced \in BOOLEAN
        BY ZenonT(10)
    <2> QED BY <2>1, SMT DEF TypeOK, Contents
<1>2. Exclusive /\ Announced /\ Fetching
    BY DEF Exclusive, Announced, Fetching
<1>3. Whole /\ Settled /\ Readers /\ LoneReadsRight
    BY DEF Whole, Settled, Readers, LoneReadsRight
<1> QED BY <1>1, <1>2, <1>3 DEF IInv

LEMMA TypeStep == IInv /\ [Next]_vars => TypeOK'
<1> SUFFICES ASSUME IInv, [Next]_vars PROVE TypeOK'
    OBVIOUS
<1> USE FileAssumption DEF IInv, TypeOK, Contents, Goto, Fail, Write, DriveGoto, restOfDrive,
        cacheVars, lockVars, driveVars, openVars, readVars, countVars, Downloading, Locked, Reading
<1>1. ASSUME NEW w \in Workers, NEW f \in Files, Lock(w, f) PROVE TypeOK'
    BY <1>1 DEF Lock
<1>2. ASSUME NEW w \in Workers, Stat(w) PROVE TypeOK'
    BY <1>2 DEF Stat
<1>3. ASSUME NEW w \in Workers, Fopen(w) PROVE TypeOK'
    BY <1>3 DEF Fopen
<1>4. ASSUME NEW w \in Workers, TakeHeader(w) PROVE TypeOK'
    BY <1>4 DEF TakeHeader, Exclusive
<1>5. ASSUME NEW w \in Workers, Receive(w) PROVE TypeOK'
    BY <1>5 DEF Receive
<1>6. ASSUME NEW w \in Workers, Refuse(w) PROVE TypeOK'
    BY <1>6 DEF Refuse
<1>7. ASSUME NEW w \in Workers, BreakOff(w) PROVE TypeOK'
    BY <1>7 DEF BreakOff, Exclusive
<1>8. ASSUME NEW w \in Workers, Complete(w) \/ Unlock(w) \/ Lseek(w) PROVE TypeOK'
    BY <1>8 DEF Complete, Unlock, Lseek
<1>9. ASSUME NEW w \in Workers, Fclose(w) PROVE TypeOK'
    BY <1>9 DEF Fclose, Exclusive
<1>10. ASSUME NEW w \in Workers, Open(w) PROVE TypeOK'
    BY <1>10 DEF Open, Exclusive
<1>11. ASSUME NEW w \in Workers, NEW h \in Handles, NEW o \in 0..Size, Read(w, h, o) PROVE TypeOK'
    BY <1>11 DEF Read, OnHandle
<1>12. ASSUME NEW w \in Workers, ReadBlock(w) PROVE TypeOK'
    <2>1. fh[w] \in Handles /\ pos[fh[w]] \in Nat
        BY <1>12 DEF ReadBlock, Readers
    <2>2. pos' \in [Handles -> Nat]
        BY <1>12, <2>1 DEF ReadBlock
    <2> QED BY <1>12, <2>2 DEF ReadBlock
<1>13. ASSUME NEW h \in Handles, Release(h) PROVE TypeOK'
    BY <1>13 DEF Release
<1>14. CASE RefreshTokens \/ ClearHeader \/ AppendHeader
    <2>1. announced' \in BOOLEAN
        BY <1>14 DEF RefreshTokens, ClearHeader, AppendHeader
    <2> QED BY <1>14, <2>1 DEF RefreshTokens, ClearHeader, AppendHeader
<1>15. CASE LockUpdate \/ UnlockUpdate \/ Renew \/ Expire
    BY <1>15 DEF LockUpdate, UnlockUpdate, Renew, Expire
<1>16. CASE Crash
    <2>1. disturbed' \subseteq Files
        BY <1>16 DEF Crash, Exclusive
    <2>2. announced' \in BOOLEAN
        BY <1>16 DEF Crash
    <2> QED BY <1>16, <2>1, <2>2 DEF Crash
<1>17. CASE UNCHANGED vars
    BY <1>17 DEF vars
<1> QED BY <1>1, <1>2, <1>3, <1>4, <1>5, <1>6, <1>7, <1>8, <1>9, <1>10, <1>11, <1>12, <1>13, <1>14,
           <1>15, <1>16, <1>17 DEF Next, Request, WorkerStep, Download, DriveStep

\* Locked code is run by the holder of dbcache_mutex.
LEMMA ExclusiveStep == IInv /\ [Next]_vars => Exclusive'
<1> SUFFICES ASSUME IInv, [Next]_vars PROVE Exclusive'
    OBVIOUS
<1> USE FileAssumption DEF IInv, TypeOK, Goto, Fail, Write, DriveGoto, restOfDrive, cacheVars,
        lockVars, driveVars, openVars, readVars, countVars, Downloading, Locked, Reading,
        Exclusive
<1>1. ASSUME NEW w \in Workers, NEW f \in Files, Lock(w, f) PROVE Exclusive'
    BY <1>1 DEF Lock
<1>2. ASSUME NEW w \in Workers, Stat(w) \/ Fopen(w) PROVE Exclusive'
    BY <1>2 DEF Stat, Fopen
<1>3. ASSUME NEW w \in Workers, TakeHeader(w) \/ Receive(w) \/ Refuse(w) \/ BreakOff(w) \/
           Complete(w)
      PROVE  Exclusive'
    BY <1>3 DEF TakeHeader, Receive, Refuse, BreakOff, Complete
<1>4. ASSUME NEW w \in Workers, Fclose(w) \/ Open(w) \/ Unlock(w) PROVE Exclusive'
    BY <1>4 DEF Fclose, Open, Unlock
<1>5. ASSUME NEW w \in Workers, NEW h \in Handles, NEW o \in 0..Size, Read(w, h, o)
      PROVE  Exclusive'
    BY <1>5 DEF Read
<1>6. ASSUME NEW w \in Workers, Lseek(w) \/ ReadBlock(w) PROVE Exclusive'
    BY <1>6 DEF Lseek, ReadBlock
<1>7. ASSUME NEW h \in Handles, Release(h) PROVE Exclusive'
    BY <1>7 DEF Release
<1>8. CASE RefreshTokens \/ ClearHeader \/ AppendHeader
    BY <1>8 DEF RefreshTokens, ClearHeader, AppendHeader
<1>9. CASE LockUpdate \/ UnlockUpdate \/ Renew \/ Expire
    BY <1>9 DEF LockUpdate, UnlockUpdate, Renew, Expire
<1>10. CASE Crash
    BY <1>10 DEF Crash
<1>11. CASE UNCHANGED vars
    BY <1>11 DEF vars
<1> QED BY <1>1, <1>2, <1>3, <1>4, <1>5, <1>6, <1>7, <1>8, <1>9, <1>10, <1>11
        DEF Next, Request, WorkerStep, Download, DriveStep

\* Once it has been set, auth_chunk is NULL under auth_mutex only.
LEMMA AnnouncedStep == IInv /\ [Next]_vars => Announced'
<1> SUFFICES ASSUME IInv, [Next]_vars PROVE Announced'
    OBVIOUS
<1> USE FileAssumption DEF IInv, TypeOK, Goto, Fail, Write, DriveGoto, restOfDrive, cacheVars,
        lockVars, driveVars, openVars, readVars, countVars, Downloading, Locked, Reading,
        Announced
<1>1. ASSUME NEW w \in Workers, NEW f \in Files, Lock(w, f) PROVE Announced'
    BY <1>1 DEF Lock
<1>2. ASSUME NEW w \in Workers, Stat(w) \/ Fopen(w) \/ TakeHeader(w) \/ Receive(w) \/ Refuse(w)
      PROVE  Announced'
    BY <1>2 DEF Stat, Fopen, TakeHeader, Receive, Refuse
<1>3. ASSUME NEW w \in Workers, BreakOff(w) \/ Complete(w) \/ Fclose(w) \/ Open(w) \/ Unlock(w)
      PROVE  Announced'
    BY <1>3 DEF BreakOff, Complete, Fclose, Open, Unlock
<1>4. ASSUME NEW w \in Workers, NEW h \in Handles, NEW o \in 0..Size, Read(w, h, o)
      PROVE  Announced'
    BY <1>4 DEF Read
<1>5. ASSUME NEW w \in Workers, Lseek(w) \/ ReadBlock(w) PROVE Announced'
    BY <1>5 DEF Lseek, ReadBlock
<1>6. ASSUME NEW h \in Handles, Release(h) PROVE Announced'
    BY <1>6 DEF Release
<1>7. CASE RefreshTokens \/ ClearHeader \/ AppendHeader
    BY <1>7 DEF RefreshTokens, ClearHeader, AppendHeader
<1>8. CASE LockUpdate \/ UnlockUpdate \/ Renew \/ Expire
    BY <1>8 DEF LockUpdate, UnlockUpdate, Renew, Expire
<1>9. CASE Crash
    BY <1>9 DEF Crash
<1>10. CASE UNCHANGED vars
    BY <1>10 DEF vars
<1> QED BY <1>1, <1>2, <1>3, <1>4, <1>5, <1>6, <1>7, <1>8, <1>9, <1>10
        DEF Next, Request, WorkerStep, Download, DriveStep

\* Where the fetching thread is agrees with what is on disk.
LEMMA FetchingStep == IInv /\ [Next]_vars => Fetching'
<1> SUFFICES ASSUME IInv, [Next]_vars PROVE Fetching'
    OBVIOUS
<1> USE FileAssumption DEF IInv, TypeOK, Goto, Fail, Write, DriveGoto, restOfDrive, cacheVars,
        lockVars, driveVars, openVars, readVars, countVars, Downloading, Locked, Reading,
        Fetching, Exclusive
<1>1. ASSUME NEW w \in Workers, NEW f \in Files, Lock(w, f) PROVE Fetching'
    BY <1>1 DEF Lock
<1>2. ASSUME NEW w \in Workers, Stat(w) PROVE Fetching'
    BY <1>2 DEF Stat
<1>3. ASSUME NEW w \in Workers, Fopen(w) PROVE Fetching'
    BY <1>3 DEF Fopen
<1>4. ASSUME NEW w \in Workers, TakeHeader(w) PROVE Fetching'
    BY <1>4 DEF TakeHeader, Announced
<1>5. ASSUME NEW w \in Workers, Receive(w) PROVE Fetching'
    BY <1>5 DEF Receive
<1>6. ASSUME NEW w \in Workers, Refuse(w) PROVE Fetching'
    BY <1>6 DEF Refuse
<1>7. ASSUME NEW w \in Workers, BreakOff(w) PROVE Fetching'
    BY <1>7 DEF BreakOff
<1>8. ASSUME NEW w \in Workers, Complete(w) PROVE Fetching'
    BY <1>8 DEF Complete
<1>9. ASSUME NEW w \in Workers, Fclose(w) PROVE Fetching'
    BY <1>9 DEF Fclose, Contents
<1>10. ASSUME NEW w \in Workers, Open(w) \/ Unlock(w) PROVE Fetching'
    BY <1>10 DEF Open, Unlock
<1>11. ASSUME NEW w \in Workers, NEW h \in Handles, NEW o \in 0..Size, Read(w, h, o)
      PROVE  Fetching'
    BY <1>11 DEF Read
<1>12. ASSUME NEW w \in Workers, Lseek(w) \/ ReadBlock(w) PROVE Fetching'
    BY <1>12 DEF Lseek, ReadBlock
<1>13. ASSUME NEW h \in Handles, Release(h) PROVE Fetching'
    BY <1>13 DEF Release
<1>14. CASE DriveStep \/ Expire \/ UNCHANGED vars
    BY <1>14 DEF DriveStep, RefreshTokens, ClearHeader, AppendHeader, LockUpdate, UnlockUpdate,
               Renew, Expire, vars
<1>15. CASE Crash
    BY <1>15 DEF Crash
<1> QED BY <1>1, <1>2, <1>3, <1>4, <1>5, <1>6, <1>7, <1>8, <1>9, <1>10, <1>11, <1>12, <1>13,
           <1>14, <1>15
        DEF Next, Request, WorkerStep, Download, DriveStep

\* A file is whole, or being written, or excused.
LEMMA WholeStep == IInv /\ [Next]_vars => Whole'
<1> SUFFICES ASSUME IInv, [Next]_vars PROVE Whole'
    OBVIOUS
<1> USE FileAssumption DEF IInv, TypeOK, Goto, Fail, Write, DriveGoto, restOfDrive, cacheVars,
        lockVars, driveVars, openVars, readVars, countVars, Downloading, Locked, Reading,
        Whole, Exclusive, Fetching
<1>1. ASSUME NEW w \in Workers, NEW f \in Files, Lock(w, f) PROVE Whole'
    BY <1>1 DEF Lock
<1>2. ASSUME NEW w \in Workers, Stat(w) PROVE Whole'
    BY <1>2 DEF Stat
<1>3. ASSUME NEW w \in Workers, Fopen(w) PROVE Whole'
    BY <1>3 DEF Fopen
<1>4. ASSUME NEW w \in Workers, TakeHeader(w) PROVE Whole'
    BY <1>4 DEF TakeHeader
<1>5. ASSUME NEW w \in Workers, Receive(w) PROVE Whole'
    BY <1>5 DEF Receive
<1>6. ASSUME NEW w \in Workers, Refuse(w) PROVE Whole'
    BY <1>6 DEF Refuse
<1>7. ASSUME NEW w \in Workers, BreakOff(w) PROVE Whole'
    BY <1>7 DEF BreakOff
<1>8. ASSUME NEW w \in Workers, Complete(w) PROVE Whole'
    BY <1>8 DEF Complete
<1>9. ASSUME NEW w \in Workers, Fclose(w) PROVE Whole'
    BY <1>9 DEF Fclose
<1>10. ASSUME NEW w \in Workers, Open(w) \/ Unlock(w) PROVE Whole'
    BY <1>10 DEF Open, Unlock
<1>11. ASSUME NEW w \in Workers, NEW h \in Handles, NEW o \in 0..Size, Read(w, h, o)
      PROVE  Whole'
    BY <1>11 DEF Read
<1>12. ASSUME NEW w \in Workers, Lseek(w) \/ ReadBlock(w) PROVE Whole'
    BY <1>12 DEF Lseek, ReadBlock
<1>13. ASSUME NEW h \in Handles, Release(h) PROVE Whole'
    BY <1>13 DEF Release
<1>14. CASE DriveStep \/ Expire \/ UNCHANGED vars
    BY <1>14 DEF DriveStep, RefreshTokens, ClearHeader, AppendHeader, LockUpdate, UnlockUpdate,
               Renew, Expire, vars
<1>15. CASE Crash
    BY <1>15 DEF Crash
<1> QED BY <1>1, <1>2, <1>3, <1>4, <1>5, <1>6, <1>7, <1>8, <1>9, <1>10, <1>11, <1>12, <1>13,
           <1>14, <1>15
        DEF Next, Request, WorkerStep, Download, DriveStep

\* Nobody writes a file that is open.
LEMMA SettledStep == IInv /\ [Next]_vars => Settled'
<1> SUFFICES ASSUME IInv, [Next]_vars PROVE Settled'
    OBVIOUS
<1> USE FileAssumption DEF IInv, TypeOK, Goto, Fail, Write, DriveGoto, restOfDrive, cacheVars,
        lockVars, driveVars, openVars, readVars, countVars, Downloading, Locked, Reading,
        Settled, Exclusive, Fetching
<1>1. ASSUME NEW w \in Workers, NEW f \in Files, Lock(w, f) PROVE Settled'
    BY <1>1 DEF Lock
<1>2. ASSUME NEW w \in Workers, Stat(w) PROVE Settled'
    BY <1>2 DEF Stat
<1>3. ASSUME NEW w \in Workers, Fopen(w) PROVE Settled'
    BY <1>3 DEF Fopen
<1>4. ASSUME NEW w \in Workers, TakeHeader(w) PROVE Settled'
    BY <1>4 DEF TakeHeader
<1>5. ASSUME NEW w \in Workers, Receive(w) PROVE Settled'
    BY <1>5 DEF Receive
<1>6. ASSUME NEW w \in Workers, Refuse(w) PROVE Settled'
    BY <1>6 DEF Refuse
<1>7. ASSUME NEW w \in Workers, BreakOff(w) PROVE Settled'
    BY <1>7 DEF BreakOff
<1>8. ASSUME NEW w \in Workers, Complete(w) PROVE Settled'
    BY <1>8 DEF Complete
<1>9. ASSUME NEW w \in Workers, Fclose(w) PROVE Settled'
    BY <1>9 DEF Fclose
<1>10. ASSUME NEW w \in Workers, Open(w) \/ Unlock(w) PROVE Settled'
    BY <1>10 DEF Open, Unlock
<1>11. ASSUME NEW w \in Workers, NEW h \in Handles, NEW o \in 0..Size, Read(w, h, o)
      PROVE  Settled'
    BY <1>11 DEF Read
<1>12. ASSUME NEW w \in Workers, Lseek(w) \/ ReadBlock(w) PROVE Settled'
    BY <1>12 DEF Lseek, ReadBlock
<1>13. ASSUME NEW h \in Handles, Release(h) PROVE Settled'
    BY <1>13 DEF Release
<1>14. CASE DriveStep \/ Expire \/ UNCHANGED vars
    BY <1>14 DEF DriveStep, RefreshTokens, ClearHeader, AppendHeader, LockUpdate, UnlockUpdate,
               Renew, Expire, vars
<1>15. CASE Crash
    BY <1>15 DEF Crash
<1> QED BY <1>1, <1>2, <1>3, <1>4, <1>5, <1>6, <1>7, <1>8, <1>9, <1>10, <1>11, <1>12, <1>13,
           <1>14, <1>15
        DEF Next, Request, WorkerStep, Download, DriveStep

\* Descriptors that are read are open, and readers that meet are marked.
LEMMA ReadersStep == IInv /\ [Next]_vars => Readers'
<1> SUFFICES ASSUME IInv, [Next]_vars PROVE Readers'
    OBVIOUS
<1> USE FileAssumption DEF IInv, TypeOK, Goto, Fail, Write, DriveGoto, restOfDrive, cacheVars,
        lockVars, driveVars, openVars, readVars, countVars, Downloading, Locked, Reading,
        Readers
<1>1. ASSUME NEW w \in Workers, NEW f \in Files, Lock(w, f) PROVE Readers'
    BY <1>1 DEF Lock
<1>2. ASSUME NEW w \in Workers, Stat(w) \/ Fopen(w) PROVE Readers'
    BY <1>2 DEF Stat, Fopen
<1>3. ASSUME NEW w \in Workers, TakeHeader(w) \/ Receive(w) \/ Refuse(w) \/ BreakOff(w) \/
           Complete(w)
      PROVE  Readers'
    BY <1>3 DEF TakeHeader, Receive, Refuse, BreakOff, Complete
<1>4. ASSUME NEW w \in Workers, Fclose(w) \/ Unlock(w) PROVE Readers'
    BY <1>4 DEF Fclose, Unlock
<1>5. ASSUME NEW w \in Workers, Open(w) PROVE Readers'
    BY <1>5 DEF Open
<1>6. ASSUME NEW w \in Workers, NEW h \in Handles, NEW o \in 0..Size, Read(w, h, o)
      PROVE  Readers'
    BY <1>6 DEF Read, Usable, OnHandle
<1>7. ASSUME NEW w \in Workers, Lseek(w) \/ ReadBlock(w) PROVE Readers'
    BY <1>7 DEF Lseek, ReadBlock
<1>8. ASSUME NEW h \in Handles, Release(h) PROVE Readers'
    BY <1>8 DEF Release, OnHandle
<1>9. CASE DriveStep \/ Expire \/ UNCHANGED vars
    BY <1>9 DEF DriveStep, RefreshTokens, ClearHeader, AppendHeader, LockUpdate, UnlockUpdate,
               Renew, Expire, vars
<1>10. CASE Crash
    BY <1>10 DEF Crash
<1> QED BY <1>1, <1>2, <1>3, <1>4, <1>5, <1>6, <1>7, <1>8, <1>9, <1>10
        DEF Next, Request, WorkerStep, Download, DriveStep

\* The descriptor of a lone reader is where the reader put it.
LEMMA LoneStep == IInv /\ [Next]_vars => LoneReadsRight'
<1> SUFFICES ASSUME IInv, [Next]_vars PROVE LoneReadsRight'
    OBVIOUS
<1> USE FileAssumption DEF IInv, TypeOK, Goto, Fail, Write, DriveGoto, restOfDrive, cacheVars,
        lockVars, driveVars, openVars, readVars, countVars, Downloading, Locked, Reading,
        Readers, LoneReadsRight
<1>1. ASSUME NEW w \in Workers, NEW f \in Files, Lock(w, f) PROVE LoneReadsRight'
    BY <1>1 DEF Lock
<1>2. ASSUME NEW w \in Workers, Stat(w) \/ Fopen(w) PROVE LoneReadsRight'
    BY <1>2 DEF Stat, Fopen
<1>3. ASSUME NEW w \in Workers, TakeHeader(w) \/ Receive(w) \/ Refuse(w) \/ BreakOff(w) \/
           Complete(w)
      PROVE  LoneReadsRight'
    BY <1>3 DEF TakeHeader, Receive, Refuse, BreakOff, Complete
<1>4. ASSUME NEW w \in Workers, Fclose(w) \/ Unlock(w) PROVE LoneReadsRight'
    BY <1>4 DEF Fclose, Unlock
<1>5. ASSUME NEW w \in Workers, Open(w) PROVE LoneReadsRight'
    BY <1>5 DEF Open
<1>6. ASSUME NEW w \in Workers, NEW h \in Handles, NEW o \in 0..Size, Read(w, h, o)
      PROVE  LoneReadsRight'
    BY <1>6 DEF Read
<1>7. ASSUME NEW w \in Workers, Lseek(w) PROVE LoneReadsRight'
    BY <1>7 DEF Lseek
<1>8. ASSUME NEW w \in Workers, ReadBlock(w) PROVE LoneReadsRight'
    BY <1>8 DEF ReadBlock
<1>9. ASSUME NEW h \in Handles, Release(h) PROVE LoneReadsRight'
    BY <1>9 DEF Release, OnHandle
<1>10. CASE DriveStep \/ Expire \/ UNCHANGED vars
    BY <1>10 DEF DriveStep, RefreshTokens, ClearHeader, AppendHeader, LockUpdate, UnlockUpdate,
               Renew, Expire, vars
<1>11. CASE Crash
    BY <1>11 DEF Crash
<1> QED BY <1>1, <1>2, <1>3, <1>4, <1>5, <1>6, <1>7, <1>8, <1>9, <1>10, <1>11
        DEF Next, Request, WorkerStep, Download, DriveStep

LEMMA StepIInv == IInv /\ [Next]_vars => IInv'
BY TypeStep, ExclusiveStep, AnnouncedStep, FetchingStep, WholeStep, SettledStep,
   ReadersStep, LoneStep
   DEF IInv

LEMMA InvariantIInv == Spec => []IInv
BY InitIInv, StepIInv, PTL DEF Spec

-----------------------------------------------------------------------------
(* Refinement                                                               *)

LEMMA InitStore == Init => S!Init
BY DEF Init, S!Init, Published, Downloading

LEMMA StepStore ==
    ASSUME IInv, IInv', [Next]_vars
    PROVE  [S!Next]_(S!vars)
<1> USE DEF Goto, cacheVars, lockVars, driveVars, openVars, readVars, countVars
<1>1. TypeOK /\ Exclusive
    BY DEF IInv
<1>2. ASSUME UNCHANGED <<disk, handles>>,
             \A w \in Workers : pc[w] \in Downloading \/ pc'[w] \in Downloading
                 => pc[w] \in Downloading /\ pc'[w] \in Downloading /\ file'[w] = file[w]
      PROVE  UNCHANGED S!vars
    BY <1>2 DEF Published, S!vars
<1>3. ASSUME NEW w \in Workers,
             Stat(w) \/ TakeHeader(w) \/ Complete(w) \/ Unlock(w) \/ Lseek(w) \/ ReadBlock(w)
      PROVE  UNCHANGED S!vars
    BY <1>1, <1>2, <1>3 DEF TypeOK, Stat, TakeHeader, Complete, Unlock, Lseek, ReadBlock,
       Downloading
<1>4. ASSUME NEW w \in Workers, \/ \E f \in Files : Lock(w, f)
                                \/ \E h \in Handles, o \in 0..Size : Read(w, h, o)
      PROVE  UNCHANGED S!vars
    BY <1>1, <1>2, <1>4 DEF TypeOK, Lock, Read, Downloading
<1>5. ASSUME NEW w \in Workers, Fopen(w) \/ Receive(w) \/ Refuse(w) \/ BreakOff(w)
      PROVE  UNCHANGED S!vars
    <2>1. UNCHANGED handles /\ UNCHANGED file
        BY <1>5 DEF Fopen, Receive, Refuse, BreakOff, Write
    <2>2. \A f \in Files \ {file[w]} : disk'[f] = disk[f]
        BY <1>1, <1>5 DEF TypeOK, Fopen, Receive, Refuse, BreakOff, Write
    <2>3. \A v \in Workers \ {w} : pc[v] \notin Downloading /\ pc'[v] \notin Downloading
        BY <1>1, <1>5 DEF TypeOK, Exclusive, Locked, Downloading, Fopen, Receive, Refuse,
           BreakOff
    <2>4. CASE pc'[w] \in Downloading
        <3>1. \A f \in Files \ {file[w]} : Published'[f] = Published[f]
            BY <2>1, <2>2, <2>3 DEF Published
        <3>2. ASSUME file[w] \in Files PROVE Published'[file[w]] = Absent /\ Published[file[w]] = Absent
            <4>1. Published'[file[w]] = Absent
                BY <2>1, <2>4, <3>2 DEF Published
            <4>2. pc[w] \in Downloading \/ disk[file[w]] = Absent
                BY <1>5 DEF IInv, Fetching, Fopen, Receive, Refuse, BreakOff, Downloading
            <4> QED BY <3>2, <4>1, <4>2 DEF Published
        <3>3. Published' = Published
            BY <3>1, <3>2 DEF Published
        <3> QED BY <2>1, <3>3 DEF S!vars
    <2>5. CASE pc'[w] \notin Downloading
        <3>1. UNCHANGED disk /\ pc[w] \notin Downloading
            BY <1>1, <1>5, <2>5 DEF TypeOK, Fopen, Receive, Refuse, BreakOff, Downloading
        <3> QED BY <1>2, <2>1, <2>3, <2>5, <3>1
    <2> QED BY <2>4, <2>5
<1>6. ASSUME NEW w \in Workers, Fclose(w) PROVE S!Next
    <2>1. file[w] \in Files /\ received[w] \in Contents /\ UNCHANGED handles
        BY <1>1, <1>6 DEF TypeOK, Exclusive, Locked, Downloading, Fclose
    <2>2. \A v \in Workers : pc'[v] \notin Downloading /\ (v # w => pc[v] \notin Downloading)
        BY <1>1, <1>6 DEF TypeOK, Exclusive, Locked, Downloading, Fclose
    <2>3. Published[file[w]] = Absent
        BY <1>6, <2>1 DEF Published, Fclose, Downloading
    <2>4. Published' = disk'
        BY <1>1, <1>6, <2>2 DEF Published, TypeOK, Fclose
    <2>5. \A f \in Files \ {file[w]} : Published[f] = disk[f]
        BY <2>2 DEF Published
    <2>6. Published' = [Published EXCEPT ![file[w]] = received[w]]
        BY <1>1, <1>6, <2>1, <2>4, <2>5 DEF TypeOK, Fclose, Published
    <2> QED BY <2>1, <2>3, <2>6 DEF S!Next, S!Publish
<1>7. ASSUME NEW w \in Workers, Open(w) PROVE [S!Next]_(S!vars)
    <2>1. Published' = Published
        BY <1>1, <1>7 DEF Published, TypeOK, Open, Downloading
    <2>2. CASE \E h \in Handles : handles[h] = Closed /\ handles' = [handles EXCEPT ![h] = file[w]]
        <3>1. \A v \in Workers : pc[v] \notin Downloading
            BY <1>1, <1>7 DEF Exclusive, Locked, Downloading, Open
        <3>2. file[w] \in Files /\ disk[file[w]] # Absent
            BY <1>1, <1>7 DEF IInv, Exclusive, Fetching, Locked, Open
        <3>3. Published[file[w]] # Absent
            BY <3>1, <3>2 DEF Published
        <3> QED BY <2>1, <2>2, <3>2, <3>3 DEF S!Next, S!Open
    <2>3. CASE UNCHANGED handles
        BY <2>1, <2>3 DEF S!vars
    <2> QED BY <1>7, <2>2, <2>3 DEF Open
<1>8. ASSUME NEW h \in Handles, Release(h) PROVE S!Next
    BY <1>8 DEF Release, Published, S!Next, S!Release
<1>9. CASE DriveStep \/ Expire \/ UNCHANGED vars
    BY <1>9, <1>2 DEF DriveStep, RefreshTokens, ClearHeader, AppendHeader, LockUpdate,
       UnlockUpdate,
                      Renew, Expire, restOfDrive, vars
<1>10. CASE Crash
    <2>1. Published' = disk /\ handles' = [h \in Handles |-> Closed]
        BY <1>1, <1>10 DEF TypeOK, Crash, Published, Downloading
    <2>2. CASE \A w \in Workers : pc[w] \notin Downloading
        <3>1. Published = disk
            BY <1>1, <2>2 DEF TypeOK, Published
        <3> QED BY <2>1, <3>1 DEF S!Next, S!Shutdown
    <2>3. ASSUME NEW w \in Workers, pc[w] \in Downloading PROVE S!Next
        <3>1. file[w] \in Files /\ disk[file[w]] \in Contents
            BY <1>1, <2>3 DEF IInv, TypeOK, Exclusive, Fetching, Locked
        <3>2. \A f \in Files : Published[f] = IF f = file[w] THEN Absent ELSE disk[f]
            BY <1>1, <2>3 DEF Published, Exclusive, Locked
        <3>3. Published' = [Published EXCEPT ![file[w]] = disk[file[w]]]
            <4>1. disk = [f \in Files |-> disk[f]]
                BY <1>1 DEF TypeOK
            <4>2. [Published EXCEPT ![file[w]] = disk[file[w]]] = [f \in Files |-> disk[f]]
                <5>1. DOMAIN Published = Files
                    BY DEF Published
                <5> QED BY <3>1, <3>2, <5>1
            <4> QED BY <2>1, <4>1, <4>2
        <3>4. S!Publish(file[w], disk[file[w]])
            BY <3>1, <3>2, <3>3 DEF S!Publish
        <3> QED BY <2>1, <3>1, <3>4 DEF S!Next, S!Shutdown
    <2> QED BY <2>2, <2>3
<1> QED BY <1>3, <1>4, <1>5, <1>6, <1>7, <1>8, <1>9, <1>10 DEF Next, Request, WorkerStep, Download

-----------------------------------------------------------------------------
(* Theorems                                                                 *)

\* The threads, the files and the descriptors have the shape the model gives them.
THEOREM FileTypeCorrect == Spec => []TypeOK
<1>1. IInv => TypeOK
    BY DEF IInv
<1> QED BY <1>1, InvariantIInv, PTL

\* Who opens a file gets a whole one, unless its download was broken off, refused
\* for want of a valid token, or cut short by a crash.
THEOREM CacheWholeCorrect == Spec => []CacheWhole
<1>1. IInv => CacheWhole
    BY DEF IInv, TypeOK, CacheWhole, Whole, Settled
<1> QED BY <1>1, InvariantIInv, PTL

\* A read alone on its descriptor reads at the offset it was given.
THEOREM LoneReadsCorrect == Spec => []LoneReadsRight
<1>1. IInv => LoneReadsRight
    BY DEF IInv
<1> QED BY <1>1, InvariantIInv, PTL

\* fuseapi_open, _read and _release over fscache implement a store of files that
\* are written once, whatever the threads, the Drive thread and crashes do.
THEOREM StoreCorrect == Spec => StoreSpec
<1>1. IInv /\ IInv' /\ [Next]_vars => [S!Next]_(S!vars)
    BY StepStore
<1> QED BY <1>1, InitStore, InvariantIInv, PTL DEF Spec, StoreSpec, S!Spec

=============================================================================
