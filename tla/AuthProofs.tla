----------------------------- MODULE AuthProofs -----------------------------
(***************************************************************************)
(* For all lifetimes, all lengths of answers and all times until INT_MAX:  *)
(* the program never believes in a token longer than Drive does, only      *)
(* drive_setup loses the refresh token, and an answer is had whole or not  *)
(* at all.                                                                 *)
(*                                                                         *)
(* Why the belief is sound: every copy of the tokens, in memory, in the    *)
(* table and in the header, is believed in for no longer than it is        *)
(* accepted (Copies), and an answer on its way has, of the lifetime it     *)
(* names, lost no more than the time since authorize looked at the clock   *)
(* (OnItsWay).  Why the refresh token survives: until the thread stores    *)
(* its tokens, it has the one that is in the table (Carried).              *)
(***************************************************************************)
EXTENDS Auth, TLAPS

Running == {"check", "authorize", "perform", "take", "store", "header", "use"}

Copies ==
    /\ ~mem.misled => mem.left <= mem.access
    /\ ~db.misled => db.left <= db.access
    /\ pc = "use" /\ ~mem.misled => mem.left <= auth_chunk

OnItsWay == pc = "take" => answer.expires_in <= answer.access + elapsed

Carried == pc \in Running /\ ~setup /\ db.refresh => mem.refresh

IInv == TypeOK /\ WholeOrNothing /\ Copies /\ OnItsWay /\ Carried

LEMMA LongestType == Longest \in Nat \ {0} /\ \A n \in Lifetimes \cup {0} : n \in 0..Longest
<1>1. Longest \in Lifetimes /\ \A n \in Lifetimes : n <= Longest
    BY AuthAssumption DEF Longest
<1>2. \A n \in Lifetimes : n \in Nat \ {0}
    BY AuthAssumption
<1> QED BY <1>1, <1>2

\* 5/6 of a lifetime, rounded down, is not more than all of it.
LEMMA Margin == ASSUME NEW n \in Nat PROVE (5 * n) \div 6 \in Nat /\ (5 * n) \div 6 <= n
    OBVIOUS

LEMMA BlankType == Blank \in Tokens /\ NoFields \in Answers
<1>1. Longest \in Nat /\ 0 \in 0..Longest
    BY LongestType
<1>2. Blank \in Tokens
    BY <1>1 DEF Blank, Tokens
<1>3. NoFields \in Answers
    BY <1>1 DEF NoFields, Answers
<1> QED BY <1>2, <1>3

LEMMA InitIInv == Init => IInv
<1> SUFFICES ASSUME Init PROVE IInv
    OBVIOUS
<1> USE DEF Init, StreamInit
<1>1. TypeOK
    <2>1. StreamTypeOK
        <3>1. reach \in 0..(ValueLen + MaxBlank)
            BY StreamAssumption
        <3>2. from \in Nat /\ sent \in Nat /\ from <= sent /\ sent <= reach
            OBVIOUS
        <3> QED BY <3>1, <3>2 DEF StreamTypeOK
    <2>2. 0 \in 0..Longest
        BY LongestType
    <2>3. IntLeft \in -1..IntLeft
        BY AuthAssumption
    <2> QED BY <2>1, <2>2, <2>3, BlankType DEF TypeOK, PCs
<1>2. WholeOrNothing
    BY StreamAssumption DEF WholeOrNothing, Arrives
<1>3. Copies /\ OnItsWay /\ Carried
    BY DEF Copies, OnItsWay, Carried, Running, Blank
<1> QED BY <1>1, <1>2, <1>3 DEF IInv

-----------------------------------------------------------------------------
(* The process, and drive_run                                               *)

LEMMA StartStep == IInv /\ Start => IInv'
<1> SUFFICES ASSUME IInv, Start PROVE IInv'
    OBVIOUS
<1> USE DEF IInv, Start
<1>1. TypeOK'
    <2>1. 0 \in 0..Longest
        BY LongestType
    <2> QED BY <2>1, BlankType DEF TypeOK, StreamTypeOK, streamVars, PCs
<1>2. WholeOrNothing'
    BY DEF WholeOrNothing, Arrives, streamVars
<1>3. (Copies /\ OnItsWay /\ Carried)'
    BY DEF Copies, OnItsWay, Carried, Running, Blank
<1> QED BY <1>1, <1>2, <1>3

LEMMA LoadStep == IInv /\ Load => IInv'
<1> SUFFICES ASSUME IInv, Load PROVE IInv'
    OBVIOUS
<1> USE DEF IInv, Load
<1>1. TypeOK'
    BY DEF TypeOK, StreamTypeOK, streamVars, PCs
<1>2. WholeOrNothing'
    BY DEF WholeOrNothing, Arrives, streamVars
<1>3. (Copies /\ OnItsWay /\ Carried)'
    BY DEF Copies, OnItsWay, Carried, Running
<1> QED BY <1>1, <1>2, <1>3

LEMMA EndStep == IInv /\ (Crash \/ Stop) => IInv'
<1> SUFFICES ASSUME IInv, Crash \/ Stop PROVE IInv'
    OBVIOUS
<1> USE DEF IInv, Crash, Stop
<1>1. TypeOK'
    BY DEF TypeOK, StreamTypeOK, streamVars, PCs
<1>2. WholeOrNothing'
    BY DEF WholeOrNothing, Arrives, streamVars
<1>3. (Copies /\ OnItsWay /\ Carried)'
    BY DEF Copies, OnItsWay, Carried, Running
<1> QED BY <1>1, <1>2, <1>3

LEMMA LoopStep == IInv /\ (CheckExpired \/ IdleExpired) => IInv'
<1> SUFFICES ASSUME IInv, CheckExpired \/ IdleExpired PROVE IInv'
    OBVIOUS
<1> USE DEF IInv, CheckExpired, IdleExpired, authVars
<1>1. TypeOK'
    BY DEF TypeOK, StreamTypeOK, streamVars, PCs
<1>2. WholeOrNothing'
    BY DEF WholeOrNothing, Arrives, streamVars
<1>3. (Copies /\ OnItsWay /\ Carried)'
    BY DEF Copies, OnItsWay, Carried, Running
<1> QED BY <1>1, <1>2, <1>3

LEMMA MakeHeaderStep == IInv /\ MakeHeader => IInv'
<1> SUFFICES ASSUME IInv, MakeHeader PROVE IInv'
    OBVIOUS
<1> USE DEF IInv, MakeHeader
<1>1. TypeOK'
    BY DEF TypeOK, StreamTypeOK, streamVars, PCs, Tokens
<1>2. WholeOrNothing'
    BY DEF WholeOrNothing, Arrives, streamVars
<1>3. (Copies /\ OnItsWay /\ Carried)'
    BY DEF Copies, OnItsWay, Carried, Running
<1> QED BY <1>1, <1>2, <1>3

-----------------------------------------------------------------------------
(* authorize                                                                *)

LEMMA AuthorizeStep == IInv /\ Authorize => IInv'
<1> SUFFICES ASSUME IInv, Authorize PROVE IInv'
    OBVIOUS
<1> USE DEF IInv, Authorize
<1>1. TypeOK'
    <2>1. 0 \in 0..Longest
        BY LongestType
    <2>2. mem' \in Tokens
        BY BlankType DEF TypeOK, Tokens, Blank
    <2> QED BY <2>1, <2>2 DEF TypeOK, StreamTypeOK, streamVars, PCs
<1>2. WholeOrNothing'
    BY DEF WholeOrNothing, Arrives, streamVars
<1>3. (Copies /\ OnItsWay /\ Carried)'
    <2>1. mem' = [access |-> 0, refresh |-> mem.refresh, left |-> 0, misled |-> FALSE]
        BY DEF Blank
    <2> QED BY <2>1 DEF Copies, OnItsWay, Carried, Running
<1> QED BY <1>1, <1>2, <1>3

\* An answer has, when it is sent, all of the lifetime it names.
LEMMA FieldsFresh ==
    ASSUME NEW fields \in Grants \cup {NoFields}
    PROVE  fields \in Answers /\ fields.expires_in = fields.access
<1>1. CASE fields \in Grants
    <2>1. PICK n \in Lifetimes, r \in BOOLEAN :
              fields = [access |-> n, refresh |-> r, expires_in |-> n]
        BY <1>1 DEF Grants
    <2>2. n \in 0..Longest
        BY LongestType
    <2> QED BY <2>1, <2>2 DEF Answers
<1>2. CASE fields = NoFields
    BY <1>2, BlankType DEF NoFields
<1> QED BY <1>1, <1>2

LEMMA RequestStep == IInv /\ (AnyRequest \/ GoodRequest) => IInv'
<1>1. SUFFICES ASSUME IInv, NEW fields \in Grants \cup {NoFields}, Request(fields),
                      prompt' \in BOOLEAN
               PROVE  IInv'
    BY DEF AnyRequest, GoodRequest
<1> USE <1>1, FieldsFresh DEF IInv, Request, Perform
<1>2. TypeOK'
    BY StreamAssumption DEF TypeOK, StreamTypeOK, PCs
<1>3. WholeOrNothing'
    BY StreamAssumption DEF WholeOrNothing, Arrives
<1>4. (Copies /\ OnItsWay /\ Carried)'
    BY DEF Copies, OnItsWay, Carried, Running, TypeOK, Answers
<1> QED BY <1>2, <1>3, <1>4

\* Every chunk leaves of the pointer what the chunks so far make of it: the answer with the
\* one that completes it, nothing with any other.
LEMMA ChunkStep == IInv /\ Chunk => IInv'
<1> SUFFICES ASSUME IInv, Chunk PROVE IInv'
    OBVIOUS
<1>1. PICK n \in 1..(reach - sent) :
          /\ from' = sent
          /\ sent' = sent + n
          /\ pointer' = IF Completes(n) /\ ~junk THEN "answer" ELSE "null"
          /\ reach' = IF junk THEN sent' ELSE reach
          /\ UNCHANGED junk
    BY DEF Chunk, parse_json
<1>2. StreamTypeOK'
    BY <1>1, StreamAssumption DEF IInv, TypeOK, StreamTypeOK
<1>3. TypeOK'
    BY <1>2 DEF IInv, Chunk, TypeOK, authVars
<1>4. WholeOrNothing'
    BY <1>1, StreamAssumption DEF IInv, TypeOK, StreamTypeOK, WholeOrNothing, Arrives, Completes
<1>5. (Copies /\ OnItsWay /\ Carried)'
    BY DEF IInv, Chunk, authVars, Copies, OnItsWay, Carried, Running
<1> QED BY <1>3, <1>4, <1>5 DEF IInv

LEMMA ObjectType == TypeOK => Object \in Answers \cup {NoObject} /\ Taken \in Answers
BY AuthAssumption, LongestType
   DEF TypeOK, StreamTypeOK, Object, Taken, Answers, NoFields, NoObject

LEMMA TakeStep == IInv /\ Take => IInv'
<1> SUFFICES ASSUME IInv, Take PROVE IInv'
    OBVIOUS
<1> DEFINE belief == (5 * Taken.expires_in) \div 6
<1>1. /\ Object \in Answers \cup {NoObject} /\ Taken \in Answers
      /\ Taken.access \in 0..Longest /\ Taken.refresh \in BOOLEAN
      /\ Taken.expires_in \in 0..Longest
    <2>1. Object \in Answers \cup {NoObject} /\ Taken \in Answers
        BY ObjectType DEF IInv
    <2> QED BY <2>1, LongestType DEF Answers
<1>2. belief \in Nat /\ belief <= Taken.expires_in
    BY <1>1, LongestType, Margin
<1>3. mem' = [access |-> Taken.access, refresh |-> mem.refresh \/ Taken.refresh,
              left |-> Later(belief, elapsed), misled |-> pointer = "stale"]
    BY DEF Take
<1> HIDE DEF belief
<1>4. Later(belief, elapsed) \in 0..Longest
    <2>1. elapsed \in Nat /\ Longest \in Nat
        BY LongestType DEF IInv, TypeOK
    <2> QED BY <1>1, <1>2, <2>1 DEF Later
<1>5. TypeOK'
    <2>1. mem' \in Tokens
        BY <1>1, <1>3, <1>4 DEF IInv, TypeOK, Tokens
    <2> QED BY <1>1, <2>1 DEF IInv, Take, TypeOK, StreamTypeOK, streamVars, PCs
<1>6. WholeOrNothing'
    BY DEF IInv, Take, WholeOrNothing, Arrives, streamVars
<1>7. pointer # "stale" => Later(belief, elapsed) <= Taken.access
    <2>1. CASE pointer = "answer"
        <3>1. Taken.expires_in <= Taken.access + elapsed
            BY <2>1, AuthAssumption, LongestType
               DEF IInv, Take, OnItsWay, Taken, Object, TypeOK, Answers, NoFields, NoObject
        <3> QED BY <3>1, <1>1, <1>2, LongestType DEF Later, IInv, TypeOK
    <2>2. CASE pointer = "null"
        <3>1. Taken = NoFields
            BY <2>2 DEF Taken, Object
        <3> QED BY <3>1, <1>2, LongestType DEF NoFields, Later, IInv, TypeOK
    <2> QED BY <2>1, <2>2 DEF IInv, TypeOK, StreamTypeOK
<1>8. (Copies /\ OnItsWay /\ Carried)'
    <2>1. /\ mem'.access = Taken.access /\ mem'.left = Later(belief, elapsed)
          /\ mem'.misled = (pointer = "stale") /\ mem'.refresh = (mem.refresh \/ Taken.refresh)
        BY <1>3
    <2>2. Copies'
        BY <1>7, <2>1 DEF IInv, Take, Copies
    <2>3. (OnItsWay /\ Carried)'
        BY <2>1 DEF IInv, Take, OnItsWay, Carried, Running
    <2> QED BY <2>2, <2>3
<1> QED BY <1>5, <1>6, <1>8 DEF IInv

LEMMA StoreStep == IInv /\ Store => IInv'
<1> SUFFICES ASSUME IInv, Store PROVE IInv'
    OBVIOUS
<1>1. mem.left \in 0..Longest /\ AsInt(mem.left) \in 0..Longest /\ AsInt(mem.left) <= mem.left
    BY LongestType DEF IInv, TypeOK, Tokens, AsInt
<1>2. /\ db' \in Tokens
      /\ db'.left <= mem.left
      /\ db'.access = mem.access /\ db'.refresh = mem.refresh /\ db'.misled = mem.misled
    BY <1>1 DEF IInv, TypeOK, Tokens, Store
<1>3. TypeOK'
    BY <1>2 DEF IInv, Store, TypeOK, StreamTypeOK, streamVars, PCs
<1>4. WholeOrNothing'
    BY DEF IInv, Store, WholeOrNothing, Arrives, streamVars
<1>5. (Copies /\ OnItsWay /\ Carried)'
    <2>1. db'.left \in Nat /\ mem.left \in Nat /\ mem.access \in Nat
        BY <1>2, LongestType DEF IInv, TypeOK, Tokens
    <2> QED BY <1>2, <2>1 DEF IInv, Store, Copies, OnItsWay, Carried, Running
<1> QED BY <1>3, <1>4, <1>5 DEF IInv

-----------------------------------------------------------------------------
(* Time                                                                     *)

\* An hour takes no more from what is believed than from what is accepted.
LEMMA LaterMonotone ==
    ASSUME NEW m \in Nat, NEW n \in Nat
    PROVE  /\ Later(m, 1) \in Nat /\ Later(m, 1) <= m
           /\ m <= n => Later(m, 1) <= Later(n, 1)
BY DEF Later

LEMMA AgedType ==
    ASSUME NEW c \in Tokens
    PROVE  /\ Aged(c) \in Tokens
           /\ Aged(c).access = Later(c.access, 1) /\ Aged(c).left = Later(c.left, 1)
           /\ Aged(c).refresh = c.refresh /\ Aged(c).misled = c.misled
<1>1. c.access \in 0..Longest /\ c.left \in 0..Longest
    BY DEF Tokens
<1>2. Later(c.access, 1) \in 0..Longest /\ Later(c.left, 1) \in 0..Longest
    BY <1>1, LongestType DEF Later
<1> QED BY <1>2 DEF Aged, Tokens

LEMMA TickStep == IInv /\ Tick => IInv'
<1> SUFFICES ASSUME IInv, Tick PROVE IInv'
    OBVIOUS
<1> USE DEF IInv
<1>1. /\ mem \in Tokens /\ db \in Tokens
      /\ mem' = Aged(mem) /\ db' = Aged(db) /\ pc' = pc /\ setup' = setup
    BY DEF Tick, TypeOK
<1>2. auth_chunk' = Later(auth_chunk, 1) /\ auth_chunk \in 0..Longest /\ auth_chunk' \in 0..Longest
    BY LongestType DEF Tick, TypeOK, Later
<1>3. /\ answer' \in Answers
      /\ answer'.access = Later(answer.access, 1) /\ answer'.expires_in = answer.expires_in
    <2>1. answer \in Answers /\ answer.access \in 0..Longest
        BY DEF TypeOK, Answers
    <2>2. Later(answer.access, 1) \in 0..Longest
        BY <2>1, LongestType DEF Later
    <2> QED BY <2>1, <2>2 DEF Tick, Answers
<1>4. left_over' \in Answers \cup {NoObject}
    <2>1. CASE left_over \in Answers
        <3>1. left_over.access \in 0..Longest
            BY <2>1 DEF Answers
        <3>2. Later(left_over.access, 1) \in 0..Longest
            BY <3>1, LongestType DEF Later
        <3> QED BY <2>1, <3>2 DEF Tick, Answers
    <2>2. CASE left_over = NoObject
        <3>1. left_over' = NoObject
            BY <2>2 DEF Tick, Later, NoObject
        <3> QED BY <3>1
    <2> QED BY <2>1, <2>2 DEF TypeOK
<1>5. elapsed' \in 0..Longest /\ int_left' \in -1..IntLeft
    BY LongestType, AuthAssumption DEF Tick, TypeOK
<1>6. TypeOK'
    BY <1>1, <1>2, <1>3, <1>4, <1>5, AgedType DEF Tick, TypeOK, StreamTypeOK, streamVars
<1>7. WholeOrNothing'
    BY DEF Tick, WholeOrNothing, Arrives, streamVars
<1>8. Copies'
    <2>1. /\ mem.left \in Nat /\ mem.access \in Nat /\ db.left \in Nat /\ db.access \in Nat
          /\ auth_chunk \in Nat
        BY <1>1, <1>2, LongestType DEF Tokens
    <2> QED BY <1>1, <1>2, <2>1, AgedType, LaterMonotone DEF Copies
<1>9. OnItsWay'
    <2>1. SUFFICES ASSUME pc = "take" PROVE answer'.expires_in <= answer'.access + elapsed'
        BY <1>1 DEF OnItsWay
    <2>2. /\ answer.access \in 0..Longest /\ answer.expires_in \in 0..Longest
          /\ elapsed \in 0..Longest /\ answer.expires_in <= answer.access + elapsed
        BY <2>1, LongestType DEF TypeOK, Answers, OnItsWay
    <2>3. elapsed' = IF elapsed < Longest THEN elapsed + 1 ELSE Longest
        BY DEF Tick
    <2> QED BY <1>3, <2>2, <2>3, LongestType DEF Later
<1>10. Carried'
    BY <1>1, AgedType DEF Carried
<1> QED BY <1>6, <1>7, <1>8, <1>9, <1>10

-----------------------------------------------------------------------------
(* The theorems                                                             *)

LEMMA NextIInv == IInv /\ [Next]_vars => IInv'
<1> SUFFICES ASSUME IInv, [Next]_vars PROVE IInv'
    OBVIOUS
<1>1. CASE \/ Load \/ CheckExpired \/ MakeHeader \/ IdleExpired \/ Start \/ Stop \/ Crash
    BY <1>1, LoadStep, LoopStep, MakeHeaderStep, StartStep, EndStep
<1>2. CASE Authorize \/ AnyRequest \/ GoodRequest \/ Chunk \/ Take \/ Store
    BY <1>2, AuthorizeStep, RequestStep, ChunkStep, TakeStep, StoreStep
<1>3. CASE Tick
    BY <1>3, TickStep
<1>4. CASE UNCHANGED vars
    BY <1>4 DEF vars, authVars, streamVars, IInv, TypeOK, StreamTypeOK, WholeOrNothing, Arrives,
                Copies, OnItsWay, Carried
<1> QED BY <1>1, <1>2, <1>3, <1>4 DEF Next, ThreadStep

LEMMA Invariance == Spec => []IInv
<1> QED BY InitIInv, NextIInv, PTL DEF Spec

\* Every variable of the tokens and of the requests keeps its type (driveapi.c, dbcache.c).
THEOREM AuthTypeCorrect == Spec => []TypeOK
<1>1. IInv => TypeOK
    BY DEF IInv
<1> QED BY <1>1, Invariance, PTL

\* The caller of a request is left with a whole answer or with none, however the body is cut
\* up (parse_json).
THEOREM AnswerCorrect == Spec => []WholeOrNothing
<1>1. IInv => WholeOrNothing
    BY DEF IInv
<1> QED BY <1>1, Invariance, PTL

\* The program does not believe in a token, or send one, for longer than Drive accepts it,
\* through slow requests, restarts and the end of int (authorize, drive_run).
THEOREM BeliefCorrect == Spec => []BeliefSound
<1>1. IInv => BeliefSound
    <2>1. SUFFICES ASSUME IInv, mem.left > 0, ~mem.misled
                   PROVE  mem.access > 0 /\ (pc = "use" => auth_chunk > 0)
        BY DEF BeliefSound
    <2>2. mem.left \in Nat /\ mem.access \in Nat /\ auth_chunk \in Nat
        BY <2>1, LongestType DEF IInv, TypeOK, Tokens
    <2> QED BY <2>1, <2>2 DEF IInv, Copies
<1> QED BY <1>1, Invariance, PTL

\* No step but drive_setup's loses the stored refresh token (authorize, dbcache_auth_store).
THEOREM RefreshCorrect == Spec => RefreshKept
<1>1. IInv /\ [Next]_vars => [db.refresh /\ ~db'.refresh => setup]_vars
    <2>1. SUFFICES ASSUME IInv, Next, db.refresh, ~db'.refresh PROVE setup
        OBVIOUS
    <2>2. ~Tick
        BY <2>1, AgedType DEF Tick, IInv, TypeOK
    <2>3. CASE Store
        BY <2>1, <2>3 DEF Store, IInv, Carried, Running
    <2> QED BY <2>1, <2>2, <2>3
            DEF Next, ThreadStep, Start, Stop, Crash, Load, CheckExpired, MakeHeader, IdleExpired,
                Authorize, AnyRequest, GoodRequest, Request, Chunk, Take, authVars
<1> QED BY <1>1, Invariance, PTL DEF Spec, RefreshKept

=============================================================================
