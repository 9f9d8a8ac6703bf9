-------------------------------- MODULE Auth --------------------------------
(***************************************************************************)
(* The access tokens of drive-fuse-sync: authorize, refresh_tokens,        *)
(* get_tokens, drive_setup and what drive_run does about them              *)
(* (src/src/driveapi.c), and the row of dfs_token (dbcache_auth_load and   *)
(* _store, src/src/dbcache.c), over any number of processes, each of which *)
(* may be set up first, stopped or killed.                                 *)
(*                                                                         *)
(* Times are kept as what is left until them: a copy of an access token is *)
(* the time Drive will go on accepting it, 0 when it does not.             *)
(***************************************************************************)
EXTENDS JsonStream

CONSTANTS
    Lifetimes,      \* the values of "expires_in" Drive answers with
    IntLeft         \* time until time_t no longer fits an int (the year 2038)

ASSUME AuthAssumption ==
    /\ Lifetimes \subseteq Nat \ {0}
    /\ \E n \in Lifetimes : \A m \in Lifetimes : m <= n
    /\ IntLeft \in Nat

VARIABLES
    pc,             \* where the Drive thread, or drive_setup before it, is
    setup,          \* it is drive_setup
    mem,            \* token_type and access_token, refresh_token, expiration_time
    db,             \* the row of dfs_token
    auth_chunk,     \* the access token in the header of the requests
    answer,         \* what Drive answers to the request under way
    left_over,      \* what jauth pointed to when authorize last returned
    elapsed,        \* time since authorize set expiration_time
    int_left,       \* time until INT_MAX, -1 when past
    prompt          \* the request under way is answered, and used, at once

authVars == <<setup, mem, db, auth_chunk, answer, left_over, elapsed, int_left, prompt>>
vars == <<pc, authVars, streamVars>>

Longest == CHOOSE n \in Lifetimes : \A m \in Lifetimes : m <= n

\* "misled" is history: the tokens were taken from an answer to an earlier request.
Blank == [access |-> 0, refresh |-> FALSE, left |-> 0, misled |-> FALSE]
Tokens == [access : 0..Longest, refresh : BOOLEAN, left : 0..Longest, misled : BOOLEAN]

\* The fields of an answer: an access token, whether there is a refresh token, the lifetime.
NoFields == [access |-> 0, refresh |-> FALSE, expires_in |-> 0]
Answers == [access : 0..Longest, refresh : BOOLEAN, expires_in : Lifetimes \cup {0}]
NoObject == [access |-> 0, refresh |-> FALSE, expires_in |-> -1]

PCs == {"down", "load", "check", "authorize", "perform", "take", "store", "header", "use"}

TypeOK ==
    /\ StreamTypeOK
    /\ pc \in PCs /\ setup \in BOOLEAN /\ prompt \in BOOLEAN
    /\ mem \in Tokens /\ db \in Tokens
    /\ auth_chunk \in 0..Longest
    /\ answer \in Answers /\ left_over \in Answers \cup {NoObject}
    /\ elapsed \in 0..Longest /\ int_left \in -1..IntLeft

\* A database whose schema has been made holds "(invalid)" for every token.
Init ==
    /\ StreamInit
    /\ pc = "down" /\ setup = FALSE /\ prompt = FALSE
    /\ mem = Blank /\ db = Blank
    /\ auth_chunk = 0
    /\ answer = NoFields /\ left_over = NoObject
    /\ elapsed = 0 /\ int_left = IntLeft

-----------------------------------------------------------------------------
(* The process                                                              *)

\* main, with and without --setup.
Start ==
    /\ pc = "down"
    /\ \/ setup' = FALSE /\ pc' = "load"
       \/ setup' = TRUE /\ pc' = "authorize"
    /\ mem' = Blank /\ auth_chunk' = 0 /\ left_over' = NoObject
    /\ UNCHANGED <<db, answer, elapsed, int_left, prompt, streamVars>>

\* drive_run loads the row, after drive_setup as well.
Load ==
    /\ pc = "load"
    /\ mem' = db /\ setup' = FALSE
    /\ pc' = "check"
    /\ UNCHANGED <<db, auth_chunk, answer, left_over, elapsed, int_left, prompt, streamVars>>

Crash ==
    /\ pc # "down" /\ pc' = "down" /\ prompt' = FALSE
    /\ UNCHANGED <<setup, mem, db, auth_chunk, answer, left_over, elapsed, int_left, streamVars>>

\* keep_running is looked at by both loops.
Stop ==
    /\ pc \in {"check", "use"} /\ pc' = "down" /\ prompt' = FALSE
    /\ UNCHANGED <<setup, mem, db, auth_chunk, answer, left_over, elapsed, int_left, streamVars>>

-----------------------------------------------------------------------------
(* drive_run                                                                *)

CheckExpired ==
    /\ pc = "check"
    /\ pc' = IF mem.left = 0 THEN "authorize" ELSE "header"
    /\ UNCHANGED <<authVars, streamVars>>

MakeHeader ==
    /\ pc = "header"
    /\ auth_chunk' = mem.access
    /\ pc' = "use" /\ prompt' = FALSE
    /\ UNCHANGED <<setup, mem, db, answer, left_over, elapsed, int_left, streamVars>>

\* Mutation: the break out of the inner loop is missing.
IdleExpired_stays ==
    /\ pc = "use" /\ mem.left = 0
    /\ UNCHANGED <<pc, authVars, streamVars>>

\* Scans and polls go on, with this header, for any time; only then is the clock asked.
IdleExpired ==
    /\ pc = "use" /\ mem.left = 0
    /\ pc' = "check"
    /\ UNCHANGED <<authVars, streamVars>>

-----------------------------------------------------------------------------
(* authorize, on behalf of refresh_tokens or, in drive_setup, get_tokens     *)

\* Mutation: all the tokens are cleared.
Authorize_clearsAll ==
    /\ pc = "authorize"
    /\ mem' = Blank
    /\ elapsed' = 0
    /\ pc' = "perform"
    /\ UNCHANGED <<setup, db, auth_chunk, answer, left_over, int_left, prompt, streamVars>>

\* The access token is cleared, and expiration_time is now.
Authorize ==
    /\ pc = "authorize"
    /\ mem' = [Blank EXCEPT !.refresh = mem.refresh]
    /\ elapsed' = 0
    /\ pc' = "perform"
    /\ UNCHANGED <<setup, db, auth_chunk, answer, left_over, int_left, prompt, streamVars>>

Grants == {[access |-> n, refresh |-> r, expires_in |-> n] : n \in Lifetimes, r \in BOOLEAN}

\* A new access token needs a code, which the user pastes, or a refresh token.
Request(fields) ==
    /\ pc = "perform"
    /\ fields \in Grants => setup \/ mem.refresh
    /\ answer' = fields
    /\ Perform({"null"} \cup IF left_over = NoObject THEN {} ELSE {"stale"})
    /\ pc' = "take"
    /\ UNCHANGED <<setup, mem, db, auth_chunk, left_over, elapsed, int_left>>

AnyRequest == \E fields \in Grants \cup {NoFields} : Request(fields) /\ prompt' = FALSE

\* The request that goes well: the answer arrives at once, with nothing behind it.
GoodRequest ==
    /\ \E fields \in Grants : Request(fields)
    /\ ~junk' /\ reach' = ValueLen
    /\ prompt' = TRUE

Chunk ==
    /\ pc = "take" /\ Arrives
    /\ parse_json
    /\ UNCHANGED <<pc, authVars>>

Object == CASE pointer = "null" -> NoObject [] pointer = "answer" -> answer
            [] pointer = "stale" -> left_over

Taken == IF Object = NoObject THEN NoFields ELSE Object

Later(n, t) == IF n > t THEN n - t ELSE 0

\* Mutation: the lifetime is counted from the end of the request.
Take_fromNow ==
    /\ pc = "take" /\ ~Arrives
    /\ mem' = [access |-> Taken.access, refresh |-> mem.refresh \/ Taken.refresh,
               left |-> (5 * Taken.expires_in) \div 6,
               misled |-> pointer = "stale"]
    /\ left_over' = Object
    /\ pc' = "store"
    /\ UNCHANGED <<setup, db, auth_chunk, answer, elapsed, int_left, prompt, streamVars>>

\* Whatever the request came to, the fields of the object pointed to are taken, and
\* expiration_time is 5/6 of the lifetime after the time set at the beginning.
Take ==
    /\ pc = "take" /\ ~Arrives
    /\ mem' = [access |-> Taken.access, refresh |-> mem.refresh \/ Taken.refresh,
               left |-> Later((5 * Taken.expires_in) \div 6, elapsed),
               misled |-> pointer = "stale"]
    /\ left_over' = Object
    /\ pc' = "store"
    /\ UNCHANGED <<setup, db, auth_chunk, answer, elapsed, int_left, prompt, streamVars>>

\* expiration_time as dbcache_auth_store casts it to int and _auth_load reads it back: a
\* time beyond INT_MAX comes back as one long past.
AsInt(left) == IF left > int_left THEN 0 ELSE left

Store ==
    /\ pc = "store"
    /\ db' = [mem EXCEPT !.left = AsInt(@)]
    /\ pc' = IF setup THEN "load" ELSE "header"
    /\ UNCHANGED <<setup, mem, auth_chunk, answer, left_over, elapsed, int_left, prompt, streamVars>>

-----------------------------------------------------------------------------
(* Time passes for every copy of a token and for the clock.                 *)

Aged(c) == [c EXCEPT !.access = Later(@, 1), !.left = Later(@, 1)]

Tick ==
    /\ ~prompt
    /\ mem' = Aged(mem) /\ db' = Aged(db)
    /\ auth_chunk' = Later(auth_chunk, 1)
    /\ answer' = [answer EXCEPT !.access = Later(@, 1)]
    /\ left_over' = [left_over EXCEPT !.access = Later(@, 1)]
    /\ elapsed' = IF elapsed < Longest THEN elapsed + 1 ELSE Longest
    /\ int_left' = IF int_left < 0 THEN -1 ELSE int_left - 1
    /\ UNCHANGED <<pc, setup, prompt, streamVars>>

ThreadStep ==
    \/ Load \/ CheckExpired \/ MakeHeader \/ IdleExpired
    \/ Authorize \/ AnyRequest \/ GoodRequest \/ Chunk \/ Take \/ Store

Next == ThreadStep \/ Start \/ Stop \/ Crash \/ Tick

Spec == Init /\ [][Next]_vars

(* The thread is scheduled, time goes on, and of the requests it makes      *)
(* again and again some go well.                                            *)
FairSpec == Spec /\ WF_vars(ThreadStep) /\ WF_vars(Tick) /\ SF_vars(GoodRequest)

-----------------------------------------------------------------------------
(* Correctness                                                              *)

\* Until the time the program reckons with, Drive accepts the token it holds, and the one in
\* the header of its requests, also when that time was stored and loaded by another process
\* and did not fit an int (authorize, dbcache_auth_store, _auth_load, drive_run).  The
\* exception is a token taken from an earlier answer through the uninitialised jauth.
BeliefSound ==
    mem.left > 0 /\ ~mem.misled =>
        mem.access > 0 /\ (pc = "use" => auth_chunk > 0)

\* No refresh, failed, cut short, killed in the middle or misled, loses the refresh token in
\* the table: only drive_setup puts another, or none, in its place (authorize).
RefreshKept == [][db.refresh /\ ~db'.refresh => setup]_vars

\* A process that has a refresh token and whose requests Drive refuses comes by a new access
\* token, as long as it is not ended (drive_run, authorize).
TokenRenewed ==
    pc \notin {"down", "load"} /\ mem.refresh /\ auth_chunk = 0 ~> auth_chunk > 0 \/ pc = "down"

=============================================================================
