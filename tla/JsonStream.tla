----------------------------- MODULE JsonStream -----------------------------
(***************************************************************************)
(* A request whose answer is parsed while it arrives: curl hands every     *)
(* chunk of the body to parse_json (src/src/driveapi.c), which feeds it to *)
(* a json_tokener and leaves what that returns in the caller's pointer.    *)
(*                                                                         *)
(* A body is ValueLen units of a JSON value with white space behind.  curl *)
(* cuts it up as it likes, and the connection may end at any point.  The   *)
(* tokener (json-c) yields the value with the chunk that completes it, and *)
(* is then ready for another.                                              *)
(***************************************************************************)
EXTENDS Integers

CONSTANTS
    ValueLen,       \* units of the value
    MaxBlank        \* bound: units of white space behind it

ASSUME StreamAssumption == ValueLen \in Nat \ {0} /\ MaxBlank \in Nat

VARIABLES
    reach,          \* how much of the body the connection brings before it ends
    junk,           \* the body is not JSON, or a bare null
    from, sent,     \* where the last chunk began and ended
    pointer         \* *context->pointer: "null", "answer", or "stale", which is what a
                    \*   pointer nobody has set may hold: the answer of an earlier call

streamVars == <<reach, junk, from, sent, pointer>>

StreamTypeOK ==
    /\ reach \in 0..(ValueLen + MaxBlank) /\ junk \in BOOLEAN
    /\ from \in Nat /\ sent \in Nat /\ from <= sent /\ sent <= reach
    /\ pointer \in {"null", "answer", "stale"}

StreamInit == reach = 0 /\ junk = FALSE /\ from = 0 /\ sent = 0 /\ pointer = "null"

\* The callers pass the address of a variable they have not initialised.
Perform(garbage) ==
    /\ reach' \in 0..(ValueLen + MaxBlank)
    /\ junk' \in BOOLEAN
    /\ from' = 0 /\ sent' = 0
    /\ pointer' \in garbage

Arrives == sent < reach

Completes(n) == sent < ValueLen /\ ValueLen <= sent + n

\* Mutation: the size of a chunk is counted with a NUL behind it.
parse_json_countsNul ==
    \E n \in 1..(reach - sent) :
        /\ from' = sent
        /\ sent' = sent + n + 1
        /\ pointer' = IF Completes(n) /\ ~junk THEN "answer" ELSE "null"
        /\ reach' = IF junk THEN sent' ELSE reach
        /\ UNCHANGED junk

\* Mutation: the pointer is set only when there is an object.
parse_json_keepsPointer ==
    \E n \in 1..(reach - sent) :
        /\ from' = sent
        /\ sent' = sent + n
        /\ pointer' = IF Completes(n) /\ ~junk THEN "answer" ELSE pointer
        /\ reach' = IF junk THEN sent' ELSE reach
        /\ UNCHANGED junk

\* One chunk.  A value not yet complete, and white space, is NULL and "continue"; what
\* cannot be parsed is NULL and an error, upon which curl gives up.
parse_json ==
    \E n \in 1..(reach - sent) :
        /\ from' = sent
        /\ sent' = sent + n
        /\ pointer' = IF Completes(n) /\ ~junk THEN "answer" ELSE "null"
        /\ reach' = IF junk THEN sent' ELSE reach
        /\ UNCHANGED junk

\* However the body is cut up and wherever it ends (parse_json): the caller is left with
\* the answer if all of the value arrived and the last chunk had some of it, with what an
\* earlier call left if nothing arrived at all, and with nothing otherwise.
WholeOrNothing ==
    ~Arrives =>
        /\ pointer = "answer" <=> ~junk /\ reach >= ValueLen /\ from < ValueLen
        /\ pointer = "stale" => reach = 0

=============================================================================
