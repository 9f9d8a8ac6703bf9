------------------------------ MODULE FileStore ------------------------------
(***************************************************************************)
(* What the file cache promises to the readers of the mount: a file gets   *)
(* its content once, whole or not, and everyone who opens it, now or after *)
(* any number of restarts, reads that content.                             *)
(***************************************************************************)
CONSTANTS Files, Handles, Contents, Absent, Closed

VARIABLES
    content,    \* what each file holds, Absent until it has been fetched
    handles     \* the file each handle is open on

vars == <<content, handles>>

Init ==
    /\ content = [f \in Files |-> Absent]
    /\ handles = [h \in Handles |-> Closed]

Publish(f, c) ==
    /\ content[f] = Absent
    /\ content' = [content EXCEPT ![f] = c]

Open(h, f) ==
    /\ handles[h] = Closed
    /\ content[f] # Absent
    /\ handles' = [handles EXCEPT ![h] = f]
    /\ UNCHANGED content

Release(h) ==
    /\ handles' = [handles EXCEPT ![h] = Closed]
    /\ UNCHANGED content

\* The process ends: the handles are gone, and one file may be left half fetched.
Shutdown ==
    /\ handles' = [h \in Handles |-> Closed]
    /\ UNCHANGED content \/ \E f \in Files, c \in Contents : Publish(f, c)

Next ==
    \/ \E f \in Files, c \in Contents : Publish(f, c) /\ UNCHANGED handles
    \/ \E h \in Handles, f \in Files : Open(h, f)
    \/ \E h \in Handles : Release(h)
    \/ Shutdown

Spec == Init /\ [][Next]_vars

=============================================================================
