------------------------------- MODULE Mirror -------------------------------
(***************************************************************************)
(* What the metadata cache promises about the Drive it mirrors: a tree of  *)
(* Drive files that only ever grows or is rearranged, in which every file  *)
(* sits where the Drive once had it, below a folder that is in the tree    *)
(* already, until a change token is saved; from then on it is frozen.      *)
(***************************************************************************)
CONSTANTS Uuids, Root, Tokens, Empty

VARIABLES
    claims,     \* every <<file, parent>> the Drive has ever had
    tree,       \* the mirrored files, each with its parent
    token       \* the saved change token

vars == <<claims, tree, token>>

Init ==
    /\ claims \in SUBSET (Uuids \X Uuids)
    /\ DOMAIN tree = {}
    /\ token = Empty

\* The Drive changes.
Claim ==
    /\ claims' \in SUBSET (Uuids \X Uuids)
    /\ claims \subseteq claims'
    /\ UNCHANGED <<tree, token>>

\* A file is recorded, for the first time or anew.
Place(u, p) ==
    /\ token = Empty
    /\ <<u, p>> \in claims
    /\ u # Root
    /\ p \in DOMAIN tree \cup {Root}
    /\ tree' = [v \in DOMAIN tree \cup {u} |-> IF v = u THEN p ELSE tree[v]]
    /\ UNCHANGED <<claims, token>>

\* The scan is over.
Save(t) ==
    /\ token = Empty
    /\ token' = t
    /\ UNCHANGED <<claims, tree>>

Next == Claim \/ (\E u, p \in Uuids : Place(u, p)) \/ (\E t \in Tokens : Save(t))

Spec == Init /\ [][Next]_vars

=============================================================================
