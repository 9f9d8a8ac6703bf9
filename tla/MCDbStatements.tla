--------------------------- MODULE MCDbStatements ---------------------------
(***************************************************************************)
(* Instances of DbStatements for TLC: a table with two folders d and e of  *)
(* the Drive at the top, and updates that file d under e, or bring a file  *)
(* f of the same name to the top, where a path then finds it instead.      *)
(***************************************************************************)
EXTENDS DbStatements

CONSTANTS root, d, e, f, na, nb

MCUuids == {root, d, e, f}
MCNames == {na, nb}

DriveRow(u, n, t, p) == [uuid |-> u, name |-> n, type |-> t, sync |-> 1, parent |-> p]

Folders == <<[RootRow EXCEPT !.uuid = Root], DriveRow(d, na, Dir, 1), DriveRow(e, nb, Dir, 1)>>
MCTables == {Folders}

Answer(u, n, p, k) == [uuid |-> u, name |-> n, parent |-> p, kind |-> k]
RootAnswer == Answer(root, RootName, Empty, "folder")
MoveD == Answer(d, na, e, "folder")
BringF == Answer(f, na, root, "file")
MCFiles == {RootAnswer, MoveD, BringF}

MCPaths == {<<na>>, <<na, nb>>, <<na, nb, na>>}

MCSymmetry == Permutations(Workers)

=============================================================================
