---------------------------- MODULE MCDriveSync ----------------------------
(***************************************************************************)
(* Instances of DriveSync for TLC: a folder d with a file f in it, and a   *)
(* second folder, or a document native to Google Docs, e.                  *)
(***************************************************************************)
EXTENDS DriveSync

CONSTANTS root, d, e, f, na, nb

MCUuids == {root, d, e, f}
MCNames == {na, nb}

Entry(p, n, k) == [parent |-> p, name |-> n, kind |-> k]
RootEntry == Entry(Empty, RootName, "folder")

\* / -> d -> f, and / -> e
Nested == root :> RootEntry @@ d :> Entry(root, na, "folder") @@ f :> Entry(d, na, "file")
       @@ e :> Entry(root, nb, "folder")

\* the same with a document native to Google Docs in the place of e
WithNative == [Nested EXCEPT ![e].kind = "native"]

NestedOnly == {Nested}
WithNativeOnly == {WithNative}

\* The paths of d and f, and of a directory made beside or below them.
MCPaths == {<<na>>, <<na, na>>}
OnePath == {<<na>>}

=============================================================================
