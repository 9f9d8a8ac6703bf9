---------------------------- MODULE MCFileCache ----------------------------
(***************************************************************************)
(* Instances of FileCache for TLC; the workers, the files and the          *)
(* descriptors are each interchangeable.                                   *)
(***************************************************************************)
EXTENDS FileCache, TLC

Symmetry == Permutations(Workers) \cup Permutations(Files) \cup Permutations(Handles)

=============================================================================
