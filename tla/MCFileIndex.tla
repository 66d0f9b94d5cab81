----------------------------- MODULE MCFileIndex -----------------------------
(* FileIndex with model values for its files and workers. *)
EXTENDS FileIndex, TLC

\* Files and workers are only compared for equality.
Symmetry == Permutations(Files) \cup Permutations(Workers)
=============================================================================
