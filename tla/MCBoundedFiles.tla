---------------------------- MODULE MCBoundedFiles ----------------------------
(* Small instances of module BoundedFiles.                                 *)
EXTENDS BoundedFiles, TLC

Symmetry == Permutations(FileName) \cup Permutations(Object)
=============================================================================
