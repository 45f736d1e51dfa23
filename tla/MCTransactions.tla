--------------------------- MODULE MCTransactions ---------------------------
(* Small instances of module Transactions. *)
EXTENDS Transactions, TLC

Symmetry == Permutations(Id) \cup Permutations(Name)
=============================================================================
