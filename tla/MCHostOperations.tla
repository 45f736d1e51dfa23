--------------------------- MODULE MCHostOperations ---------------------------
(* Small instances of module HostOperations.                               *)
EXTENDS HostOperations, TLC

CONSTANTS desktop, executor

=============================================================================
