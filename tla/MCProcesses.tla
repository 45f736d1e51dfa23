----------------------------- MODULE MCProcesses -----------------------------
(* Small instances of module Processes.                                    *)
EXTENDS Processes, TLC

CONSTANTS s1, v1, v2, x1, o1

SessionAndTerminal == [i \in {s1, x1} |-> o1]
OneAttempt == [i \in {v1, v2} |-> IF i = v1 THEN 1 ELSE 0]

NoOwner == [i \in {} |-> o1]
OneService == [i \in {v1} |-> 1]
=============================================================================
