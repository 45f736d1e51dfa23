----------------------------- MODULE MCStateLock -----------------------------
(* A small instance of module StateLock: four commands, two of which may   *)
(* crash: one leaves its lock, the other takes it and leaves it again      *)
(* while the third reclaims and the fourth comes.  No symmetry, because    *)
(* the instance checks a liveness property.                                *)
EXTENDS StateLock
=============================================================================
