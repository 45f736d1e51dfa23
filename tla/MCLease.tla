------------------------------- MODULE MCLease -------------------------------
(* A small instance of module Lease: two clients and a takeover request.   *)
(* No symmetry, because the instance checks a liveness property.           *)
EXTENDS Lease
=============================================================================
