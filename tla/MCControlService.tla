-------------------------- MODULE MCControlService --------------------------
(* Small instances of module ControlService. *)
EXTENDS ControlService, TLC

SlotSymmetry == Permutations(Slot)
=============================================================================
