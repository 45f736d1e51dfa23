--------------------------- MODULE MCInputQueues ---------------------------
(* Small instances of module InputQueues.                                  *)
EXTENDS InputQueues, TLC

SlotSymmetry == Permutations(Slot)
=============================================================================
