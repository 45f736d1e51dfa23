--------------------------- MODULE MCViewerControl ---------------------------
(* Small instances of module ViewerControl.                                *)
EXTENDS ViewerControl, TLC

ViewerSymmetry == Permutations(Session) \cup Permutations(Socket)
=============================================================================
