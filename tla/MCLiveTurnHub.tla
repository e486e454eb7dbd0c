--------------------------- MODULE MCLiveTurnHub ---------------------------
(* Model checking of LiveTurnHub on two turns and two viewers.             *)
EXTENDS LiveTurnHub, TLC

MCCall == {"call"}
ViewerSymmetry == Permutations(Viewer)
=============================================================================
