--------------------------- MODULE MCMemoryBrowse ---------------------------
(* MemoryBrowse with rows numbered from one.                               *)
EXTENDS MemoryBrowse
MCRow == 1..4
MCInitially == 1..3
=============================================================================
