------------------------- MODULE MCReleasePublisher -------------------------
(* ReleasePublisher with three packages, a number each.                     *)
EXTENDS ReleasePublisher
=============================================================================
