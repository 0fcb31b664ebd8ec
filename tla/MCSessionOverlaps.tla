------------------------- MODULE MCSessionOverlaps -------------------------
(***************************************************************************)
(* Values for SessionOverlaps: the priorities of MCSessionLifecycle.       *)
(***************************************************************************)
EXTENDS SessionOverlaps

MCCustomPriorities == {10, 30, 50, 100}
=============================================================================
