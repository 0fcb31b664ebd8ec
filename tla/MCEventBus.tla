----------------------------- MODULE MCEventBus -----------------------------
(***************************************************************************)
(* EventBus for TLC: publishers are interchangeable, which the safety     *)
(* run uses.                                                               *)
(***************************************************************************)
EXTENDS EventBus, TLC

Symmetry == Permutations(Publisher)
=============================================================================
