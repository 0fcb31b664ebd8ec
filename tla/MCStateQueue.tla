---------------------------- MODULE MCStateQueue ----------------------------
(***************************************************************************)
(* StateQueue for TLC.  Few identities are enough: two items to be ordered,*)
(* one to run, one to arrive in between.                                   *)
(***************************************************************************)
EXTENDS StateQueue

\* 10 is the priority NLP gives a CHAT that resumes an interrupted one.
MCCustomPriorities == {10}
=============================================================================
