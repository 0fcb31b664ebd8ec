---------------------------- MODULE MCSleepWake ----------------------------
(***************************************************************************)
(* SleepWake for TLC: two modules, so that one can be unloaded while the   *)
(* other is reloaded, and items enough for a sleep with a chat before or   *)
(* behind it.                                                              *)
(***************************************************************************)
EXTENDS SleepWake

MCModuleOrder == <<"nlp", "llm">>
MCCustomPriorities == {}
=============================================================================
