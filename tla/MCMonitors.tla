----------------------------- MODULE MCMonitors -----------------------------
(***************************************************************************)
(* Monitors for TLC: two tasks for one worker, so that one has to wait.    *)
(***************************************************************************)
EXTENDS Monitors

MCTasks == {"t1", "t2"}
=============================================================================
