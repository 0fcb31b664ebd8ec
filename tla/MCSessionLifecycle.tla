------------------------ MODULE MCSessionLifecycle ------------------------
(***************************************************************************)
(* Values for SessionLifecycle.  The NLP module's priorities are literals  *)
(* of the module, so that the callers' priorities need no others.          *)
(***************************************************************************)
EXTENDS SessionLifecycle

MCCustomPriorities == {10, 30, 50, 100}
=============================================================================
