----------------------------- MODULE MCWorkflow -----------------------------
(***************************************************************************)
(* WorkflowEngine for TLC: the shapes of the workflows in                  *)
(* src/modules/sys_module/workflows/ (the conditional at the end of quick  *)
(* phrases is one last step), and three a WorkflowDefinition allows:       *)
(* Custom, Long and Late take Approve through its other branches.          *)
(***************************************************************************)
EXTENDS WorkflowEngine

News == <<"last">>
Weather == <<"ask", "last">>
Analysis == <<"ask", "ask", "work", "last">>
Clipboard == <<"ask", "work", "ask", "last">>
Translate == <<"ask", "ask", "work", "llm", "last">>
Custom == <<"ask", "work", "work", "ask", "last">>
Phrases == <<"ask", "llm", "ask", "last">>
Long == <<"ask", "work", "work", "work", "llm", "last">>
Late == <<"ask", "llm", "work", "last">>

MCChains == {News, Weather, Analysis, Clipboard, Translate, Custom, Phrases, Long, Late}
=============================================================================
