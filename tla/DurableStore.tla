---------------------------- MODULE DurableStore ----------------------------
(***************************************************************************)
(* What the memory storage promises its callers: a set of memories in the  *)
(* running process, and the set a restart brings back.  The second is      *)
(* replaced only by the whole of the first, and a start takes the whole of *)
(* the second.  Where files are not safe, what is kept may be lost, and    *)
(* then all of it.                                                         *)
(***************************************************************************)
CONSTANT Ids    \* the memories there can be

VARIABLES
    on,         \* the storage serves its callers
    live,       \* the memories of the running process, {} while none runs
    kept,       \* the memories a restart brings back
    safe        \* a file is replaced in one step and can always be read

vars == <<on, live, kept, safe>>

Init == on = FALSE /\ live = {} /\ kept = {} /\ safe \in BOOLEAN

\* One memory is added or taken away; what is kept does not follow yet.
Change ==
    /\ on
    /\ \E i \in Ids : live' \in {live \cup {i}, live \ {i}}
    /\ UNCHANGED <<on, kept, safe>>

Keep == on /\ kept' = live /\ UNCHANGED <<on, live, safe>>

Crash == on' = FALSE /\ live' = {} /\ UNCHANGED <<kept, safe>>

Start ==
    /\ ~on /\ on' = TRUE
    /\ live' = kept \/ (~safe /\ live' = {})
    /\ UNCHANGED <<kept, safe>>

Lose == ~safe /\ kept' = {} /\ UNCHANGED <<on, live, safe>>

Next == Change \/ Keep \/ Crash \/ Start \/ Lose

Spec == Init /\ [][Next]_vars
=============================================================================
