-------------------------- MODULE PriorityServer --------------------------
(***************************************************************************)
(* What the state queue promises its callers, without queue positions,     *)
(* stale states or handlers: a single server.  Jobs arrive, wait, are      *)
(* served one at a time - always one that no waiting job outranks - and    *)
(* retire; a retired job never comes back.  A job may be served within the *)
(* step that starts it and may leave a successor behind, and a crash       *)
(* retires everything.                                                     *)
(***************************************************************************)
EXTENDS Naturals

CONSTANT Job           \* records with at least the fields id and prio

VARIABLES waiting,     \* jobs that have arrived and were not started
          serving,     \* the job being served: a set of at most one job
          retired      \* identities that have left for good

jobVars == <<waiting, serving, retired>>

Ids(jobs) == {j.id : j \in jobs}
Known == Ids(waiting) \cup Ids(serving) \cup retired

\* At most one job arrives in a step, under an identity never seen before.
Arrivals == {{}} \cup {{j} : j \in {k \in Job : k.id \notin Known}}

MostUrgent(jobs) == {j \in jobs : \A k \in jobs : k.prio <= j.prio}

PSInit == waiting = {} /\ serving = {} /\ retired = {}

Arrive ==
    /\ \E new \in Arrivals : waiting' = waiting \cup new
    /\ UNCHANGED <<serving, retired>>

Begin ==
    /\ serving = {}
    /\ \E new \in Arrivals : \E j \in MostUrgent(waiting \cup new) :
          /\ serving' = {j}
          /\ waiting' = (waiting \cup new) \ {j}
    /\ UNCHANGED retired

ServeAtOnce ==
    /\ serving = {}
    /\ \E new \in Arrivals : \E j \in MostUrgent(waiting \cup new) :
       \E successor \in Arrivals :
          /\ Ids(successor) \cap Ids(new) = {}
          /\ waiting' = ((waiting \cup new) \ {j}) \cup successor
          /\ retired' = retired \cup {j.id}
    /\ UNCHANGED serving

Finish ==
    /\ serving # {}
    /\ retired' = retired \cup Ids(serving)
    /\ serving' = {}
    /\ UNCHANGED waiting

Crash ==
    /\ retired' = Known
    /\ waiting' = {} /\ serving' = {}

PSNext == Arrive \/ Begin \/ ServeAtOnce \/ Finish \/ Crash

PSSpec == PSInit /\ [][PSNext]_jobVars
=============================================================================
