--------------------------- MODULE SessionOverlaps ---------------------------
(***************************************************************************)
(* What can go wrong with sessions when the threads' operations overlap.   *)
(* Two histories, which the threads do not see, record the two slips that  *)
(* the code's check-then-act allows; the properties say that nothing else  *)
(* takes an item or a general session from a session that uses it.         *)
(***************************************************************************)
EXTENDS SessionLifecycle

VARIABLES
    late,    \* has a session been ended, or a chat interrupted, that was over?
    stale    \* the threads whose last look another thread has overtaken

overlapVars == <<vars, late, stale>>

\* end() does not ask whether the session has ended already, and the interruption
\* is published whether or not the chat seen before is still there to pause.
Late ==
    \/ \E t \in Thread : EndOne(t) /\ Head(thread[t].todo) \notin AllActive
    \/ Pause /\ Active("CHAT") = {}

\* A thread about to start a GS saw none, and one about to end the GS saw no active
\* session.
Overtaken(t) ==
    \/ thread[t].pc = "makeGS" /\ gs' # gs
    \/ thread[t].pc = "endGS" /\ ~(AllActive' \subseteq AllActive)

OverlapInit == Init /\ late = FALSE /\ stale = {}

OverlapNext ==
    /\ Next
    /\ late' = (late \/ Late)
    /\ stale' = {t \in Thread : /\ thread'[t].pc = thread[t].pc
                                /\ t \in stale \/ Overtaken(t)}

OverlapSpec == OverlapInit /\ [][OverlapNext]_overlapVars

-----------------------------------------------------------------------------
(* Properties.                                                             *)

\* However the threads overlap, the item that SESSION_ENDED or an interruption
\* completes is the one whose session is over, until a session that was over
\* already is ended, or interrupted, once more.
OwnSessionUntilLate ==
    [][\A i \in 1..MaxItems :
          mgr.currentItem.id = i /\ mgr'.currentItem.id # i =>
              late \/ session[i].status \in {"paused", "completed", "failed"}]_overlapVars

\* However the threads overlap, a GS is ended or replaced under an active session of
\* its own only by a thread whose look at the GS and the sessions was overtaken.
GSOutlivesUnlessStale ==
    [][gs # 0 /\ gs' # gs =>
          \/ \E t \in stale : thread'[t].pc # thread[t].pc
          \/ \A i \in AllActive : session[i].gs = gs => session'[i].status # "active"]_overlapVars
=============================================================================
