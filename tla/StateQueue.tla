----------------------------- MODULE StateQueue -----------------------------
(***************************************************************************)
(* StateQueueManager as its callers see it, one call at a time.            *)
(*                                                                         *)
(*   AddState               add_state: NLP, notifications, the sleep button *)
(*   InterruptChatForWork   interrupt_chat_for_work                        *)
(*   CheckAndAdvance        check_and_advance_state, by SystemLoop         *)
(*   CompleteCurrentState   complete_current_state: a SESSION_ENDED, the   *)
(*                          wake-up thread, or an interruption by NLP      *)
(*   GetQueueStatus         get_queue_status: Controller's monitor, NLP    *)
(*   CheckSpecialState      StateManager's timer, which enters MISCHIEF    *)
(*                          without going through the queue                *)
(*   ExitSpecialState       StateManager.exit_special_state, on waking     *)
(*   ClearStateHistory      clear_state_history, at the end of a GS        *)
(*   RestartManager         the process dies and comes back                *)
(*                                                                         *)
(* Calls interleave here and do not overlap, although the manager has no   *)
(* lock that would keep them apart.                                        *)
(***************************************************************************)
EXTENDS StateQueueOps

Busy(m) == m.currentItem # NoItem \/ m.queue # <<>>

QueueInit == mgr = FreshManager(1)

\* add_state starts the head of the queue at once, be it the new item or not,
\* when the manager is idle.
AddState(state, prio) ==
    /\ mgr.nextId <= MaxItems
    /\ LET m == Enqueue(mgr, state, prio) IN
       IF m.currentState = "IDLE" /\ m.currentItem = NoItem
       THEN \E outcome \in Outcomes(m) : mgr' = ProcessNext(m, outcome)
       ELSE mgr' = m

InterruptChatForWork ==
    /\ mgr.nextId <= MaxItems
    /\ mgr' = EnqueueFirst(mgr)

\* Mutant: advances although an item still runs.
CheckAndAdvanceUnguarded ==
    /\ mgr.queue # <<>>
    /\ \E outcome \in Outcomes(mgr) : mgr' = StartNext(mgr, outcome)

\* Mutant: advances only from IDLE, the state add_state looks for.
CheckAndAdvanceFromIdle ==
    /\ mgr.currentItem = NoItem
    /\ mgr.currentState = "IDLE"
    /\ mgr.queue # <<>>
    /\ \E outcome \in Outcomes(mgr) : mgr' = StartNext(mgr, outcome)

CheckAndAdvance ==
    /\ mgr.currentItem = NoItem
    /\ IF mgr.queue = <<>>
       THEN /\ mgr.currentState # "IDLE"
            /\ mgr' = TransitionToIdle(mgr)
       ELSE \E outcome \in Outcomes(mgr) : mgr' = StartNext(mgr, outcome)

CompleteCurrentState ==
    /\ mgr.currentItem # NoItem
    /\ mgr' = Complete(mgr)

GetQueueStatus ==
    /\ mgr.currentItem = NoItem
    /\ mgr.currentState # "IDLE"
    /\ mgr' = QueueStatus(mgr)

\* check_special_state_conditions runs on a timer of its own and sets MISCHIEF
\* from IDLE or CHAT; the first action may also be the last.
CheckSpecialState ==
    /\ mgr.sm \in {"IDLE", "CHAT"}
    /\ \E sm \in {"MISCHIEF", "IDLE"} : mgr' = [mgr EXCEPT !.sm = sm]

ExitSpecialState ==
    /\ mgr.sm \in {"MISCHIEF", "SLEEP"}
    /\ mgr' = [mgr EXCEPT !.sm = "IDLE"]

\* Controller calls it some time after it decided to end the GS.
ClearStateHistory == mgr' = [mgr EXCEPT !.visited = FALSE]

RestartManager == mgr' = FreshManager(mgr.nextId)

\* Every operation production code calls.
ProductionNext ==
    \/ \E state \in QueuedStates : \E prio \in Priorities(state) :
          AddState(state, prio)
    \/ CheckAndAdvance
    \/ CompleteCurrentState
    \/ GetQueueStatus
    \/ CheckSpecialState
    \/ ExitSpecialState
    \/ ClearStateHistory
    \/ RestartManager

\* ... and the public operation whose only caller nothing calls.
QueueNext == ProductionNext \/ InterruptChatForWork

QueueSpec == QueueInit /\ [][QueueNext]_mgr

\* The only call the code makes again and again: SystemLoop's thread calls
\* check_and_advance_state in every iteration.  Nothing makes a current item
\* finish: the one whose session was refused has no session to end, SLEEP lasts
\* until somebody wakes the system, and a session lasts as long as its user.
FairQueueSpec == QueueSpec /\ WF_mgr(CheckAndAdvance)

-----------------------------------------------------------------------------
(* Properties.                                                             *)

\* The manager's fields always have the types the class declares.
QueueTypeOK == mgr \in Manager

\* An item precedes only items that do not outrank it, and among equals of
\* add_state the older comes first: sorted insertion, insertion in front,
\* popping and the mischief handler's own re-queueing keep the queue's order.
Ordered(queue) ==
    \A i, j \in 1..Len(queue) : i < j =>
        \/ queue[i].prio > queue[j].prio
        \/ /\ queue[i].prio = queue[j].prio
           /\ queue[i].prio < InterruptPriority => queue[i].id < queue[j].id
QueueOrdered == Ordered(mgr.queue)

\* A manager with nothing to do says IDLE, and one with a current item says
\* that item's state.  add_state relies on it: a state left over from a
\* finished item would keep the next item from being started.
StateFollows(m) ==
    /\ ~Busy(m) => m.currentState = "IDLE"
    /\ m.currentItem # NoItem => m.currentState = m.currentItem.state
StateFollowsItem == StateFollows(mgr)

\* Identities are never shared: an item waits at one place of the queue, or
\* runs, but not both, so that completing it cannot leave a copy behind.
NoDuplicates == Distinct(mgr.queue, mgr.currentItem)

\* Whatever step empties a busy queue leaves StateManager in IDLE as well,
\* also when a handler drains the queue from within set_state.
DrainingIdlesStateManager ==
    [][Busy(mgr) /\ ~Busy(mgr') => mgr'.sm = "IDLE"]_mgr

\* Unless one item stays current for ever, every accepted item is served: the
\* loop starts whatever waits, in whatever state the manager was left.  Only an
\* item that does not finish makes others wait for ever, and those that outrank
\* them: MaxItems makes arrivals cease, so that no item is overtaken for ever.
ItemIds(m) == {m.queue[i].id : i \in 1..Len(m.queue)} \cup {m.currentItem.id}
StaysCurrent(k) == <>[](mgr.currentItem.id = k)
ServedUnlessBlocked ==
    \/ \E k \in 1..MaxItems : StaysCurrent(k)
    \/ \A k \in 1..MaxItems : (k \in ItemIds(mgr)) ~> (k \notin ItemIds(mgr))

\* The queue is a priority server: items in the queue wait, the current item
\* is served, every other identity handed out has retired.
Jobs == [id : 1..MaxItems, state : QueuedStates,
         prio : (UNION {Priorities(s) : s \in QueuedStates}) \cup {InterruptPriority}]
Waiting(m) == ToSet(m.queue)
Serving(m) == {m.currentItem} \ {NoItem}
Retired(m) == {k \in 1..MaxItems : k < m.nextId /\ k \notin ItemIds(m)}

Server == INSTANCE PriorityServer WITH
    Job <- Jobs, waiting <- Waiting(mgr), serving <- Serving(mgr), retired <- Retired(mgr)
ImplementsServer == Server!PSSpec
=============================================================================
