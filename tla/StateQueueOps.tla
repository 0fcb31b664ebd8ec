--------------------------- MODULE StateQueueOps ---------------------------
(***************************************************************************)
(* The operations of StateQueueManager (core/states/state_queue.py) as     *)
(* functions on one record, the state of the singleton manager together    *)
(* with the two things its handlers write outside it:                      *)
(*                                                                         *)
(*   queue         self.queue, the waiting items, head first               *)
(*   currentState  self.current_state                                      *)
(*   currentItem   self.current_item, NoItem for None                      *)
(*   visited       "self.state_history is not empty"                       *)
(*   sm            StateManager._state, which the handlers set             *)
(*   nextId        the identity the next item will get                     *)
(*                                                                         *)
(* A handler calls back into the manager (a mischief handler queues its    *)
(* own continuation, a failed session creation completes the item), so the *)
(* operations nest; functions on a record compose the way the calls do.    *)
(*                                                                         *)
(* What a handler meets in StateManager is its outcome:                    *)
(*   "entered"   set_state succeeded, the item now runs                    *)
(*   "refused"   session creation raised RuntimeError: set_state rolls     *)
(*               back, the handler ignores the FALSE it gets back          *)
(*   "reported"  no session identifier came back: the queue's callback     *)
(*               completes the item from within set_state                  *)
(*   "pending"   mischief ran one action and has more                      *)
(*   "finished"  mischief ran its last action and left the special state   *)
(***************************************************************************)
EXTENDS Naturals, Sequences, SequencesExt

VARIABLE mgr     \* the record, in Manager; the modules that extend this one change it

CONSTANTS
    MaxItems,          \* bound: identities 1..MaxItems are handed out
    CustomPriorities   \* values callers pass as custom_priority

InterruptPriority == 200     \* the literal of interrupt_chat_for_work

\* NLP passes 10, 30, 100 or a segment's priority; nobody passes 200 or more.
ASSUME MaxItemsAssumption == MaxItems \in Nat
ASSUME CustomPrioritiesAssumption ==
    CustomPriorities \subseteq 0..(InterruptPriority - 1)

WorkModes == {"none", "direct", "background"}

QueuedStates == {"CHAT", "WORK", "MISCHIEF", "SLEEP"}
States == QueuedStates \cup {"IDLE"}

Item == [id : Nat, state : QueuedStates, prio : 0..InterruptPriority]
NoItem == [id |-> 0, state |-> "IDLE", prio |-> 0]

Manager == [queue : Seq(Item), currentState : States,
            currentItem : Item \cup {NoItem}, visited : BOOLEAN,
            sm : States, nextId : Nat]

-----------------------------------------------------------------------------
(* Priorities and the sorted insertion of add_state.                       *)

DefaultPriority(state) ==
    CASE state = "WORK"     -> 100
      [] state = "CHAT"     -> 50
      [] state = "MISCHIEF" -> 30
      [] state = "SLEEP"    -> 10

ModePriority(state, mode) ==
    LET p == DefaultPriority(state) IN
    CASE mode = "direct"     -> IF p < 100 THEN 100 ELSE p
      [] mode = "background" -> IF p > 30 THEN 30 ELSE p
      [] mode = "none"       -> p

\* Every priority add_state can give an item: the mode counts only when the
\* caller gives no priority of its own.
Priorities(state) ==
    CustomPriorities \cup {ModePriority(state, mode) : mode \in WorkModes}

\* Mutant: the loop stops at the first item that is not of a higher priority.
IsInsertionPointBeforeEquals(queue, k, prio) ==
    /\ \A i \in 1..(k - 1) : queue[i].prio > prio
    /\ k <= Len(queue) => queue[k].prio <= prio

\* Where the loop over self.queue stops: at the first item of a strictly
\* lower priority, or behind the last one.
IsInsertionPoint(queue, k, prio) ==
    /\ \A i \in 1..(k - 1) : queue[i].prio >= prio
    /\ k <= Len(queue) => queue[k].prio < prio

InsertionPoint(queue, prio) ==
    CHOOSE k \in 1..(Len(queue) + 1) : IsInsertionPoint(queue, k, prio)

NewItem(m, state, prio) == [id |-> m.nextId, state |-> state, prio |-> prio]

Enqueue(m, state, prio) ==
    [m EXCEPT !.queue = InsertAt(m.queue, InsertionPoint(m.queue, prio),
                                 NewItem(m, state, prio)),
              !.nextId = @ + 1]

\* Mutant: every interruption outranks whatever is at the front.
EnqueueAboveHead(m) ==
    LET prio == IF m.queue = <<>> \/ Head(m.queue).prio < InterruptPriority
                THEN InterruptPriority ELSE Head(m.queue).prio + 1 IN
    [m EXCEPT !.queue = <<NewItem(m, "WORK", prio)>> \o m.queue,
              !.nextId = @ + 1]

\* interrupt_chat_for_work ignores the order and inserts at the front.
EnqueueFirst(m) ==
    [m EXCEPT !.queue = <<NewItem(m, "WORK", InterruptPriority)>> \o m.queue,
              !.nextId = @ + 1]

-----------------------------------------------------------------------------
(* Completing and starting.                                                *)

\* Mutant: the state is left for the loop to reset.
CompleteKeepingState(m) == [m EXCEPT !.currentItem = NoItem]

\* Mutant: the reset to IDLE is not passed on to StateManager.
CompleteSilently(m) ==
    IF m.queue # <<>> THEN [m EXCEPT !.currentItem = NoItem]
    ELSE [m EXCEPT !.currentItem = NoItem, !.currentState = "IDLE"]

\* complete_current_state: nothing without an item; the state goes back to
\* IDLE, and StateManager hears of it, only when nothing waits.
Complete(m) ==
    IF m.currentItem = NoItem THEN m
    ELSE IF m.queue # <<>> THEN [m EXCEPT !.currentItem = NoItem]
    ELSE [m EXCEPT !.currentItem = NoItem, !.currentState = "IDLE",
                   !.sm = IF m.currentState = "IDLE" THEN @ ELSE "IDLE"]

Outcomes(m) ==
    CASE Head(m.queue).state \in {"CHAT", "WORK"} ->
             {"entered", "reported", "refused"}
      [] Head(m.queue).state = "SLEEP" -> {"entered"}
      [] Head(m.queue).state = "MISCHIEF" ->
             {"finished"} \cup (IF m.nextId <= MaxItems THEN {"pending"} ELSE {})

\* The state handlers, by what set_state does to them.
Handle(m, outcome) ==
    CASE outcome = "entered"  -> [m EXCEPT !.sm = m.currentState]
      [] outcome = "refused"  -> m
      [] outcome = "reported" -> Complete([m EXCEPT !.sm = m.currentState])
      [] outcome = "finished" -> Complete([m EXCEPT !.sm = "IDLE"])
      [] outcome = "pending"  ->
             Complete(Enqueue([m EXCEPT !.sm = "MISCHIEF"], "MISCHIEF",
                              DefaultPriority("MISCHIEF")))

\* Mutant: the head is read and not removed.
PeekHead(m) ==
    [m EXCEPT !.currentItem = Head(m.queue), !.currentState = Head(m.queue).state]

PopHead(m) ==
    [m EXCEPT !.queue = Tail(m.queue), !.currentItem = Head(m.queue),
              !.currentState = Head(m.queue).state]

\* process_next_state records the state in the history and publishes nothing.
ProcessNext(m, outcome) ==
    Handle([PopHead(m) EXCEPT !.visited = TRUE], outcome)

\* start_next_state publishes STATE_ADVANCED and records nothing.
StartNext(m, outcome) == Handle(PopHead(m), outcome)

TransitionToIdle(m) == [m EXCEPT !.currentState = "IDLE", !.sm = "IDLE",
                                 !.currentItem = NoItem]

\* get_queue_status "corrects" the state of a manager that has no item, and
\* does not tell StateManager.
QueueStatus(m) ==
    IF m.currentItem = NoItem THEN [m EXCEPT !.currentState = "IDLE"] ELSE m

\* __init__ with _load_queue, which discards what the file holds, followed by
\* the clear_queue of the initialisation.
FreshManager(firstId) ==
    [queue |-> <<>>, currentState |-> "IDLE", currentItem |-> NoItem,
     visited |-> FALSE, sm |-> "IDLE", nextId |-> firstId]

-----------------------------------------------------------------------------
(* What the properties say of queues.                                      *)

\* No identity is in the queue twice, and none is the item's.
Distinct(queue, item) ==
    /\ \A i, j \in 1..Len(queue) : queue[i].id = queue[j].id => i = j
    /\ \A i \in 1..Len(queue) : queue[i].id # item.id
=============================================================================
