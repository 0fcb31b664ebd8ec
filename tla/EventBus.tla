------------------------------ MODULE EventBus ------------------------------
(***************************************************************************)
(* core/event_bus.py: the queue and the thread through which every part of *)
(* the system hears of every other one.                                    *)
(*                                                                         *)
(*   Publish, TrimHistory, StoreHistory, Deliver   publish, whose steps on *)
(*       the history are not protected by the lock                         *)
(*   CheckStop, Get, GetTimeout                    _process_events         *)
(*   Snapshot, RunHandler                          _dispatch_event         *)
(*   Start, Stop, JoinEnds, JoinTimesOut           start and stop          *)
(*   Subscribe, Unsubscribe, ClearHistory                                  *)
(*                                                                         *)
(* Workers are the threads that can be inside a dispatch: the bus's own    *)
(* processing threads, and a publisher that asked for sync.  A handler that*)
(* publishes is one of the publishers.  start and stop are called by one   *)
(* thread, that of the runner which owns SystemLoop.                       *)
(***************************************************************************)
EXTENDS Naturals, FiniteSets, Sequences, SequencesExt

CONSTANTS
    EventType, Handler, Publisher,
    MaxHistory,        \* _max_history
    MaxEvents,         \* bound: events published
    MaxThreads,        \* bound: processing threads created
    MaxSubscriptions   \* bound: length of a handler list

ASSUME EventBusAssumption ==
    /\ MaxHistory \in Nat \ {0}
    /\ MaxEvents \in Nat
    /\ MaxThreads \in Nat
    /\ IsFiniteSet(Publisher)
    /\ Publisher \cap (1..MaxThreads) = {}

VARIABLES
    handlers,   \* _handlers
    queue,      \* _event_queue
    history,    \* _event_history
    stopFlag,   \* _stop_event
    current,    \* _processing_thread: the last thread created, 0 for None
    control,    \* where the caller of start and stop is: "idle" or "joining"
    worker,     \* for each worker its place in the code and its locals
    created,    \* events created so far
    delivered   \* ghost: for each handler the events it was called with

vars == <<handlers, queue, history, stopFlag, current, control, worker,
          created, delivered>>

Thread == 1..MaxThreads
Worker == Thread \cup Publisher
Event == [id : 1..MaxEvents, type : EventType, by : Publisher, sync : BOOLEAN]

\* event: the event being published or dispatched; todo: the handlers of the
\* snapshot still to be called; slice: the computed tail of the history.
Holding(pc, event) == [pc |-> pc, event |-> event, todo |-> <<>>, slice |-> <<>>]
At(pc) == Holding(pc, <<>>)

Init ==
    /\ handlers = [type \in EventType |-> <<>>]
    /\ queue = <<>> /\ history = <<>>
    /\ stopFlag = FALSE /\ current = 0
    /\ control = "idle"
    /\ worker = [w \in Worker |-> IF w \in Thread THEN At("unborn") ELSE At("idle")]
    /\ created = 0
    /\ delivered = [h \in Handler |-> <<>>]

Alive(t) == t # 0 /\ worker[t].pc \notin {"unborn", "dead"}

-----------------------------------------------------------------------------
(* publish, up to the hand-over of the event.                              *)

Publish(p, type, sync) ==
    /\ worker[p].pc = "idle"
    /\ created < MaxEvents
    /\ LET event == [id |-> created + 1, type |-> type, by |-> p, sync |-> sync] IN
       /\ history' = Append(history, event)
       /\ worker' = [worker EXCEPT ![p] = Holding("trim", event)]
    /\ created' = created + 1
    /\ UNCHANGED <<handlers, queue, stopFlag, current, control, delivered>>

\* Mutant: keeps one event more than the limit.
TrimHistoryTooLong(p) ==
    /\ worker[p].pc = "trim"
    /\ worker' = IF Len(history) > MaxHistory + 1
                 THEN [worker EXCEPT ![p].pc = "store",
                         ![p].slice = SubSeq(history, Len(history) - MaxHistory,
                                             Len(history))]
                 ELSE [worker EXCEPT ![p].pc = "deliver"]
    /\ UNCHANGED <<handlers, queue, history, stopFlag, current, control, created, delivered>>

TrimHistory(p) ==
    /\ worker[p].pc = "trim"
    /\ worker' = IF Len(history) > MaxHistory
                 THEN [worker EXCEPT ![p].pc = "store",
                         ![p].slice = SubSeq(history, Len(history) - MaxHistory + 1,
                                             Len(history))]
                 ELSE [worker EXCEPT ![p].pc = "deliver"]
    /\ UNCHANGED <<handlers, queue, history, stopFlag, current, control, created, delivered>>

StoreHistory(p) ==
    /\ worker[p].pc = "store"
    /\ history' = worker[p].slice
    /\ worker' = [worker EXCEPT ![p].pc = "deliver", ![p].slice = <<>>]
    /\ UNCHANGED <<handlers, queue, stopFlag, current, control, created, delivered>>

\* Mutant: the event is handed over after the publisher has let go of it.
DeliverTooLate(p) ==
    /\ worker[p].pc = "deliver"
    /\ worker' = [worker EXCEPT ![p] = At("idle")]
    /\ queue' = Append(queue, worker'[p].event)
    /\ UNCHANGED <<handlers, history, stopFlag, current, control, created, delivered>>

Deliver(p) ==
    /\ worker[p].pc = "deliver"
    /\ IF worker[p].event.sync
       THEN /\ worker' = [worker EXCEPT ![p].pc = "snapshot"]
            /\ UNCHANGED queue
       ELSE /\ worker' = [worker EXCEPT ![p] = At("idle")]
            /\ queue' = Append(queue, worker[p].event)
    /\ UNCHANGED <<handlers, history, stopFlag, current, control, created, delivered>>

-----------------------------------------------------------------------------
(* The processing thread.                                                  *)

CheckStop(t) ==
    /\ worker[t].pc = "check"
    /\ worker' = [worker EXCEPT ![t].pc = IF stopFlag THEN "dead" ELSE "get"]
    /\ UNCHANGED <<handlers, queue, history, stopFlag, current, control, created, delivered>>

\* Mutant: the newest event first, a LifoQueue.
GetNewest(t) ==
    /\ worker[t].pc = "get"
    /\ queue # <<>>
    /\ worker' = [worker EXCEPT ![t].pc = "snapshot", ![t].event = Last(queue)]
    /\ queue' = Front(queue)
    /\ UNCHANGED <<handlers, history, stopFlag, current, control, created, delivered>>

\* Mutant: the event stays in the queue while it is dispatched.
GetAndLeave(t) ==
    /\ worker[t].pc = "get"
    /\ queue # <<>>
    /\ worker' = [worker EXCEPT ![t].pc = "snapshot", ![t].event = Head(queue)]
    /\ UNCHANGED <<handlers, queue, history, stopFlag, current, control, created, delivered>>

\* The flag may have been set meanwhile: the event is dispatched all the same.
Get(t) ==
    /\ worker[t].pc = "get"
    /\ queue # <<>>
    /\ worker' = [worker EXCEPT ![t].pc = "snapshot", ![t].event = Head(queue)]
    /\ queue' = Tail(queue)
    /\ UNCHANGED <<handlers, history, stopFlag, current, control, created, delivered>>

GetTimeout(t) ==
    /\ worker[t].pc = "get"
    /\ queue = <<>>
    /\ worker' = [worker EXCEPT ![t].pc = "check"]
    /\ UNCHANGED <<handlers, queue, history, stopFlag, current, control, created, delivered>>

-----------------------------------------------------------------------------
(* _dispatch_event, in a processing thread or in a synchronous publisher.  *)

Rested(w) == At(IF w \in Thread THEN "check" ELSE "idle")

Snapshot(w) ==
    /\ worker[w].pc = "snapshot"
    /\ LET todo == handlers[worker[w].event.type] IN
       worker' = IF todo = <<>> THEN [worker EXCEPT ![w] = Rested(w)]
                 ELSE [worker EXCEPT ![w].pc = "handling", ![w].todo = todo]
    /\ UNCHANGED <<handlers, queue, history, stopFlag, current, control, created, delivered>>

\* Mutant: an exception ends the dispatch.
RunHandlerOrGiveUp(w) ==
    /\ worker[w].pc = "handling"
    /\ LET todo == worker[w].todo IN
       /\ delivered' = [delivered EXCEPT ![Head(todo)] = Append(@, worker[w].event)]
       /\ \/ worker' = [worker EXCEPT ![w] = Rested(w)]
          \/ /\ Tail(todo) # <<>>
             /\ worker' = [worker EXCEPT ![w].todo = Tail(todo)]
    /\ UNCHANGED <<handlers, queue, history, stopFlag, current, control, created>>

\* A handler that raises is logged, and the next one is called all the same.
RunHandler(w) ==
    /\ worker[w].pc = "handling"
    /\ LET todo == worker[w].todo IN
       /\ delivered' = [delivered EXCEPT ![Head(todo)] = Append(@, worker[w].event)]
       /\ worker' = IF Tail(todo) = <<>> THEN [worker EXCEPT ![w] = Rested(w)]
                    ELSE [worker EXCEPT ![w].todo = Tail(todo)]
    /\ UNCHANGED <<handlers, queue, history, stopFlag, current, control, created>>

-----------------------------------------------------------------------------
(* start and stop.                                                         *)

\* Mutant: a new thread whatever became of the old one.
StartAnyway ==
    /\ control = "idle" /\ current < MaxThreads
    /\ stopFlag' = FALSE
    /\ current' = current + 1
    /\ worker' = [worker EXCEPT ![current + 1] = At("check")]
    /\ UNCHANGED <<handlers, queue, history, control, created, delivered>>

\* Mutant: every thread gets a queue of its own.
StartWithNewQueue ==
    /\ control = "idle" /\ ~Alive(current) /\ current < MaxThreads
    /\ stopFlag' = FALSE
    /\ current' = current + 1
    /\ worker' = [worker EXCEPT ![current + 1] = At("check")]
    /\ queue' = <<>>
    /\ UNCHANGED <<handlers, history, control, created, delivered>>

Start ==
    /\ control = "idle"
    /\ IF Alive(current)
       THEN UNCHANGED <<stopFlag, current, worker>>
       ELSE /\ current < MaxThreads
            /\ stopFlag' = FALSE
            /\ current' = current + 1
            /\ worker' = [worker EXCEPT ![current + 1] = At("check")]
    /\ UNCHANGED <<handlers, queue, history, control, created, delivered>>

Stop ==
    /\ control = "idle"
    /\ current # 0
    /\ stopFlag' = TRUE
    /\ control' = IF Alive(current) THEN "joining" ELSE "idle"
    /\ UNCHANGED <<handlers, queue, history, current, worker, created,
                   delivered>>

JoinEnds ==
    /\ control = "joining"
    /\ ~Alive(current)
    /\ control' = "idle"
    /\ UNCHANGED <<handlers, queue, history, stopFlag, current, worker, created, delivered>>

\* Only handlers can keep the thread for the five seconds: waiting for an
\* event takes at most one.
JoinTimesOut ==
    /\ control = "joining"
    /\ worker[current].pc = "handling"
    /\ control' = "idle"
    /\ UNCHANGED <<handlers, queue, history, stopFlag, current, worker, created, delivered>>

-----------------------------------------------------------------------------
Subscribe(type, h) ==
    /\ Len(handlers[type]) < MaxSubscriptions
    /\ handlers' = [handlers EXCEPT ![type] = Append(@, h)]
    /\ UNCHANGED <<queue, history, stopFlag, current, control, worker, created, delivered>>

\* list.remove: the first occurrence.
Unsubscribe(type, h) ==
    /\ h \in ToSet(handlers[type])
    /\ handlers' = [handlers EXCEPT ![type] = RemoveFirst(@, h)]
    /\ UNCHANGED <<queue, history, stopFlag, current, control, worker, created, delivered>>

ClearHistory ==
    /\ history # <<>>
    /\ history' = <<>>
    /\ UNCHANGED <<handlers, queue, stopFlag, current, control, worker, created, delivered>>

PublisherStep(p) == TrimHistory(p) \/ StoreHistory(p) \/ Deliver(p)
ThreadStep(t) == CheckStop(t) \/ Get(t) \/ GetTimeout(t)
DispatchStep(w) == Snapshot(w) \/ RunHandler(w)

Next ==
    \/ \E p \in Publisher :
          \/ \E type \in EventType, sync \in BOOLEAN : Publish(p, type, sync)
          \/ PublisherStep(p)
    \/ \E t \in Thread : ThreadStep(t)
    \/ \E w \in Worker : DispatchStep(w)
    \/ Start \/ Stop \/ JoinEnds \/ JoinTimesOut
    \/ \E type \in EventType, h \in Handler : Subscribe(type, h) \/ Unsubscribe(type, h)
    \/ ClearHistory

Spec == Init /\ [][Next]_vars

\* Threads are scheduled and handlers return; nobody has to call anything.
FairSpec ==
    /\ Spec
    /\ \A t \in Thread : WF_vars(ThreadStep(t))
    /\ \A w \in Worker : WF_vars(DispatchStep(w))
    /\ \A p \in Publisher : WF_vars(PublisherStep(p))

-----------------------------------------------------------------------------
(* Properties.                                                             *)

Places == {"unborn", "check", "get", "snapshot", "handling", "dead", "idle",
           "trim", "store", "deliver"}
State == [pc : Places, event : Event \cup {<<>>}, todo : Seq(Handler), slice : Seq(Event)]

\* Every variable keeps its type.
TypeOK ==
    /\ handlers \in [EventType -> Seq(Handler)]
    /\ queue \in Seq(Event) /\ history \in Seq(Event)
    /\ stopFlag \in BOOLEAN
    /\ current \in 0..MaxThreads
    /\ control \in {"idle", "joining"}
    /\ worker \in [Worker -> State]
    /\ created \in 0..MaxEvents
    /\ delivered \in [Handler -> Seq(Event)]

\* At most one thread takes events from the queue, however often the bus is
\* stopped and started, a join timing out or not: handlers count on never
\* being called twice at a time by the bus.
OneConsumer == Cardinality({t \in Thread : Alive(t)}) <= 1

\* What one publisher publishes asynchronously reaches every handler in the
\* order of publication, over restarts of the bus as well: the coordinator
\* must not see a PROCESSING_LAYER_COMPLETE before its INPUT_LAYER_COMPLETE.
InOrder ==
    \A h \in Handler : \A i, j \in 1..Len(delivered[h]) :
        LET a == delivered[h][i]
            b == delivered[h][j] IN
        (i < j /\ a.by = b.by /\ ~a.sync /\ ~b.sync) => a.id <= b.id

\* Between its creation and the end of its dispatch an event is in exactly one
\* place.
Carried(w) == IF worker[w].event = <<>> THEN {} ELSE {worker[w].event.id}
InQueue == {queue[i].id : i \in 1..Len(queue)}
OnePlace ==
    /\ \A i, j \in 1..Len(queue) : queue[i].id = queue[j].id => i = j
    /\ \A w \in Worker : Carried(w) \cap InQueue = {}
    /\ \A v, w \in Worker : v # w => Carried(v) \cap Carried(w) = {}

\* Events only move on: one in the queue leaves it for a worker only, and one
\* whose dispatch is over never comes back.  Stopping, a join that times out
\* and starting again neither lose what waits nor repeat what is done.
Around == InQueue \cup UNION {Carried(w) : w \in Worker}
EventsOnlyMoveOn ==
    [][\A e \in 1..created :
          /\ e \in InQueue => e \in Around'
          /\ e \notin Around => e \notin Around']_vars

\* The history exceeds its limit by no more than the publishers that are about
\* to trim it, although appending, slicing and storing are not one step.
HistoryBounded ==
    Len(history) <= MaxHistory
        + Cardinality({p \in Publisher : worker[p].pc \in {"trim", "store"}})

\* An event in the queue reaches everyone who was subscribed to it and stays
\* so, another handler's exception notwithstanding, unless the bus is stopped.
EveryEventReachesItsSubscribers ==
    \A e \in 1..MaxEvents : \A h \in Handler : \A type \in EventType :
        LET Subscribed == h \in ToSet(handlers[type])
            Waiting == \E i \in 1..Len(queue) : queue[i].id = e /\ queue[i].type = type
        IN  (Waiting /\ Subscribed /\ Alive(current))
              ~> (\/ \E i \in 1..Len(delivered[h]) : delivered[h][i].id = e
                  \/ ~Subscribed \/ stopFlag)
=============================================================================
