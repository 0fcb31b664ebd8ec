--------------------------- MODULE EventBusProofs ---------------------------
(***************************************************************************)
(* Proofs about EventBus for any events, handlers, publishers and bounds.  *)
(*                                                                         *)
(* The invariants, each proved with the help of those before it: the types *)
(* and which worker has an event; who is alive; where events are and how   *)
(* old; in which order.  The last two are not proved action by action but  *)
(* move by move: whatever the step, an event is created, handed over,      *)
(* taken, handed to a handler or let go (Moves).  The history has an       *)
(* invariant of its own.                                                   *)
(***************************************************************************)
EXTENDS EventBus, TLAPS, SequenceTheorems, FiniteSetTheorems,
        WellFoundedInduction

-----------------------------------------------------------------------------
(* Types.                                                                  *)

PublisherPlaces == {"idle", "trim", "store", "deliver", "snapshot", "handling"}
ThreadPlaces == {"unborn", "check", "get", "snapshot", "handling", "dead"}
Carrying == {"trim", "store", "deliver", "snapshot", "handling"}

\* A worker has an event where it should, and a handler to call.
WorkersTyped ==
    /\ worker \in [Worker -> State]
    /\ \A t \in Thread : worker[t].pc \in ThreadPlaces
    /\ \A p \in Publisher : worker[p].pc \in PublisherPlaces
    /\ \A w \in Worker : worker[w].pc \in Carrying <=> worker[w].event \in Event
    /\ \A w \in Worker : worker[w].pc = "handling" => worker[w].todo # <<>>

Typed == TypeOK /\ WorkersTyped /\ (control = "joining" => current # 0)

\* A worker without an event has none.
LEMMA EmptyIsNoEvent == <<>> \notin Event
<1> SUFFICES ASSUME <<>> \in Event PROVE FALSE
  OBVIOUS
<1>1. "id" \in DOMAIN <<>>
  BY DEF Event
<1>2. DOMAIN <<>> = {}
  OBVIOUS
<1> QED BY <1>1, <1>2

\* The state of a worker that holds nothing.
LEMMA AtTyped ==
    ASSUME NEW pc \in Places
    PROVE  At(pc) \in State /\ At(pc).pc = pc /\ At(pc).event = <<>>
BY DEF At, Holding, State

\* A set of numbers that is not empty has a least member.
LEMMA LeastNatural ==
    ASSUME NEW S \in SUBSET Nat, S # {}
    PROVE  \E k \in S : \A i \in S : k <= i
<1>1. IsWellFoundedOn(OpToRel(<, Nat), Nat)
  BY NatLessThanWellFounded
<1>2. PICK k \in S : \A i \in S : ~(<<i, k>> \in OpToRel(<, Nat))
  BY <1>1, WFMin, Zenon
<1>3. \A i \in S : ~(i < k)
  BY <1>2 DEF OpToRel
<1> QED BY <1>3

\* list.remove leaves a list of handlers.
LEMMA RemoveFirstTyped ==
    ASSUME NEW s \in Seq(Handler), NEW h \in ToSet(s)
    PROVE  RemoveFirst(s, h) \in Seq(Handler)
<1> DEFINE I == {i \in 1..Len(s) : s[i] = h}
           m == Min(I)
<1>1. I # {} /\ I \in SUBSET Nat
  BY DEF ToSet
<1>2. \E k \in I : \A i \in I : k <= i
  <2> HIDE DEF I
  <2> QED BY <1>1, LeastNatural
<1>3. m \in I
  <2> HIDE DEF I
  <2> QED BY <1>2 DEF Min
<1>4. SelectInSeq(s, LAMBDA v : v = h) = m
  BY <1>1 DEF SelectInSeq
<1>5. RemoveFirst(s, h) = SubSeq(s, 1, m - 1) \o SubSeq(s, m + 1, Len(s))
  BY <1>3, <1>4 DEF RemoveFirst, RemoveAt
<1>6. m \in 1..Len(s)
  BY <1>3
<1> HIDE DEF m
<1>7. SubSeq(s, 1, m - 1) \in Seq(Handler) /\ SubSeq(s, m + 1, Len(s)) \in Seq(Handler)
  BY <1>6, SubSeqProperties
<1> QED BY <1>5, <1>7, ConcatProperties

\* Nothing is under way at the beginning.
LEMMA TypedInit == Init => Typed
<1> SUFFICES ASSUME Init PROVE Typed
  OBVIOUS
<1>1. \A w \in Worker : worker[w] \in State /\ worker[w].event = <<>>
  BY AtTyped DEF Init, Places
<1>2. worker \in [Worker -> State]
  BY <1>1 DEF Init
<1>3. \A t \in Thread : worker[t].pc = "unborn"
  BY AtTyped DEF Init, Places, Worker
<1>4. \A p \in Publisher : worker[p].pc = "idle"
  BY AtTyped, EventBusAssumption DEF Init, Places, Worker, Thread
<1>5. TypeOK
  <2>1. handlers \in [EventType -> Seq(Handler)] /\ delivered \in [Handler -> Seq(Event)]
    BY DEF Init
  <2>2. queue \in Seq(Event) /\ history \in Seq(Event)
    BY DEF Init
  <2>3. current \in 0..MaxThreads /\ created \in 0..MaxEvents
    BY EventBusAssumption DEF Init
  <2> QED BY <1>2, <2>1, <2>2, <2>3 DEF Init, TypeOK
<1>6. WorkersTyped
  BY <1>1, <1>2, <1>3, <1>4, EmptyIsNoEvent
     DEF WorkersTyped, Worker, Carrying, ThreadPlaces, PublisherPlaces
<1> QED BY <1>5, <1>6 DEF Typed, Init

\* One worker moves to a state that is right for it.
LEMMA WorkerMoves ==
    ASSUME WorkersTyped, NEW w \in Worker, NEW s \in State,
           worker' = [worker EXCEPT ![w] = s],
           w \in Thread => s.pc \in ThreadPlaces,
           w \in Publisher => s.pc \in PublisherPlaces,
           s.pc \in Carrying <=> s.event \in Event,
           s.pc = "handling" => s.todo # <<>>
    PROVE  WorkersTyped'
BY DEF WorkersTyped, Worker

\* The state of a worker, taken apart.
LEMMA StateFields ==
    ASSUME Typed, NEW w \in Worker
    PROVE  /\ worker[w] \in State
           /\ worker[w].event \in Event \cup {<<>>}
           /\ worker[w].todo \in Seq(Handler) /\ worker[w].slice \in Seq(Event)
           /\ worker[w].pc \in Places
           /\ worker[w].pc \in Carrying <=> worker[w].event \in Event
<1>1. worker[w] \in State /\ (worker[w].pc \in Carrying <=> worker[w].event \in Event)
  BY DEF Typed, WorkersTyped
<1> QED BY <1>1 DEF State

\* publish creates an event.
LEMMA TypedPublish ==
    ASSUME Typed, NEW p \in Publisher, NEW type \in EventType, NEW sync \in BOOLEAN,
           Publish(p, type, sync)
    PROVE  Typed'
<1> DEFINE event == [id |-> created + 1, type |-> type, by |-> p, sync |-> sync]
           s == [pc |-> "trim", event |-> event, todo |-> <<>>, slice |-> <<>>]
<1>1. event \in Event /\ created' \in 0..MaxEvents
  BY EventBusAssumption DEF Publish, Event, Typed, TypeOK
<1>2. worker' = [worker EXCEPT ![p] = s] /\ history' = Append(history, event)
  BY DEF Publish, Holding
<1> HIDE DEF event
<1>3. s \in State /\ s.event = event /\ s.pc = "trim" /\ s.todo = <<>>
  BY <1>1 DEF State, Places
<1> HIDE DEF s
<1>4. history' \in Seq(Event)
  BY <1>1, <1>2, AppendProperties DEF Typed, TypeOK
<1>5. p \in Worker /\ p \notin Thread
  BY EventBusAssumption DEF Worker, Thread
<1>6. s.pc \in PublisherPlaces /\ s.pc \in Carrying
  BY <1>3 DEF PublisherPlaces, Carrying
<1>7. WorkersTyped'
  BY <1>1, <1>2, <1>3, <1>5, <1>6, WorkerMoves DEF Typed
<1> QED BY <1>1, <1>4, <1>7 DEF Typed, TypeOK, WorkersTyped, Publish

\* The steps of a publisher that has created its event.
LEMMA TypedPublisher ==
    ASSUME Typed, NEW p \in Publisher, PublisherStep(p)
    PROVE  Typed'
<1> USE DEF ThreadPlaces, PublisherPlaces, Carrying
<1>0. p \in Worker /\ p \notin Thread
  BY EventBusAssumption DEF Worker, Thread
<1>1. worker[p].event \in Event <=> worker[p].pc \in Carrying
  BY <1>0, StateFields
<1>2. CASE TrimHistory(p)
  <2>1. CASE Len(history) > MaxHistory
    <3> DEFINE tail == SubSeq(history, Len(history) - MaxHistory + 1, Len(history))
               s == [worker[p] EXCEPT !.pc = "store", !.slice = tail]
    <3>1. tail \in Seq(Event)
      BY <2>1, EventBusAssumption, SubSeqProperties, LenProperties DEF Typed, TypeOK
    <3>2. worker' = [worker EXCEPT ![p] = s]
      BY <1>2, <2>1 DEF TrimHistory
    <3> HIDE DEF tail
    <3>3. s \in State /\ s.pc = "store" /\ s.event = worker[p].event
      BY <1>0, <3>1, StateFields DEF State, Places
    <3> HIDE DEF s
    <3>4. WorkersTyped'
      BY <1>0, <1>1, <1>2, <3>2, <3>3, WorkerMoves DEF Typed, TrimHistory
    <3> QED BY <1>0, <1>1, <1>2, <3>2, <3>3, <3>4 DEF TrimHistory, Typed, TypeOK, WorkersTyped
  <2>2. CASE ~(Len(history) > MaxHistory)
    <3> DEFINE s == [worker[p] EXCEPT !.pc = "deliver"]
    <3>1. worker' = [worker EXCEPT ![p] = s]
      BY <1>2, <2>2 DEF TrimHistory
    <3>2. s \in State /\ s.pc = "deliver" /\ s.event = worker[p].event
      BY <1>0, StateFields DEF State, Places
    <3> HIDE DEF s
    <3>3. WorkersTyped'
      BY <1>0, <1>1, <1>2, <3>1, <3>2, WorkerMoves DEF Typed, TrimHistory
    <3> QED BY <1>0, <1>1, <1>2, <3>1, <3>2, <3>3 DEF TrimHistory, Typed, TypeOK, WorkersTyped
  <2> QED BY <2>1, <2>2
<1>3. CASE StoreHistory(p)
  <2> DEFINE s == [worker[p] EXCEPT !.pc = "deliver", !.slice = <<>>]
  <2>1. worker' = [worker EXCEPT ![p] = s]
    BY <1>3 DEF StoreHistory
  <2>2. s \in State /\ s.pc = "deliver" /\ s.event = worker[p].event
    BY <1>0, StateFields, EmptySeq DEF State, Places
  <2>3. history' \in Seq(Event)
    BY <1>0, <1>3, StateFields DEF StoreHistory
  <2> HIDE DEF s
  <2>4. WorkersTyped'
    BY <1>0, <1>1, <1>3, <2>1, <2>2, <2>3, WorkerMoves DEF Typed, StoreHistory
  <2> QED BY <1>0, <1>1, <1>3, <2>1, <2>2, <2>3, <2>4 DEF StoreHistory, Typed, TypeOK, WorkersTyped
<1>4. CASE Deliver(p)
  <2>1. CASE worker[p].event.sync
    <3> DEFINE s == [worker[p] EXCEPT !.pc = "snapshot"]
    <3>1. worker' = [worker EXCEPT ![p] = s]
      BY <1>4, <2>1 DEF Deliver
    <3>2. s \in State /\ s.pc = "snapshot" /\ s.event = worker[p].event
      BY <1>0, StateFields DEF State, Places
    <3> HIDE DEF s
    <3>3. WorkersTyped'
      BY <1>0, <1>1, <1>4, <2>1, <3>1, <3>2, WorkerMoves DEF Typed, Deliver
    <3> QED BY <1>0, <1>1, <1>4, <2>1, <3>1, <3>2, <3>3 DEF Deliver, Typed, TypeOK, WorkersTyped
  <2>2. CASE ~worker[p].event.sync
    <3> DEFINE s == At("idle")
    <3>1. worker' = [worker EXCEPT ![p] = s]
      BY <1>4, <2>2 DEF Deliver
    <3>2. s \in State /\ s.pc = "idle" /\ s.event = <<>>
      BY AtTyped DEF Places
    <3>3. queue' = Append(queue, worker[p].event) /\ worker[p].event \in Event
      BY <1>1, <1>4, <2>2 DEF Deliver
    <3>4. queue' \in Seq(Event)
      BY <3>3, AppendProperties DEF Typed, TypeOK
    <3> HIDE DEF s
    <3>5. WorkersTyped'
      BY <1>0, <1>4, <3>1, <3>2, <3>4, WorkerMoves, EmptyIsNoEvent DEF Typed, Deliver
    <3> QED BY <1>0, <1>4, <3>1, <3>2, <3>4, <3>5 DEF Deliver, Typed, TypeOK, WorkersTyped
  <2> QED BY <2>1, <2>2
<1> QED BY <1>2, <1>3, <1>4 DEF PublisherStep

\* The steps of a processing thread between two dispatches.
LEMMA TypedThread ==
    ASSUME Typed, NEW t \in Thread, ThreadStep(t)
    PROVE  Typed'
<1> USE DEF ThreadPlaces, PublisherPlaces, Carrying
<1>0. t \in Worker /\ t \notin Publisher
  BY EventBusAssumption DEF Worker, Thread
<1>1. worker[t].event \in Event <=> worker[t].pc \in Carrying
  BY <1>0, StateFields
<1>2. CASE CheckStop(t)
  <2> DEFINE s == [worker[t] EXCEPT !.pc = IF stopFlag THEN "dead" ELSE "get"]
  <2>1. worker' = [worker EXCEPT ![t] = s]
    BY <1>2 DEF CheckStop
  <2>2. s \in State /\ s.pc \in {"dead", "get"} /\ s.event = worker[t].event
    BY <1>0, StateFields DEF State, Places
  <2> HIDE DEF s
  <2>3. WorkersTyped'
    BY <1>0, <1>1, <1>2, <2>1, <2>2, WorkerMoves DEF Typed, CheckStop
  <2> QED BY <1>0, <1>1, <1>2, <2>1, <2>2, <2>3 DEF CheckStop, Typed, TypeOK, WorkersTyped
<1>3. CASE Get(t)
  <2> DEFINE s == [worker[t] EXCEPT !.pc = "snapshot", !.event = Head(queue)]
  <2>1. worker' = [worker EXCEPT ![t] = s]
    BY <1>3 DEF Get
  <2>2. Head(queue) \in Event /\ Tail(queue) \in Seq(Event)
    BY <1>3, HeadTailProperties DEF Get, Typed, TypeOK
  <2>3. s \in State /\ s.pc = "snapshot" /\ s.event \in Event
    BY <1>0, <2>2, StateFields DEF State, Places
  <2> HIDE DEF s
  <2>4. WorkersTyped'
    BY <1>0, <1>3, <2>1, <2>2, <2>3, WorkerMoves DEF Typed, Get
  <2> QED BY <1>0, <1>3, <2>1, <2>2, <2>3, <2>4 DEF Get, Typed, TypeOK, WorkersTyped
<1>4. CASE GetTimeout(t)
  <2> DEFINE s == [worker[t] EXCEPT !.pc = "check"]
  <2>1. worker' = [worker EXCEPT ![t] = s]
    BY <1>4 DEF GetTimeout
  <2>2. s \in State /\ s.pc = "check" /\ s.event = worker[t].event
    BY <1>0, StateFields DEF State, Places
  <2> HIDE DEF s
  <2>3. WorkersTyped'
    BY <1>0, <1>1, <1>4, <2>1, <2>2, WorkerMoves DEF Typed, GetTimeout
  <2> QED BY <1>0, <1>1, <1>4, <2>1, <2>2, <2>3 DEF GetTimeout, Typed, TypeOK, WorkersTyped
<1> QED BY <1>2, <1>3, <1>4 DEF ThreadStep

\* The dispatch of an event leaves its worker where it may start again.
LEMMA RestedTyped ==
    ASSUME NEW w \in Worker
    PROVE  /\ Rested(w) \in State /\ Rested(w).event = <<>>
           /\ Rested(w).pc = IF w \in Thread THEN "check" ELSE "idle"
BY AtTyped DEF Rested, Places

\* A dispatch keeps the types.
LEMMA TypedDispatch ==
    ASSUME Typed, NEW w \in Worker, DispatchStep(w)
    PROVE  Typed'
<1> USE DEF ThreadPlaces, PublisherPlaces, Carrying
<1>0. Publisher \cap Thread = {}
  BY EventBusAssumption DEF Thread
<1>1. worker[w].event \in Event <=> worker[w].pc \in Carrying
  BY StateFields
<1>2. ASSUME worker' = [worker EXCEPT ![w] = Rested(w)]
      PROVE  WorkersTyped'
  BY <1>0, <1>2, RestedTyped, WorkerMoves, EmptyIsNoEvent DEF Typed
<1>3. CASE Snapshot(w)
  <2> DEFINE todo == handlers[worker[w].event.type]
             s == [worker[w] EXCEPT !.pc = "handling", !.todo = todo]
  <2>1. CASE todo = <<>>
    BY <1>2, <1>3, <2>1 DEF Snapshot, Typed, TypeOK, WorkersTyped
  <2>2. CASE todo # <<>>
    <3>1. worker' = [worker EXCEPT ![w] = s]
      BY <1>3, <2>2 DEF Snapshot
    <3>2. todo \in Seq(Handler)
      <4>1. worker[w].event \in Event
        BY <1>1, <1>3 DEF Snapshot
      <4> QED BY <4>1 DEF Event, Typed, TypeOK
    <3> HIDE DEF todo
    <3>3. s \in State /\ s.pc = "handling" /\ s.event = worker[w].event /\ s.todo = todo
      BY <3>2, StateFields DEF State, Places
    <3> HIDE DEF s
    <3>4. WorkersTyped'
      BY <1>0, <1>1, <1>3, <2>2, <3>1, <3>3, WorkerMoves DEF Typed, Snapshot
    <3> QED BY <1>0, <1>1, <1>3, <2>2, <3>1, <3>3, <3>4 DEF Snapshot, Typed, TypeOK, WorkersTyped
  <2> QED BY <2>1, <2>2
<1>4. CASE RunHandler(w)
  <2> DEFINE todo == worker[w].todo
             s == [worker[w] EXCEPT !.todo = Tail(todo)]
  <2>1. todo \in Seq(Handler) /\ todo # <<>> /\ worker[w].event \in Event
    BY <1>1, <1>4, StateFields DEF Typed, WorkersTyped, RunHandler
  <2>2. Head(todo) \in Handler /\ Tail(todo) \in Seq(Handler)
    BY <2>1, HeadTailProperties
  <2>3. delivered' = [delivered EXCEPT ![Head(todo)] = Append(@, worker[w].event)]
    BY <1>4 DEF RunHandler
  <2>4. delivered' \in [Handler -> Seq(Event)]
    BY <2>1, <2>2, <2>3, AppendProperties DEF Typed, TypeOK
  <2>5. CASE Tail(todo) = <<>>
    BY <1>2, <1>4, <2>4, <2>5 DEF RunHandler, Typed, TypeOK, WorkersTyped
  <2>6. CASE Tail(todo) # <<>>
    <3>1. worker' = [worker EXCEPT ![w] = s]
      BY <1>4, <2>6 DEF RunHandler
    <3>2. s \in State /\ s.pc = "handling" /\ s.event = worker[w].event /\ s.todo = Tail(todo)
      BY <1>4, <2>2, StateFields DEF State, RunHandler
    <3> HIDE DEF s
    <3>3. WorkersTyped'
      BY <1>0, <1>1, <1>4, <2>4, <2>6, <3>1, <3>2, WorkerMoves DEF Typed, RunHandler
    <3> QED BY <1>0, <1>1, <1>4, <2>4, <2>6, <3>1, <3>2, <3>3 DEF RunHandler, Typed, TypeOK, WorkersTyped
  <2> QED BY <2>5, <2>6
<1> QED BY <1>3, <1>4 DEF DispatchStep

\* Starting and stopping the bus.
LEMMA TypedControl ==
    ASSUME Typed, Start \/ Stop \/ JoinEnds \/ JoinTimesOut
    PROVE  Typed'
<1>1. CASE Start
  <2>1. CASE Alive(current)
    BY <1>1, <2>1 DEF Start, Typed, TypeOK, WorkersTyped
  <2>2. CASE ~Alive(current)
    <3> DEFINE t == current + 1
               s == At("check")
    <3>1. t \in Thread /\ t \in Worker /\ t \notin Publisher
      BY <1>1, <2>2, EventBusAssumption DEF Start, Typed, TypeOK, Thread, Worker
    <3>2. worker' = [worker EXCEPT ![t] = s]
      BY <1>1, <2>2 DEF Start
    <3>3. s \in State /\ s.pc = "check" /\ s.event = <<>>
      BY AtTyped DEF Places
    <3>4. current' \in 0..MaxThreads /\ stopFlag' = FALSE
      BY <1>1, <2>2, EventBusAssumption DEF Start, Typed, TypeOK
    <3> HIDE DEF s, t
    <3>5. WorkersTyped'
      BY <1>1, <3>1, <3>2, <3>3, <3>4, WorkerMoves, EmptyIsNoEvent
         DEF Typed, ThreadPlaces, PublisherPlaces, Carrying
    <3> QED BY <1>1, <3>1, <3>2, <3>3, <3>4, <3>5 DEF Start, Typed, TypeOK, WorkersTyped
  <2> QED BY <2>1, <2>2
<1>2. CASE Stop
  BY <1>2 DEF Stop, Typed, TypeOK, WorkersTyped
<1>3. CASE JoinEnds \/ JoinTimesOut
  BY <1>3 DEF JoinEnds, JoinTimesOut, Typed, TypeOK, WorkersTyped
<1> QED BY <1>1, <1>2, <1>3

\* Handler lists and the history.
LEMMA TypedLists ==
    ASSUME Typed,
           ClearHistory \/ \E type \in EventType, h \in Handler :
                              Subscribe(type, h) \/ Unsubscribe(type, h)
    PROVE  Typed'
<1>1. CASE ClearHistory
  BY <1>1 DEF ClearHistory, Typed, TypeOK, WorkersTyped
<1>2. ASSUME NEW type \in EventType, NEW h \in Handler, Subscribe(type, h)
      PROVE  Typed'
  <2>1. handlers' \in [EventType -> Seq(Handler)]
    BY <1>2, AppendProperties DEF Subscribe, Typed, TypeOK, WorkersTyped
  <2> QED BY <1>2, <2>1 DEF Subscribe, Typed, TypeOK, WorkersTyped
<1>3. ASSUME NEW type \in EventType, NEW h \in Handler, Unsubscribe(type, h)
      PROVE  Typed'
  <2>1. RemoveFirst(handlers[type], h) \in Seq(Handler)
    BY <1>3, RemoveFirstTyped DEF Unsubscribe, Typed, TypeOK, WorkersTyped
  <2>2. handlers' \in [EventType -> Seq(Handler)]
    BY <1>3, <2>1 DEF Unsubscribe, Typed, TypeOK, WorkersTyped
  <2> QED BY <1>3, <2>2 DEF Unsubscribe, Typed, TypeOK, WorkersTyped
<1> QED BY <1>1, <1>2, <1>3

\* Every step keeps the types.
LEMMA TypedStep == Typed /\ [Next]_vars => Typed'
<1> SUFFICES ASSUME Typed, [Next]_vars PROVE Typed'
  OBVIOUS
<1>1. CASE UNCHANGED vars
  BY <1>1 DEF vars, Typed, TypeOK, WorkersTyped
<1>2. CASE Next
  BY <1>2, TypedPublish, TypedPublisher, TypedThread, TypedDispatch, TypedControl, TypedLists
     DEF Next
<1> QED BY <1>1, <1>2

\* The types hold for ever.
LEMMA TypedAlways == Spec => []Typed
BY TypedInit, TypedStep, PTL DEF Spec

\* Every variable keeps its type, and every worker has an event where it
\* should, whatever is published, subscribed, started and stopped.
THEOREM TypeCorrect == Spec => []TypeOK
<1>1. Typed => TypeOK
  BY DEF Typed
<1> QED BY <1>1, TypedAlways, PTL

-----------------------------------------------------------------------------
(* One consumer.                                                           *)

\* Only the last thread created may be alive, and later ones are not born.
AliveInv ==
    /\ \A t \in Thread : Alive(t) => t = current
    /\ \A t \in Thread : t > current => worker[t].pc = "unborn"

\* No step but CheckStop and Start gives birth or kills.
LEMMA LifeGoesOn ==
    ASSUME Typed, Typed', AliveInv, UNCHANGED current,
           \A t \in Thread : worker'[t].pc = "unborn" <=> worker[t].pc = "unborn",
           \A t \in Thread : worker[t].pc = "dead" => worker'[t].pc = "dead"
    PROVE  AliveInv'
BY DEF AliveInv, Alive, Thread

\* No step leaves two threads alive: start looks whether the last is alive.
LEMMA AliveStep == Typed /\ Typed' /\ AliveInv /\ [Next]_vars => AliveInv'
<1> SUFFICES ASSUME Typed, Typed', AliveInv, [Next]_vars PROVE AliveInv'
  OBVIOUS
<1>0. Thread \cap Publisher = {} /\ Thread \subseteq Worker /\ Publisher \subseteq Worker
  BY EventBusAssumption DEF Thread, Worker
<1>a. \A w \in Worker : worker[w].pc \in Places /\ worker \in [Worker -> State]
  BY StateFields DEF Typed, WorkersTyped
<1>1. CASE UNCHANGED vars
  BY <1>1, LifeGoesOn DEF vars
<1>2. ASSUME NEW p \in Publisher, NEW type \in EventType, NEW sync \in BOOLEAN,
             Publish(p, type, sync)
      PROVE  AliveInv'
  BY <1>0, <1>a, <1>2, LifeGoesOn DEF Publish
<1>3. ASSUME NEW p \in Publisher, PublisherStep(p) PROVE AliveInv'
  <2>1. UNCHANGED current /\ \A t \in Thread : worker'[t] = worker[t]
    <3>1. CASE TrimHistory(p)
      BY <1>0, <1>a, <3>1 DEF TrimHistory
    <3>2. CASE StoreHistory(p)
      BY <1>0, <1>a, <3>2 DEF StoreHistory
    <3>3. CASE Deliver(p)
      BY <1>0, <1>a, <3>3 DEF Deliver
    <3> QED BY <1>3, <3>1, <3>2, <3>3 DEF PublisherStep
  <2> QED BY <2>1, LifeGoesOn
<1>4. ASSUME NEW t \in Thread, ThreadStep(t) PROVE AliveInv'
  <2>1. CASE CheckStop(t)
    BY <1>0, <1>a, <2>1, LifeGoesOn DEF CheckStop
  <2>2. CASE Get(t)
    BY <1>0, <1>a, <2>2, LifeGoesOn DEF Get
  <2>3. CASE GetTimeout(t)
    BY <1>0, <1>a, <2>3, LifeGoesOn DEF GetTimeout
  <2> QED BY <1>4, <2>1, <2>2, <2>3 DEF ThreadStep
<1>5. ASSUME NEW w \in Worker, DispatchStep(w) PROVE AliveInv'
  <2>1. worker[w].pc \in {"snapshot", "handling"} /\ UNCHANGED current
    BY <1>5 DEF DispatchStep, Snapshot, RunHandler
  <2>2. /\ \A v \in Worker : v # w => worker'[v] = worker[v]
        /\ worker'[w].pc \in {"check", "idle", "handling"}
    <3>1. Rested(w).pc \in {"check", "idle"}
      BY RestedTyped
    <3>2. CASE Snapshot(w)
      BY <1>a, <3>1, <3>2 DEF Snapshot
    <3>3. CASE RunHandler(w)
      BY <1>a, <2>1, <3>1, <3>3 DEF RunHandler
    <3> QED BY <1>5, <3>2, <3>3 DEF DispatchStep
  <2> QED BY <1>0, <2>1, <2>2, LifeGoesOn
<1>6. CASE Start
  <2>1. CASE Alive(current)
    BY <1>6, <2>1, LifeGoesOn DEF Start
  <2>2. CASE ~Alive(current)
    <3>1. /\ current' = current + 1 /\ current \in Nat
          /\ \A t \in Thread : t # current + 1 => worker'[t] = worker[t]
      BY <1>0, <1>a, <1>6, <2>2 DEF Start, Typed, TypeOK
    <3>2. \A t \in Thread : worker[t].pc \in {"unborn", "dead"}
      BY <2>2 DEF AliveInv, Alive, Thread
    <3> QED BY <3>1, <3>2 DEF AliveInv, Alive, Thread
  <2> QED BY <2>1, <2>2
<1>7. CASE Stop \/ JoinEnds \/ JoinTimesOut \/ ClearHistory
  BY <1>7, LifeGoesOn DEF Stop, JoinEnds, JoinTimesOut, ClearHistory
<1>8. ASSUME NEW type \in EventType, NEW h \in Handler,
             Subscribe(type, h) \/ Unsubscribe(type, h)
      PROVE  AliveInv'
  BY <1>8, LifeGoesOn DEF Subscribe, Unsubscribe
<1> QED BY <1>1, <1>2, <1>3, <1>4, <1>5, <1>6, <1>7, <1>8 DEF Next

\* The last thread created is the only one that may be alive.
LEMMA AliveAlways == Spec => [](Typed /\ AliveInv)
<1>1. Init => AliveInv
  BY AtTyped DEF Init, AliveInv, Alive, Worker, Places
<1> QED BY <1>1, TypedInit, TypedStep, AliveStep, PTL DEF Spec

\* At most one thread takes events from the queue, however often the bus is
\* stopped and started (OneConsumer).
THEOREM AtMostOneConsumer == Spec => []OneConsumer
<1>1. Typed /\ AliveInv => OneConsumer
  <2> SUFFICES ASSUME Typed, AliveInv PROVE OneConsumer
    OBVIOUS
  <2> DEFINE S == {t \in Thread : Alive(t)}
  <2>1. S \subseteq {current}
    BY DEF AliveInv
  <2>2. IsFiniteSet({current}) /\ Cardinality({current}) = 1
    BY FS_Singleton
  <2> HIDE DEF S
  <2>3. Cardinality(S) <= Cardinality({current})
    BY <2>1, <2>2, FS_Subset
  <2>4. Cardinality(S) <= 1
    BY <2>2, <2>3
  <2> QED BY <2>4 DEF S, OneConsumer
<1> QED BY <1>1, AliveAlways, PTL

-----------------------------------------------------------------------------
(* What steps do to events: an event is created, handed over, taken, handed*)
(* to a handler, or let go.                                                *)

Held(w) == worker[w].event
OthersKeep(w) == \A v \in Worker \ {w} : Held(v)' = Held(v)

Created(p) ==
    /\ created' = created + 1 /\ UNCHANGED <<queue, delivered>>
    /\ Held(p)' \in Event /\ Held(p)'.id = created + 1 /\ Held(p)'.by = p
    /\ OthersKeep(p)

HandedOver(p) ==
    /\ Held(p) \in Event /\ ~Held(p).sync
    /\ queue' = Append(queue, Held(p)) /\ Held(p)' = <<>>
    /\ UNCHANGED <<created, delivered>> /\ OthersKeep(p)

Taken(t) ==
    /\ queue # <<>> /\ queue' = Tail(queue)
    /\ Held(t) \notin Event /\ Held(t)' = Head(queue)
    /\ UNCHANGED <<created, delivered>> /\ OthersKeep(t)

Handled(w, h) ==
    /\ worker[w].pc = "handling" /\ Held(w) \in Event
    /\ delivered' = [delivered EXCEPT ![h] = Append(@, Held(w))]
    /\ Held(w)' \in {Held(w), <<>>}
    /\ UNCHANGED <<queue, created>> /\ OthersKeep(w)

LetGo ==
    /\ \A w \in Worker : Held(w)' \in {Held(w), <<>>}
    /\ UNCHANGED <<queue, created, delivered>>

\* Every step is one of these moves.
LEMMA Moves ==
    ASSUME Typed, Typed', [Next]_vars
    PROVE  \/ \E p \in Publisher : Created(p) \/ HandedOver(p)
           \/ \E t \in Thread : Taken(t)
           \/ \E w \in Worker, h \in Handler : Handled(w, h)
           \/ LetGo
<1>0. Thread \cap Publisher = {} /\ Thread \subseteq Worker /\ Publisher \subseteq Worker
  BY EventBusAssumption DEF Thread, Worker
<1>a. worker \in [Worker -> State]
  BY DEF Typed, WorkersTyped
<1>1. CASE UNCHANGED vars
  BY <1>1 DEF vars, LetGo, Held
<1>2. ASSUME NEW p \in Publisher, NEW type \in EventType, NEW sync \in BOOLEAN,
             Publish(p, type, sync)
      PROVE  Created(p)
  <2> DEFINE event == [id |-> created + 1, type |-> type, by |-> p, sync |-> sync]
  <2>1. event \in Event
    BY <1>2, EventBusAssumption DEF Publish, Event, Typed, TypeOK
  <2>2. event.id = created + 1 /\ event.by = p
    OBVIOUS
  <2>3. worker' = [worker EXCEPT ![p] = Holding("trim", event)]
        /\ created' = created + 1 /\ UNCHANGED <<queue, delivered>>
    BY <1>2 DEF Publish
  <2> HIDE DEF event
  <2>4. worker'[p].event = event /\ \A v \in Worker \ {p} : worker'[v] = worker[v]
    BY <1>0, <1>a, <2>3 DEF Holding
  <2> QED BY <2>1, <2>2, <2>3, <2>4 DEF Created, OthersKeep, Held
<1>3. ASSUME NEW p \in Publisher, PublisherStep(p)
      PROVE  LetGo \/ HandedOver(p)
  <2>1. CASE TrimHistory(p)
    BY <1>0, <1>a, <2>1 DEF TrimHistory, LetGo, Held
  <2>2. CASE StoreHistory(p)
    BY <1>0, <1>a, <2>2 DEF StoreHistory, LetGo, Held
  <2>3. CASE Deliver(p)
    <3>1. CASE worker[p].event.sync
      <4>1. worker' = [worker EXCEPT ![p].pc = "snapshot"] /\ UNCHANGED <<queue, created, delivered>>
        BY <2>3, <3>1 DEF Deliver
      <4> QED BY <1>0, <1>a, <4>1 DEF LetGo, Held
    <3>2. CASE ~worker[p].event.sync
      <4>1. worker[p].event \in Event
        BY <1>0, <2>3, StateFields DEF Deliver, Carrying
      <4>2. worker'[p].event = <<>> /\ \A v \in Worker \ {p} : worker'[v] = worker[v]
        BY <1>0, <1>a, <2>3, <3>2 DEF Deliver, At, Holding
      <4> QED BY <2>3, <3>2, <4>1, <4>2 DEF Deliver, HandedOver, OthersKeep, Held
    <3> QED BY <3>1, <3>2
  <2> QED BY <1>3, <2>1, <2>2, <2>3 DEF PublisherStep
<1>4. ASSUME NEW t \in Thread, ThreadStep(t)
      PROVE  LetGo \/ Taken(t)
  <2>1. CASE CheckStop(t)
    BY <1>0, <1>a, <2>1 DEF CheckStop, LetGo, Held
  <2>2. CASE GetTimeout(t)
    BY <1>0, <1>a, <2>2 DEF GetTimeout, LetGo, Held
  <2>3. CASE Get(t)
    <3>1. worker[t].event \notin Event
      BY <1>0, <2>3, StateFields DEF Get, Carrying
    <3>2. worker'[t].event = Head(queue) /\ \A v \in Worker \ {t} : worker'[v] = worker[v]
      BY <1>0, <1>a, <2>3 DEF Get, State
    <3> QED BY <2>3, <3>1, <3>2 DEF Get, Taken, OthersKeep, Held
  <2> QED BY <1>4, <2>1, <2>2, <2>3 DEF ThreadStep
<1>5. ASSUME NEW w \in Worker, DispatchStep(w)
      PROVE  LetGo \/ \E h \in Handler : Handled(w, h)
  <2>1. CASE Snapshot(w)
    BY <1>a, <2>1, RestedTyped DEF Snapshot, LetGo, Held
  <2>2. CASE RunHandler(w)
    <3>1. worker[w].event \in Event /\ worker[w].todo # <<>> /\ worker[w].todo \in Seq(Handler)
      BY <2>2, StateFields DEF RunHandler, Carrying, Typed, WorkersTyped
    <3>2. Head(worker[w].todo) \in Handler
      BY <3>1, HeadTailProperties
    <3>3. worker'[w].event \in {worker[w].event, <<>>}
          /\ \A v \in Worker \ {w} : worker'[v] = worker[v]
      BY <1>a, <2>2, RestedTyped DEF RunHandler, State
    <3> QED BY <2>2, <3>1, <3>2, <3>3 DEF RunHandler, Handled, OthersKeep, Held
  <2> QED BY <1>5, <2>1, <2>2 DEF DispatchStep
<1>6. CASE Start
  <2>1. CASE Alive(current)
    BY <1>6, <2>1 DEF Start, LetGo, Held
  <2>2. CASE ~Alive(current)
    BY <1>a, <1>6, <2>2 DEF Start, LetGo, Held, At, Holding
  <2> QED BY <2>1, <2>2
<1>7. CASE Stop \/ JoinEnds \/ JoinTimesOut \/ ClearHistory
  BY <1>7 DEF Stop, JoinEnds, JoinTimesOut, ClearHistory, LetGo, Held
<1>8. ASSUME NEW type \in EventType, NEW h \in Handler,
             Subscribe(type, h) \/ Unsubscribe(type, h)
      PROVE  LetGo
  BY <1>8 DEF Subscribe, Unsubscribe, LetGo, Held
<1> QED BY <1>1, <1>2, <1>3, <1>4, <1>5, <1>6, <1>7, <1>8 DEF Next

-----------------------------------------------------------------------------
(* One place for each event.                                               *)

\* No event is older than the counter.
IdsInv ==
    /\ \A i \in 1..Len(queue) : queue[i].id <= created
    /\ \A w \in Worker : Held(w) \in Event => Held(w).id <= created
    /\ \A h \in Handler : \A i \in 1..Len(delivered[h]) : delivered[h][i].id <= created

\* The queue and the workers share no event.
Apart ==
    /\ \A i, j \in 1..Len(queue) : queue[i].id = queue[j].id => i = j
    /\ \A w \in Worker : Held(w) \in Event => \A i \in 1..Len(queue) : queue[i].id # Held(w).id
    /\ \A v, w \in Worker :
          v # w /\ Held(v) \in Event /\ Held(w) \in Event => Held(v).id # Held(w).id

\* What the events a step finds are.
LEMMA EventTypes ==
    ASSUME Typed
    PROVE  /\ queue \in Seq(Event) /\ Len(queue) \in Nat
           /\ \A i \in 1..Len(queue) : queue[i] \in Event
           /\ \A w \in Worker : Held(w) \in Event \cup {<<>>}
           /\ \A h \in Handler : delivered[h] \in Seq(Event)
           /\ \A h \in Handler : \A i \in 1..Len(delivered[h]) : delivered[h][i] \in Event
           /\ \A e \in Event : e.id \in Nat /\ e.by \in Publisher /\ e.sync \in BOOLEAN
           /\ created \in Nat
<1>1. \A h \in Handler : delivered[h] \in Seq(Event)
  BY DEF Typed, TypeOK
<1>2. queue \in Seq(Event) /\ Len(queue) \in Nat /\ \A i \in 1..Len(queue) : queue[i] \in Event
  BY LenProperties, ElementOfSeq DEF Typed, TypeOK
<1>3. \A w \in Worker : Held(w) \in Event \cup {<<>>}
  BY StateFields DEF Held
<1>4. \A e \in Event : e.id \in Nat /\ e.by \in Publisher /\ e.sync \in BOOLEAN
  BY EventBusAssumption DEF Event
<1> QED BY <1>1, <1>2, <1>3, <1>4, ElementOfSeq, EventBusAssumption DEF Typed, TypeOK

\* The queue after an event has been handed over or taken.
LEMMA QueueMoves ==
    ASSUME Typed, NEW e \in Event
    PROVE  /\ queue' = Append(queue, e) =>
                /\ Len(queue') = Len(queue) + 1 /\ queue'[Len(queue) + 1] = e
                /\ \A i \in 1..Len(queue) : queue'[i] = queue[i]
           /\ queue' = Tail(queue) /\ queue # <<>> =>
                /\ Len(queue') = Len(queue) - 1 /\ Head(queue) = queue[1]
                /\ \A i \in 1..(Len(queue) - 1) : queue'[i] = queue[i + 1]
                /\ 1 \in 1..Len(queue)
<1>1. queue \in Seq(Event) /\ Len(queue) \in Nat
  BY EventTypes
<1> QED BY <1>1, AppendProperties, HeadTailProperties, EmptySeq

\* What a handler has been called with, after one more call.
LEMMA DeliveredMoves ==
    ASSUME Typed, NEW h \in Handler, NEW e \in Event,
           delivered' = [delivered EXCEPT ![h] = Append(@, e)]
    PROVE  /\ Len(delivered'[h]) = Len(delivered[h]) + 1
           /\ Len(delivered[h]) \in Nat
           /\ delivered'[h][Len(delivered[h]) + 1] = e
           /\ \A i \in 1..Len(delivered[h]) : delivered'[h][i] = delivered[h][i]
           /\ \A g \in Handler \ {h} : delivered'[g] = delivered[g]
<1>1. delivered'[h] = Append(delivered[h], e)
      /\ \A g \in Handler \ {h} : delivered'[g] = delivered[g]
  BY DEF Typed, TypeOK
<1>2. delivered[h] \in Seq(Event)
  BY EventTypes
<1> QED BY <1>1, <1>2, AppendProperties, LenProperties

\* Every move keeps events apart and the counter ahead of them.
LEMMA PlaceStep ==
    ASSUME Typed, Typed', IdsInv, Apart, [Next]_vars
    PROVE  IdsInv' /\ Apart'
<1> USE EventTypes, EmptyIsNoEvent
<1>0. Thread \subseteq Worker /\ Publisher \subseteq Worker
  BY DEF Worker
<1>1. ASSUME NEW p \in Publisher, Created(p) PROVE IdsInv' /\ Apart'
  <2>1. \A w \in Worker : w # p => Held(w)' = Held(w)
    BY <1>1 DEF Created, OthersKeep
  <2>2. IdsInv'
    BY <1>0, <1>1, <2>1, SMTT(20) DEF Created, IdsInv
  <2>3. Apart'
    <3>1. \A w \in Worker : Held(w) \in Event => Held(w).id # created + 1
      BY DEF IdsInv
    <3>2. \A i \in 1..Len(queue) : queue[i].id # created + 1
      BY DEF IdsInv
    <3> QED BY <1>0, <1>1, <2>1, <3>1, <3>2 DEF Created, Apart
  <2> QED BY <2>2, <2>3
<1>2. ASSUME NEW p \in Publisher, HandedOver(p) PROVE IdsInv' /\ Apart'
  <2>1. \A w \in Worker : w # p => Held(w)' = Held(w)
    BY <1>2 DEF HandedOver, OthersKeep
  <2>2. /\ Len(queue') = Len(queue) + 1 /\ queue'[Len(queue) + 1] = Held(p)
        /\ \A i \in 1..Len(queue) : queue'[i] = queue[i]
    BY <1>2, QueueMoves DEF HandedOver
  <2>3. IdsInv'
    BY <1>0, <1>2, <2>1, <2>2 DEF HandedOver, IdsInv
  <2>4. Apart'
    <3>0. Held(p) \in Event /\ Held(p)' \notin Event /\ p \in Worker
      BY <1>0, <1>2 DEF HandedOver
    <3>1. \A i \in 1..Len(queue') :
              IF i = Len(queue) + 1 THEN queue'[i] = Held(p)
              ELSE i \in 1..Len(queue) /\ queue'[i] = queue[i]
      BY <2>2
    <3>2. \A i, j \in 1..Len(queue') : queue'[i].id = queue'[j].id => i = j
      BY <3>0, <3>1, SMTT(20) DEF Apart
    <3>3. \A w \in Worker : Held(w)' \in Event => \A i \in 1..Len(queue') : queue'[i].id # Held(w)'.id
      BY <2>1, <3>0, <3>1, SMTT(20) DEF Apart
    <3>4. \A v, w \in Worker :
              v # w /\ Held(v)' \in Event /\ Held(w)' \in Event => Held(v)'.id # Held(w)'.id
      BY <2>1, <3>0 DEF Apart
    <3> QED BY <3>2, <3>3, <3>4 DEF Apart
  <2> QED BY <2>3, <2>4
<1>3. ASSUME NEW t \in Thread, Taken(t) PROVE IdsInv' /\ Apart'
  <2>1. \A w \in Worker : w # t => Held(w)' = Held(w)
    BY <1>3 DEF Taken, OthersKeep
  <2>2. /\ Len(queue') = Len(queue) - 1 /\ Held(t)' = queue[1]
        /\ \A i \in 1..(Len(queue) - 1) : queue'[i] = queue[i + 1]
        /\ 1 \in 1..Len(queue)
    <3>1. Head(queue) \in Event
      BY <1>3, HeadTailProperties DEF Taken
    <3> QED BY <1>3, <3>1, QueueMoves DEF Taken
  <2>3. IdsInv'
    BY <1>0, <1>3, <2>1, <2>2 DEF Taken, IdsInv
  <2>4. Apart'
    <3>0. Held(t)' \in Event /\ Held(t)' = queue[1] /\ t \in Worker
      BY <1>0, <2>2
    <3>1. \A i \in 1..Len(queue') : queue'[i] = queue[i + 1] /\ i + 1 \in 1..Len(queue)
      BY <2>2
    <3>2. \A i, j \in 1..Len(queue') : queue'[i].id = queue'[j].id => i = j
      <4>1. SUFFICES ASSUME NEW i \in 1..Len(queue'), NEW j \in 1..Len(queue'),
                            queue'[i].id = queue'[j].id
                     PROVE  i = j
        OBVIOUS
      <4>2. i + 1 = j + 1
        BY <3>1, <4>1, SMTT(20) DEF Apart
      <4> QED BY <4>2
    <3>3. \A w \in Worker : Held(w)' \in Event => \A i \in 1..Len(queue') : queue'[i].id # Held(w)'.id
      BY <2>1, <2>2, <3>0, <3>1 DEF Apart
    <3>4. \A v, w \in Worker :
              v # w /\ Held(v)' \in Event /\ Held(w)' \in Event => Held(v)'.id # Held(w)'.id
      BY <2>1, <2>2, <3>0 DEF Apart
    <3> QED BY <3>2, <3>3, <3>4 DEF Apart
  <2> QED BY <2>3, <2>4
<1>4. ASSUME NEW w \in Worker, NEW h \in Handler, Handled(w, h) PROVE IdsInv' /\ Apart'
  <2>1. \A v \in Worker : Held(v)' \in {Held(v), <<>>}
    BY <1>4 DEF Handled, OthersKeep
  <2>2. /\ Len(delivered'[h]) = Len(delivered[h]) + 1
        /\ Len(delivered[h]) \in Nat
        /\ delivered'[h][Len(delivered[h]) + 1] = Held(w)
        /\ \A i \in 1..Len(delivered[h]) : delivered'[h][i] = delivered[h][i]
        /\ \A g \in Handler \ {h} : delivered'[g] = delivered[g]
    BY <1>4, DeliveredMoves DEF Handled
  <2>3. IdsInv'
    <3>1. \A g \in Handler : \A i \in 1..Len(delivered'[g]) : delivered'[g][i].id <= created
      BY <1>4, <2>2 DEF Handled, IdsInv
    <3> QED BY <1>4, <2>1, <3>1 DEF Handled, IdsInv
  <2>4. Apart'
    BY <1>4, <2>1 DEF Handled, Apart
  <2> QED BY <2>3, <2>4
<1>5. CASE LetGo
  BY <1>5 DEF LetGo, IdsInv, Apart
<1> QED BY <1>1, <1>2, <1>3, <1>4, <1>5, Moves

Placed == Typed /\ IdsInv /\ Apart

\* There are no events at the beginning.
LEMMA PlacedInit == Init => Placed
<1> SUFFICES ASSUME Init PROVE Placed
  OBVIOUS
<1>1. Typed
  BY TypedInit
<1>2. \A w \in Worker : Held(w) = <<>>
  BY AtTyped DEF Init, Places, Held
<1>3. Len(queue) = 0 /\ \A h \in Handler : Len(delivered[h]) = 0
  BY DEF Init
<1> QED BY <1>1, <1>2, <1>3, EmptyIsNoEvent DEF Placed, IdsInv, Apart

\* Types, ages and places together are inductive.
LEMMA PlacedStep == Placed /\ [Next]_vars => Placed'
BY TypedStep, PlaceStep DEF Placed

\* Events are apart for ever.
LEMMA PlacedAlways == Spec => []Placed
BY PlacedInit, PlacedStep, PTL DEF Spec

\* What a worker carries, in the words of the invariant.
LEMMA CarriedIs ==
    ASSUME Typed, NEW w \in Worker
    PROVE  /\ Held(w) \in Event => Carried(w) = {Held(w).id}
           /\ Held(w) \notin Event => Carried(w) = {}
BY EventTypes, EmptyIsNoEvent DEF Carried, Held

\* An event is in the queue once or with one worker, never in two places
\* (OnePlace).
THEOREM OnePlaceOnly == Spec => []OnePlace
<1>1. Placed => OnePlace
  <2> SUFFICES ASSUME Placed PROVE OnePlace
    OBVIOUS
  <2>1. \A w \in Worker : Carried(w) \cap InQueue = {}
    BY CarriedIs DEF Placed, Apart, InQueue
  <2>2. \A v, w \in Worker : v # w => Carried(v) \cap Carried(w) = {}
    BY CarriedIs DEF Placed, Apart
  <2> QED BY <2>1, <2>2 DEF Placed, Apart, OnePlace
<1> QED BY <1>1, PlacedAlways, PTL

\* An event leaves the queue for a worker only, and never comes back.
LEMMA MoveOnStep ==
    ASSUME Placed, Placed', [Next]_vars, NEW e \in 1..created
    PROVE  /\ e \in InQueue => e \in Around'
           /\ e \notin Around => e \notin Around'
<1> USE EventTypes, EmptyIsNoEvent DEF Placed
<1> DEFINE Queued == \E i \in 1..Len(queue) : queue[i].id = e
           Kept == \E w \in Worker : Held(w) \in Event /\ Held(w).id = e
<1>0. Thread \subseteq Worker /\ Publisher \subseteq Worker
  BY DEF Worker
<1>1. (e \in InQueue <=> Queued) /\ (e \in InQueue' <=> Queued')
  BY DEF InQueue
<1>2. \A w \in Worker : (e \in Carried(w) <=> Held(w) \in Event /\ Held(w).id = e)
  BY CarriedIs
<1>3. \A w \in Worker : (e \in Carried(w)' <=> Held(w)' \in Event /\ Held(w)'.id = e)
  <2>1. \A w \in Worker : Held(w)' \in Event \cup {<<>>}
    BY DEF Held, Typed, WorkersTyped, State
  <2> QED BY <2>1 DEF Carried, Held
<1>4. (e \in Around <=> Queued \/ Kept) /\ (e \in Around' <=> Queued' \/ Kept')
  BY <1>1, <1>2, <1>3 DEF Around
<1>5. ASSUME NEW p \in Publisher, Created(p)
      PROVE  (Queued => Queued') /\ (Queued' => Queued) /\ (Kept' => Kept)
  <2>1. \A w \in Worker : w # p => Held(w)' = Held(w)
    BY <1>5 DEF Created, OthersKeep
  <2> QED BY <1>0, <1>5, <2>1 DEF Created
<1>6. ASSUME NEW p \in Publisher, HandedOver(p)
      PROVE  (Queued => Queued') /\ (Queued' => Queued \/ Kept) /\ (Kept' => Kept)
  <2>1. \A w \in Worker : w # p => Held(w)' = Held(w)
    BY <1>6 DEF HandedOver, OthersKeep
  <2>2. /\ Len(queue') = Len(queue) + 1 /\ queue'[Len(queue) + 1] = Held(p)
        /\ \A i \in 1..Len(queue) : queue'[i] = queue[i]
        /\ Held(p) \in Event /\ Held(p)' = <<>> /\ p \in Worker
    BY <1>0, <1>6, QueueMoves DEF HandedOver
  <2> QED BY <2>1, <2>2, SMTT(20)
<1>7. ASSUME NEW t \in Thread, Taken(t)
      PROVE  (Queued => Queued' \/ Kept') /\ (Queued' => Queued) /\ (Kept' => Queued \/ Kept)
  <2>1. \A w \in Worker : w # t => Held(w)' = Held(w)
    BY <1>7 DEF Taken, OthersKeep
  <2>2. Head(queue) \in Event
    BY <1>7, HeadTailProperties DEF Taken
  <2>3. /\ Len(queue') = Len(queue) - 1 /\ Held(t)' = queue[1] /\ queue[1] \in Event
        /\ \A i \in 1..(Len(queue) - 1) : queue'[i] = queue[i + 1]
        /\ 1 \in 1..Len(queue) /\ t \in Worker
    BY <1>0, <1>7, <2>2, QueueMoves DEF Taken
  <2>4. Queued => Queued' \/ Kept'
    <3>1. SUFFICES ASSUME NEW i \in 1..Len(queue), queue[i].id = e PROVE Queued' \/ Kept'
      OBVIOUS
    <3>2. CASE i = 1
      BY <2>3, <3>1, <3>2
    <3>3. CASE i # 1
      <4>1. i - 1 \in 1..Len(queue') /\ queue'[i - 1] = queue[i]
        BY <2>3, <3>3
      <4> QED BY <3>1, <4>1
    <3> QED BY <3>2, <3>3
  <2>5. Queued' => Queued
    <3>1. \A i \in 1..Len(queue') : i + 1 \in 1..Len(queue) /\ queue'[i] = queue[i + 1]
      BY <2>3
    <3> QED BY <3>1
  <2>6. Kept' => Queued \/ Kept
    BY <2>1, <2>3
  <2> QED BY <2>4, <2>5, <2>6
<1>8. ASSUME NEW w \in Worker, NEW h \in Handler, Handled(w, h)
      PROVE  (Queued <=> Queued') /\ (Kept' => Kept)
  BY <1>8 DEF Handled, OthersKeep
<1>9. ASSUME LetGo PROVE (Queued <=> Queued') /\ (Kept' => Kept)
  BY <1>9 DEF LetGo
<1> HIDE DEF Queued, Kept
<1>10. /\ Queued => Queued' \/ Kept'
       /\ Queued' => Queued \/ Kept
       /\ Kept' => Queued \/ Kept
  BY <1>5, <1>6, <1>7, <1>8, <1>9, Moves
<1> QED BY <1>1, <1>4, <1>10

\* Stopping, a join that times out and starting again neither lose what waits
\* nor repeat what is done (EventsOnlyMoveOn).
THEOREM OnlyMoveOn == Spec => EventsOnlyMoveOn
<1>1. Placed /\ Placed' /\ [Next]_vars =>
        [\A e \in 1..created : /\ e \in InQueue => e \in Around'
                               /\ e \notin Around => e \notin Around']_vars
  BY MoveOnStep
<1> QED BY <1>1, PlacedAlways, PTL DEF Spec, EventsOnlyMoveOn

-----------------------------------------------------------------------------
(* Order.                                                                  *)

\* A publisher has an event of its own, and dispatches it only when it is to
\* be dispatched synchronously.
OwnEvents ==
    \A p \in Publisher : Held(p) \in Event =>
        /\ Held(p).by = p
        /\ worker[p].pc \in {"snapshot", "handling"} => Held(p).sync

OlderThanRest(d) ==
    /\ \A i \in 1..Len(queue) : queue[i].by = d.by => d.id < queue[i].id
    /\ \A t \in Thread : Held(t) \in Event /\ Held(t).by = d.by => d.id <= Held(t).id
    /\ \A p \in Publisher :
          Held(p) \in Event /\ ~Held(p).sync /\ d.by = p => d.id < Held(p).id

\* Among the asynchronous events of one publisher, those delivered are older
\* than the one a thread has (or that one itself), which is older than those
\* in the queue, which are in order and older than the one it still holds.
OrderInv ==
    /\ \A i \in 1..Len(queue) : ~queue[i].sync
    /\ \A i, j \in 1..Len(queue) :
          i < j /\ queue[i].by = queue[j].by => queue[i].id < queue[j].id
    /\ \A t \in Thread : Held(t) \in Event =>
          /\ ~Held(t).sync
          /\ \A i \in 1..Len(queue) : queue[i].by = Held(t).by => Held(t).id < queue[i].id
    /\ \A p \in Publisher : Held(p) \in Event /\ ~Held(p).sync =>
          /\ \A i \in 1..Len(queue) : queue[i].by = p => queue[i].id < Held(p).id
          /\ \A t \in Thread : Held(t) \in Event /\ Held(t).by = p => Held(t).id < Held(p).id
    /\ \A h \in Handler : \A k \in 1..Len(delivered[h]) :
          ~delivered[h][k].sync => OlderThanRest(delivered[h][k])
    /\ InOrder

\* A publisher keeps its own events, and a dispatch of its own is synchronous.
LEMMA OwnStep ==
    ASSUME Typed, Typed', OwnEvents, [Next]_vars
    PROVE  OwnEvents'
<1> USE EventTypes, EmptyIsNoEvent DEF OwnEvents, Held
<1>0. Thread \cap Publisher = {} /\ Thread \subseteq Worker /\ Publisher \subseteq Worker
  BY EventBusAssumption DEF Thread, Worker
<1>a. worker \in [Worker -> State]
  BY DEF Typed, WorkersTyped
<1>1. CASE UNCHANGED vars
  BY <1>1 DEF vars
<1>2. ASSUME NEW p \in Publisher, NEW type \in EventType, NEW sync \in BOOLEAN,
             Publish(p, type, sync)
      PROVE  OwnEvents'
  <2> DEFINE event == [id |-> created + 1, type |-> type, by |-> p, sync |-> sync]
  <2>1. worker' = [worker EXCEPT ![p] = Holding("trim", event)] /\ event.by = p
    BY <1>2 DEF Publish
  <2> HIDE DEF event
  <2>2. worker'[p].event = event /\ worker'[p].pc = "trim"
        /\ \A q \in Publisher \ {p} : worker'[q] = worker[q]
    BY <1>0, <1>a, <2>1 DEF Holding
  <2> QED BY <2>1, <2>2
<1>3. ASSUME NEW p \in Publisher, PublisherStep(p) PROVE OwnEvents'
  <2>1. CASE TrimHistory(p)
    <3>1. worker'[p].event = worker[p].event /\ worker'[p].pc \in {"store", "deliver"}
          /\ \A q \in Publisher \ {p} : worker'[q] = worker[q]
      BY <1>0, <1>a, <2>1 DEF TrimHistory, State
    <3> QED BY <3>1
  <2>2. CASE StoreHistory(p)
    <3>1. worker'[p].event = worker[p].event /\ worker'[p].pc = "deliver"
          /\ \A q \in Publisher \ {p} : worker'[q] = worker[q]
      BY <1>0, <1>a, <2>2 DEF StoreHistory, State
    <3> QED BY <3>1
  <2>3. CASE Deliver(p)
    <3>1. CASE worker[p].event.sync
      <4>1. worker' = [worker EXCEPT ![p].pc = "snapshot"]
        BY <2>3, <3>1 DEF Deliver
      <4>2. worker'[p].event = worker[p].event
            /\ \A q \in Publisher \ {p} : worker'[q] = worker[q]
        BY <1>0, <1>a, <4>1 DEF State
      <4> QED BY <3>1, <4>2
    <3>2. CASE ~worker[p].event.sync
      <4>1. worker'[p].event = <<>> /\ \A q \in Publisher \ {p} : worker'[q] = worker[q]
        BY <1>0, <1>a, <2>3, <3>2 DEF Deliver, At, Holding
      <4> QED BY <4>1
    <3> QED BY <3>1, <3>2
  <2> QED BY <1>3, <2>1, <2>2, <2>3 DEF PublisherStep
<1>4. ASSUME NEW t \in Thread, ThreadStep(t) PROVE OwnEvents'
  <2>1. \A p \in Publisher : worker'[p] = worker[p]
    BY <1>0, <1>a, <1>4 DEF ThreadStep, CheckStop, Get, GetTimeout
  <2> QED BY <2>1
<1>5. ASSUME NEW w \in Worker, DispatchStep(w) PROVE OwnEvents'
  <2>1. \A v \in Worker : v # w => worker'[v] = worker[v]
    BY <1>5, <1>a DEF DispatchStep, Snapshot, RunHandler
  <2>2. worker'[w].event \in {worker[w].event, <<>>}
    <3>1. CASE Snapshot(w)
      BY <1>a, <3>1, RestedTyped DEF Snapshot, State
    <3>2. CASE RunHandler(w)
      BY <1>a, <3>2, RestedTyped DEF RunHandler, State
    <3> QED BY <1>5, <3>1, <3>2 DEF DispatchStep
  <2>3. worker[w].pc \in {"snapshot", "handling"}
    BY <1>5 DEF DispatchStep, Snapshot, RunHandler
  <2> QED BY <1>0, <2>1, <2>2, <2>3
<1>6. CASE Start
  <2>1. \A p \in Publisher : worker'[p] = worker[p]
    <3>1. CASE Alive(current)
      BY <1>6, <3>1 DEF Start
    <3>2. CASE ~Alive(current)
      <4>1. current + 1 \in Thread
        BY <1>6, <3>2, EventBusAssumption DEF Start, Typed, TypeOK, Thread
      <4> QED BY <1>0, <1>a, <1>6, <3>2, <4>1 DEF Start
    <3> QED BY <3>1, <3>2
  <2> QED BY <2>1
<1>7. CASE Stop \/ JoinEnds \/ JoinTimesOut \/ ClearHistory
  BY <1>7 DEF Stop, JoinEnds, JoinTimesOut, ClearHistory
<1>8. ASSUME NEW type \in EventType, NEW h \in Handler,
             Subscribe(type, h) \/ Unsubscribe(type, h)
      PROVE  OwnEvents'
  BY <1>8 DEF Subscribe, Unsubscribe
<1> QED BY <1>1, <1>2, <1>3, <1>4, <1>5, <1>6, <1>7, <1>8 DEF Next

\* A thread that has an event is the one alive.
LEMMA OnlyOneHolds ==
    ASSUME Typed, AliveInv, NEW t \in Thread, Held(t) \in Event
    PROVE  t = current
<1>1. worker[t].pc \in Carrying /\ t \in Worker
  BY StateFields DEF Held, Worker
<1> QED BY <1>1 DEF AliveInv, Alive, Carrying, Thread

\* A new event is younger than all others.
LEMMA OrderCreated ==
    ASSUME Placed, OrderInv, NEW p \in Publisher, Created(p)
    PROVE  OrderInv'
<1> USE EventTypes, EmptyIsNoEvent DEF Placed
<1>0. Thread \cap Publisher = {} /\ Thread \subseteq Worker /\ Publisher \subseteq Worker
  BY EventBusAssumption DEF Thread, Worker
<1>1. /\ \A w \in Worker : w # p => Held(w)' = Held(w)
      /\ Held(p)'.id = created + 1
      /\ UNCHANGED <<queue, delivered>>
  BY DEF Created, OthersKeep
<1>2. \A e \in Event : e.id <= created => e.id < created + 1
  OBVIOUS
<1>3. \A q \in Publisher : Held(q)' \in Event /\ ~Held(q)'.sync =>
          /\ \A i \in 1..Len(queue') : queue'[i].by = q => queue'[i].id < Held(q)'.id
          /\ \A t \in Thread : Held(t)' \in Event /\ Held(t)'.by = q => Held(t)'.id < Held(q)'.id
  BY <1>0, <1>1, <1>2 DEF IdsInv, OrderInv
<1>4. \A h \in Handler : \A k \in 1..Len(delivered'[h]) :
          ~delivered'[h][k].sync => OlderThanRest(delivered[h][k])'
  <2>1. ASSUME NEW d \in Event, d.id <= created, OlderThanRest(d)
        PROVE  OlderThanRest(d)'
    BY <1>0, <1>1, <1>2, <2>1 DEF OlderThanRest
  <2>2. \A d \in Event : d.id <= created /\ OlderThanRest(d) => OlderThanRest(d)'
    BY <2>1
  <2> QED BY <1>1, <2>2 DEF IdsInv, OrderInv, OlderThanRest
<1>5. InOrder'
  BY <1>1 DEF OrderInv, InOrder
<1> QED BY <1>0, <1>1, <1>3, <1>4, <1>5 DEF OrderInv

\* The event handed over is the youngest of its publisher in the queue.
LEMMA OrderHandedOver ==
    ASSUME Placed, OwnEvents, OrderInv, NEW p \in Publisher, HandedOver(p)
    PROVE  OrderInv'
<1> USE EventTypes, EmptyIsNoEvent DEF Placed
<1>0. Thread \cap Publisher = {} /\ Thread \subseteq Worker /\ Publisher \subseteq Worker
  BY EventBusAssumption DEF Thread, Worker
<1>1. /\ \A w \in Worker : w # p => Held(w)' = Held(w)
      /\ Held(p) \in Event /\ ~Held(p).sync /\ Held(p).by = p /\ Held(p)' \notin Event
      /\ UNCHANGED delivered
  BY DEF HandedOver, OthersKeep, OwnEvents
<1>2. \A i \in 1..Len(queue') :
          IF i = Len(queue) + 1 THEN queue'[i] = Held(p)
          ELSE i \in 1..Len(queue) /\ queue'[i] = queue[i]
  <2>1. /\ Len(queue') = Len(queue) + 1 /\ queue'[Len(queue) + 1] = Held(p)
        /\ \A i \in 1..Len(queue) : queue'[i] = queue[i]
    BY QueueMoves DEF HandedOver
  <2> QED BY <2>1
<1>3. Len(queue') = Len(queue) + 1
  BY QueueMoves DEF HandedOver
<1>4. \A i \in 1..Len(queue') : ~queue'[i].sync
  BY <1>1, <1>2 DEF OrderInv
<1>5. \A i, j \in 1..Len(queue') :
          i < j /\ queue'[i].by = queue'[j].by => queue'[i].id < queue'[j].id
  <2>1. SUFFICES ASSUME NEW i \in 1..Len(queue'), NEW j \in 1..Len(queue'),
                        i < j, queue'[i].by = queue'[j].by
                 PROVE  queue'[i].id < queue'[j].id
    OBVIOUS
  <2>2. i \in 1..Len(queue) /\ queue'[i] = queue[i]
    BY <1>2, <1>3, <2>1
  <2>3. CASE j = Len(queue) + 1
    <3>1. queue'[j] = Held(p)
      BY <1>2, <2>3
    <3> QED BY <1>1, <2>1, <2>2, <3>1 DEF OrderInv
  <2>4. CASE j # Len(queue) + 1
    <3>1. j \in 1..Len(queue) /\ queue'[j] = queue[j]
      BY <1>2, <2>4
    <3> QED BY <2>1, <2>2, <3>1 DEF OrderInv
  <2> QED BY <2>3, <2>4
<1>6. \A t \in Thread : Held(t)' \in Event =>
          /\ ~Held(t)'.sync
          /\ \A i \in 1..Len(queue') : queue'[i].by = Held(t)'.by => Held(t)'.id < queue'[i].id
  BY <1>0, <1>1, <1>2, SMTT(20) DEF OrderInv
<1>7. \A q \in Publisher : Held(q)' \in Event /\ ~Held(q)'.sync =>
          /\ \A i \in 1..Len(queue') : queue'[i].by = q => queue'[i].id < Held(q)'.id
          /\ \A t \in Thread : Held(t)' \in Event /\ Held(t)'.by = q => Held(t)'.id < Held(q)'.id
  BY <1>0, <1>1, <1>2 DEF OrderInv
<1>8. \A h \in Handler : \A k \in 1..Len(delivered'[h]) :
          ~delivered'[h][k].sync => OlderThanRest(delivered[h][k])'
  <2>1. ASSUME NEW d \in Event, OlderThanRest(d)
        PROVE  OlderThanRest(d)'
    BY <1>0, <1>1, <1>2, <2>1 DEF OlderThanRest
  <2>2. \A d \in Event : OlderThanRest(d) => OlderThanRest(d)'
    BY <2>1
  <2> QED BY <1>1, <2>2 DEF OrderInv, OlderThanRest
<1>9. InOrder'
  BY <1>1 DEF OrderInv, InOrder
<1> QED BY <1>4, <1>5, <1>6, <1>7, <1>8, <1>9 DEF OrderInv

\* The event taken is the oldest of its publisher in the queue.
LEMMA OrderTaken ==
    ASSUME Placed, AliveInv', Typed', OrderInv, NEW t \in Thread, Taken(t)
    PROVE  OrderInv'
<1> USE EventTypes, EmptyIsNoEvent DEF Placed
<1>0. Thread \cap Publisher = {} /\ Thread \subseteq Worker /\ Publisher \subseteq Worker
  BY EventBusAssumption DEF Thread, Worker
<1>1. \A w \in Worker : w # t => Held(w)' = Held(w)
  BY DEF Taken, OthersKeep
<1>2. Head(queue) \in Event
  BY HeadTailProperties DEF Taken
<1>3. /\ Held(t)' = queue[1] /\ 1 \in 1..Len(queue) /\ UNCHANGED delivered
      /\ \A i \in 1..Len(queue') : queue'[i] = queue[i + 1] /\ i + 1 \in 1..Len(queue) /\ 1 < i + 1
  BY <1>2, QueueMoves DEF Taken
<1>4. \A i \in 1..Len(queue') : ~queue'[i].sync
  BY <1>3 DEF OrderInv
<1>5. \A i, j \in 1..Len(queue') :
          i < j /\ queue'[i].by = queue'[j].by => queue'[i].id < queue'[j].id
  <2>1. SUFFICES ASSUME NEW i \in 1..Len(queue'), NEW j \in 1..Len(queue'),
                        i < j, queue'[i].by = queue'[j].by
                 PROVE  queue'[i].id < queue'[j].id
    OBVIOUS
  <2>2. i + 1 < j + 1
    BY <2>1
  <2> QED BY <1>3, <2>1, <2>2 DEF OrderInv
<1>6. \A u \in Thread : Held(u)' \in Event =>
          /\ ~Held(u)'.sync
          /\ \A i \in 1..Len(queue') : queue'[i].by = Held(u)'.by => Held(u)'.id < queue'[i].id
  <2>1. ASSUME NEW u \in Thread \ {t}, Held(u)' \in Event
        PROVE  /\ ~Held(u)'.sync
               /\ \A i \in 1..Len(queue') : queue'[i].by = Held(u)'.by => Held(u)'.id < queue'[i].id
    BY <1>0, <1>1, <1>3, <2>1 DEF OrderInv
  <2>2. /\ ~Held(t)'.sync
        /\ \A i \in 1..Len(queue') : queue'[i].by = Held(t)'.by => Held(t)'.id < queue'[i].id
    BY <1>3 DEF OrderInv
  <2> QED BY <2>1, <2>2
<1>7. \A q \in Publisher : Held(q)' \in Event /\ ~Held(q)'.sync =>
          /\ \A i \in 1..Len(queue') : queue'[i].by = q => queue'[i].id < Held(q)'.id
          /\ \A u \in Thread : Held(u)' \in Event /\ Held(u)'.by = q => Held(u)'.id < Held(q)'.id
  <2>1. SUFFICES ASSUME NEW q \in Publisher, Held(q)' \in Event, ~Held(q)'.sync
                 PROVE  /\ \A i \in 1..Len(queue') : queue'[i].by = q => queue'[i].id < Held(q)'.id
                        /\ \A u \in Thread : Held(u)' \in Event /\ Held(u)'.by = q
                                                => Held(u)'.id < Held(q)'.id
    OBVIOUS
  <2>2. Held(q)' = Held(q) /\ \A i \in 1..Len(queue) : queue[i].by = q => queue[i].id < Held(q).id
    BY <1>0, <1>1, <2>1 DEF OrderInv
  <2>3. \A u \in Thread \ {t} : Held(u)' = Held(u)
    BY <1>0, <1>1
  <2> QED BY <1>3, <2>1, <2>2, <2>3 DEF OrderInv
<1>8. \A h \in Handler : \A k \in 1..Len(delivered'[h]) :
          ~delivered'[h][k].sync => OlderThanRest(delivered[h][k])'
  <2>1. ASSUME NEW d \in Event, OlderThanRest(d)
        PROVE  OlderThanRest(d)'
    <3>1. \A i \in 1..Len(queue') : queue'[i].by = d.by => d.id < queue'[i].id
      BY <1>3, <2>1 DEF OlderThanRest
    <3>2. Held(t)'.by = d.by => d.id <= Held(t)'.id
      BY <1>3, <2>1 DEF OlderThanRest
    <3>3. \A u \in Thread : Held(u)' \in Event /\ Held(u)'.by = d.by => d.id <= Held(u)'.id
      BY <1>0, <1>1, <2>1, <3>2 DEF OlderThanRest
    <3>4. \A p \in Publisher : Held(p)' = Held(p)
      BY <1>0, <1>1
    <3> QED BY <2>1, <3>1, <3>3, <3>4 DEF OlderThanRest
  <2>2. \A d \in Event : OlderThanRest(d) => OlderThanRest(d)'
    BY <2>1
  <2> QED BY <1>3, <2>2 DEF OrderInv, OlderThanRest
<1>9. InOrder'
  BY <1>3 DEF OrderInv, InOrder
<1> QED BY <1>4, <1>5, <1>6, <1>7, <1>8, <1>9 DEF OrderInv

\* What a thread hands to a handler is no older than what was delivered,
\* because no other thread has an event.
LEMMA OrderHandled ==
    ASSUME Placed, AliveInv, OwnEvents, OrderInv,
           NEW w \in Worker, NEW h \in Handler, Handled(w, h)
    PROVE  OrderInv'
<1> USE EventTypes, EmptyIsNoEvent DEF Placed
<1>0. Thread \cap Publisher = {} /\ Thread \subseteq Worker /\ Publisher \subseteq Worker
      /\ Worker = Thread \cup Publisher
  BY EventBusAssumption DEF Thread, Worker
<1>1. /\ \A v \in Worker : Held(v)' \in {Held(v), <<>>}
      /\ Held(w) \in Event /\ UNCHANGED queue
  BY DEF Handled, OthersKeep
<1>2. /\ Len(delivered'[h]) = Len(delivered[h]) + 1
      /\ Len(delivered[h]) \in Nat
      /\ delivered'[h][Len(delivered[h]) + 1] = Held(w)
      /\ \A i \in 1..Len(delivered[h]) : delivered'[h][i] = delivered[h][i]
      /\ \A g \in Handler \ {h} : delivered'[g] = delivered[g]
  BY DeliveredMoves DEF Handled
<1>3. \A g \in Handler : \A k \in 1..Len(delivered'[g]) :
          IF g = h /\ k = Len(delivered[h]) + 1 THEN delivered'[g][k] = Held(w)
          ELSE k \in 1..Len(delivered[g]) /\ delivered'[g][k] = delivered[g][k]
  BY <1>2, SMTT(20)
<1>4. ~Held(w).sync => w \in Thread /\ w = current
  BY <1>0, <1>1, OnlyOneHolds DEF OwnEvents, Handled
<1>5. ~Held(w).sync => \A t \in Thread : Held(t)' \in Event => t = w
  BY <1>0, <1>1, <1>4, OnlyOneHolds
<1>6. \A g \in Handler : \A k \in 1..Len(delivered'[g]) :
          ~delivered'[g][k].sync => OlderThanRest(delivered[g][k])'
  <2>1. ASSUME NEW d \in Event, OlderThanRest(d) PROVE OlderThanRest(d)'
    BY <1>0, <1>1, <2>1 DEF OlderThanRest
  <2>2. SUFFICES ASSUME NEW g \in Handler, NEW k \in 1..Len(delivered'[g]),
                        NEW d \in Event, d = delivered'[g][k], ~d.sync
                 PROVE  OlderThanRest(d)
    <3>1. \A g \in Handler : \A k \in 1..Len(delivered'[g]) : delivered'[g][k] \in Event
      BY <1>1, <1>3
    <3> QED BY <2>1, <3>1 DEF OlderThanRest
  <2>3. CASE g = h /\ k = Len(delivered[h]) + 1
    <3>1. d = Held(w)
      BY <1>3, <2>2, <2>3
    <3>2. w \in Thread
      BY <1>4, <2>2, <3>1
    <3>3. \A t \in Thread : Held(t) \in Event => t = w
      BY <1>4, <2>2, <3>1, OnlyOneHolds
    <3> QED BY <1>1, <2>2, <3>1, <3>2, <3>3 DEF OrderInv, OlderThanRest
  <2>4. CASE ~(g = h /\ k = Len(delivered[h]) + 1)
    <3>1. delivered'[g][k] = delivered[g][k] /\ k \in 1..Len(delivered[g])
      BY <1>3, <2>2, <2>4
    <3> QED BY <2>2, <3>1 DEF OrderInv
  <2> QED BY <2>3, <2>4
<1>7. InOrder'
  <2>1. SUFFICES ASSUME NEW g \in Handler, NEW i \in 1..Len(delivered'[g]),
                        NEW j \in 1..Len(delivered'[g]), i < j,
                        delivered'[g][i].by = delivered'[g][j].by,
                        ~delivered'[g][i].sync, ~delivered'[g][j].sync
                 PROVE  delivered'[g][i].id <= delivered'[g][j].id
    BY DEF InOrder
  <2>2. CASE g = h /\ j = Len(delivered[h]) + 1
    <3>1. delivered'[g][j] = Held(w) /\ delivered'[g][i] = delivered[g][i]
          /\ i \in 1..Len(delivered[g])
      BY <1>3, <2>1, <2>2
    <3>2. w \in Thread
      BY <1>4, <2>1, <3>1
    <3> QED BY <1>1, <2>1, <3>1, <3>2 DEF OrderInv, OlderThanRest
  <2>3. CASE ~(g = h /\ j = Len(delivered[h]) + 1)
    <3>1. /\ delivered'[g][i] = delivered[g][i] /\ i \in 1..Len(delivered[g])
          /\ delivered'[g][j] = delivered[g][j] /\ j \in 1..Len(delivered[g])
      BY <1>2, <1>3, <2>1, <2>3, SMTT(20)
    <3> QED BY <2>1, <3>1 DEF OrderInv, InOrder
  <2> QED BY <2>2, <2>3
<1>8. \A t \in Thread : Held(t)' \in Event =>
          /\ ~Held(t)'.sync
          /\ \A i \in 1..Len(queue') : queue'[i].by = Held(t)'.by => Held(t)'.id < queue'[i].id
  BY <1>0, <1>1 DEF OrderInv
<1>9. \A q \in Publisher : Held(q)' \in Event /\ ~Held(q)'.sync =>
          /\ \A i \in 1..Len(queue') : queue'[i].by = q => queue'[i].id < Held(q)'.id
          /\ \A t \in Thread : Held(t)' \in Event /\ Held(t)'.by = q => Held(t)'.id < Held(q)'.id
  BY <1>0, <1>1 DEF OrderInv
<1> QED BY <1>1, <1>6, <1>7, <1>8, <1>9 DEF OrderInv

\* An event let go of is one less to compare with.
LEMMA OrderLetGo ==
    ASSUME OrderInv, LetGo
    PROVE  OrderInv'
<1>1. \A w \in Worker : Held(w)' \in Event => Held(w)' = Held(w)
  BY EmptyIsNoEvent DEF LetGo
<1>2. Thread \subseteq Worker /\ Publisher \subseteq Worker
  BY DEF Worker
<1>3. UNCHANGED <<queue, delivered>> /\ InOrder'
  BY DEF LetGo, OrderInv, InOrder
<1> QED BY <1>1, <1>2, <1>3, SMTT(20) DEF OrderInv, OlderThanRest

Ordered == Placed /\ AliveInv /\ OwnEvents /\ OrderInv

\* Order, places and life together are inductive.
LEMMA OrderedStep == Ordered /\ [Next]_vars => Ordered'
<1> SUFFICES ASSUME Ordered, [Next]_vars PROVE Ordered'
  OBVIOUS
<1>1. Placed' /\ Typed'
  BY PlacedStep DEF Ordered, Placed
<1>2. AliveInv' /\ OwnEvents'
  BY <1>1, AliveStep, OwnStep DEF Ordered, Placed
<1>3. OrderInv'
  BY <1>1, <1>2, Moves, OrderCreated, OrderHandedOver, OrderTaken, OrderHandled, OrderLetGo
     DEF Ordered, Placed
<1> QED BY <1>1, <1>2, <1>3 DEF Ordered

\* What one publisher publishes asynchronously reaches every handler in the
\* order of publication, over restarts as well (InOrder).
THEOREM DeliveredInOrder == Spec => []InOrder
<1>1. Init => Ordered
  <2> SUFFICES ASSUME Init PROVE Ordered
    OBVIOUS
  <2>1. \A w \in Worker : Held(w) = <<>>
    BY AtTyped DEF Init, Places, Held
  <2>2. Len(queue) = 0 /\ \A h \in Handler : Len(delivered[h]) = 0
    BY DEF Init
  <2>3. AliveInv
    BY AtTyped DEF Init, AliveInv, Alive, Worker, Places
  <2> QED BY <2>1, <2>2, <2>3, PlacedInit, EmptyIsNoEvent
          DEF Ordered, OwnEvents, OrderInv, InOrder, Worker
<1>2. Ordered => InOrder
  BY DEF Ordered, OrderInv
<1> QED BY <1>1, <1>2, OrderedStep, PTL DEF Spec

-----------------------------------------------------------------------------
(* The history.                                                            *)

Trimming == {p \in Publisher : worker[p].pc \in {"trim", "store"}}

\* What a publisher is about to store is short enough.
HistoryInv ==
    /\ HistoryBounded
    /\ \A p \in Publisher : worker[p].pc = "store" => Len(worker[p].slice) <= MaxHistory

\* Publishers are finitely many.
LEMMA TrimmingFinite == IsFiniteSet(Trimming) /\ Cardinality(Trimming) \in Nat
BY EventBusAssumption, FS_Subset, FS_CardinalityType DEF Trimming

\* A history within its limit is bounded whoever trims it.
LEMMA ShortIsBounded ==
    ASSUME Typed, Len(history) <= MaxHistory
    PROVE  HistoryBounded
<1>1. HistoryBounded <=> Len(history) <= MaxHistory + Cardinality(Trimming)
  BY DEF HistoryBounded, Trimming
<1>2. Len(history) \in Nat
  BY LenProperties DEF Typed, TypeOK
<1> QED BY <1>1, <1>2, TrimmingFinite, EventBusAssumption

\* The history grows with a publisher that will trim it.
LEMMA HistoryStep ==
    ASSUME Typed, Typed', HistoryInv, [Next]_vars
    PROVE  HistoryInv'
<1>0. Thread \cap Publisher = {} /\ Thread \subseteq Worker /\ Publisher \subseteq Worker
  BY EventBusAssumption DEF Thread, Worker
<1>a. worker \in [Worker -> State]
  BY DEF Typed, WorkersTyped
<1>b. Len(history) \in Nat /\ history \in Seq(Event)
  BY LenProperties DEF Typed, TypeOK
<1>c. ASSUME history' = history,
             \A p \in Publisher : /\ worker'[p].pc = worker[p].pc
                                  /\ worker'[p].slice = worker[p].slice
      PROVE  HistoryInv'
  BY <1>c DEF HistoryInv, HistoryBounded
<1>d. ASSUME history' = history,
             \A p \in Publisher :
                \/ worker'[p] = worker[p]
                \/ worker[p].pc \notin {"trim", "store"} /\ worker'[p].pc \notin {"trim", "store"}
      PROVE  HistoryInv'
  <2>1. Trimming' = Trimming
    BY <1>d DEF Trimming
  <2>2. HistoryBounded'
    BY <1>d, <2>1 DEF HistoryInv, HistoryBounded, Trimming
  <2> QED BY <1>d, <2>2 DEF HistoryInv
<1>1. CASE UNCHANGED vars
  BY <1>1, <1>c DEF vars
<1>2. ASSUME NEW p \in Publisher, NEW type \in EventType, NEW sync \in BOOLEAN,
             Publish(p, type, sync)
      PROVE  HistoryInv'
  <2>1. worker[p].pc = "idle" /\ worker'[p].pc = "trim"
        /\ \A q \in Publisher \ {p} : worker'[q] = worker[q]
    BY <1>0, <1>a, <1>2 DEF Publish, Holding
  <2>2. Trimming' = Trimming \cup {p} /\ p \notin Trimming
    BY <2>1 DEF Trimming
  <2>3. Cardinality(Trimming') = Cardinality(Trimming) + 1
    BY <2>2, TrimmingFinite, FS_AddElement
  <2>4. Len(history') = Len(history) + 1
    <3>1. \E e \in Event : history' = Append(history, e)
      <4> DEFINE event == [id |-> created + 1, type |-> type, by |-> p, sync |-> sync]
      <4>1. event \in Event
        BY <1>2, EventBusAssumption DEF Publish, Event, Typed, TypeOK
      <4>2. history' = Append(history, event)
        BY <1>2 DEF Publish
      <4> QED BY <4>1, <4>2
    <3> QED BY <1>b, <3>1, AppendProperties
  <2>5. HistoryBounded'
    <3>1. Len(history) <= MaxHistory + Cardinality(Trimming)
      BY DEF HistoryInv, HistoryBounded, Trimming
    <3>2. Len(history') <= MaxHistory + Cardinality(Trimming')
      BY <1>b, <2>3, <2>4, <3>1, TrimmingFinite, EventBusAssumption
    <3> QED BY <3>2 DEF HistoryBounded, Trimming
  <2> QED BY <2>1, <2>5 DEF HistoryInv
<1>3. ASSUME NEW p \in Publisher, PublisherStep(p) PROVE HistoryInv'
  <2>1. CASE TrimHistory(p)
    <3>1. \A q \in Publisher \ {p} : worker'[q] = worker[q]
      BY <1>0, <1>a, <2>1 DEF TrimHistory
    <3>2. CASE Len(history) > MaxHistory
      <4> DEFINE tail == SubSeq(history, Len(history) - MaxHistory + 1, Len(history))
      <4>1. Len(tail) = MaxHistory
        BY <1>b, <3>2, EventBusAssumption, SubSeqProperties
      <4>2. worker'[p].pc = "store" /\ worker'[p].slice = tail
        BY <1>0, <1>a, <2>1, <3>2 DEF TrimHistory, State
      <4> HIDE DEF tail
      <4>3. Trimming' = Trimming /\ history' = history
        BY <2>1, <3>1, <4>2 DEF TrimHistory, Trimming
      <4>4. HistoryBounded'
        BY <4>3 DEF HistoryInv, HistoryBounded, Trimming
      <4> QED BY <3>1, <4>1, <4>2, <4>4, EventBusAssumption DEF HistoryInv
    <3>3. CASE ~(Len(history) > MaxHistory)
      <4>1. Len(history') <= MaxHistory /\ Len(history') \in Nat
        BY <1>b, <2>1, <3>3, EventBusAssumption DEF TrimHistory
      <4>2. HistoryBounded'
        <5>1. IsFiniteSet(Trimming') /\ Cardinality(Trimming') \in Nat
          BY EventBusAssumption, FS_Subset, FS_CardinalityType DEF Trimming
        <5>2. Len(history') <= MaxHistory + Cardinality(Trimming')
          BY <4>1, <5>1, EventBusAssumption
        <5> QED BY <5>2 DEF HistoryBounded, Trimming
      <4>3. worker'[p].pc = "deliver"
        BY <1>0, <1>a, <2>1, <3>3 DEF TrimHistory, State
      <4> QED BY <3>1, <4>2, <4>3 DEF HistoryInv
    <3> QED BY <3>2, <3>3
  <2>2. CASE StoreHistory(p)
    <3>1. \A q \in Publisher \ {p} : worker'[q] = worker[q]
      BY <1>0, <1>a, <2>2 DEF StoreHistory
    <3>2. worker'[p].pc = "deliver"
      BY <1>0, <1>a, <2>2 DEF StoreHistory, State
    <3>3. Len(history') <= MaxHistory /\ Len(history') \in Nat
      <4>1. Len(worker[p].slice) \in Nat
        BY <1>0, StateFields, LenProperties
      <4> QED BY <2>2, <4>1 DEF StoreHistory, HistoryInv
    <3>4. HistoryBounded'
      <4>1. IsFiniteSet(Trimming') /\ Cardinality(Trimming') \in Nat
        BY EventBusAssumption, FS_Subset, FS_CardinalityType DEF Trimming
      <4>2. Len(history') <= MaxHistory + Cardinality(Trimming')
        BY <3>3, <4>1, EventBusAssumption
      <4> QED BY <4>2 DEF HistoryBounded, Trimming
    <3> QED BY <3>1, <3>2, <3>4 DEF HistoryInv
  <2>3. CASE Deliver(p)
    <3>1. worker'[p].pc \in {"snapshot", "idle"} /\ worker[p].pc = "deliver"
          /\ history' = history
      BY <1>0, <1>a, <2>3 DEF Deliver, At, Holding, State
    <3>2. \A q \in Publisher \ {p} : worker'[q] = worker[q]
      BY <1>0, <1>a, <2>3 DEF Deliver
    <3> QED BY <1>d, <3>1, <3>2
  <2> QED BY <1>3, <2>1, <2>2, <2>3 DEF PublisherStep
<1>4. ASSUME NEW t \in Thread, ThreadStep(t) PROVE HistoryInv'
  <2>1. \A p \in Publisher : worker'[p] = worker[p]
    BY <1>0, <1>a, <1>4 DEF ThreadStep, CheckStop, Get, GetTimeout
  <2>2. history' = history
    BY <1>4 DEF ThreadStep, CheckStop, Get, GetTimeout
  <2> QED BY <1>c, <2>1, <2>2
<1>5. ASSUME NEW w \in Worker, DispatchStep(w) PROVE HistoryInv'
  <2>1. /\ history' = history
        /\ \A v \in Worker : v # w => worker'[v] = worker[v]
    BY <1>5, <1>a DEF DispatchStep, Snapshot, RunHandler
  <2>2. worker'[w].pc \in {"check", "idle", "handling"}
    <3>1. Rested(w).pc \in {"check", "idle"}
      BY RestedTyped
    <3>2. CASE Snapshot(w)
      BY <1>a, <3>1, <3>2 DEF Snapshot, State
    <3>3. CASE RunHandler(w)
      BY <1>a, <3>1, <3>3 DEF RunHandler, State
    <3> QED BY <1>5, <3>2, <3>3 DEF DispatchStep
  <2>3. worker[w].pc \in {"snapshot", "handling"}
    BY <1>5 DEF DispatchStep, Snapshot, RunHandler
  <2> QED BY <1>0, <1>d, <2>1, <2>2, <2>3
<1>6. CASE Start
  <2>1. \A p \in Publisher : worker'[p] = worker[p]
    <3>1. CASE Alive(current)
      BY <1>6, <3>1 DEF Start
    <3>2. CASE ~Alive(current)
      <4>1. current + 1 \in Thread
        BY <1>6, <3>2, EventBusAssumption DEF Start, Typed, TypeOK, Thread
      <4> QED BY <1>0, <1>a, <1>6, <3>2, <4>1 DEF Start
    <3> QED BY <3>1, <3>2
  <2> QED BY <1>6, <1>c, <2>1 DEF Start
<1>7. CASE Stop \/ JoinEnds \/ JoinTimesOut
  BY <1>7, <1>c DEF Stop, JoinEnds, JoinTimesOut
<1>8. CASE ClearHistory
  <2>1. Len(history') = 0 /\ worker' = worker
    BY <1>8 DEF ClearHistory
  <2>2. Trimming' = Trimming
    BY <2>1 DEF Trimming
  <2>3. Len(history') <= MaxHistory + Cardinality(Trimming')
    BY <2>1, <2>2, TrimmingFinite, EventBusAssumption
  <2> QED BY <2>1, <2>3 DEF HistoryInv, HistoryBounded, Trimming
<1>9. ASSUME NEW type \in EventType, NEW h \in Handler,
             Subscribe(type, h) \/ Unsubscribe(type, h)
      PROVE  HistoryInv'
  BY <1>9, <1>c DEF Subscribe, Unsubscribe
<1> QED BY <1>1, <1>2, <1>3, <1>4, <1>5, <1>6, <1>7, <1>8, <1>9 DEF Next

\* The history exceeds its limit by no more than the publishers about to trim
\* it (HistoryBounded).
THEOREM HistoryStaysBounded == Spec => []HistoryBounded
<1>1. Init => HistoryInv
  <2> SUFFICES ASSUME Init PROVE HistoryInv
    OBVIOUS
  <2>1. \A p \in Publisher : worker[p].pc = "idle"
    BY AtTyped, EventBusAssumption DEF Init, Places, Worker, Thread
  <2>2. Typed /\ Len(history) <= MaxHistory
    BY TypedInit, EventBusAssumption DEF Init
  <2> QED BY <2>1, <2>2, ShortIsBounded DEF HistoryInv
<1>2. HistoryInv => HistoryBounded
  BY DEF HistoryInv
<1> QED BY <1>1, <1>2, TypedInit, TypedStep, HistoryStep, PTL DEF Spec
=============================================================================
