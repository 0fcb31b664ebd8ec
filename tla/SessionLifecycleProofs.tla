----------------------- MODULE SessionLifecycleProofs -----------------------
(***************************************************************************)
(* Proofs about SessionLifecycle for any number of items, general sessions *)
(* and inputs, however the threads interleave: types, single starts, whose *)
(* session completes an item, and when a GS is taken from its sessions.    *)
(***************************************************************************)
EXTENDS SessionOverlaps, StateQueueProofs, FiniteSetTheorems

Ids == 1..MaxItems
Kinds == {"CHAT", "WORK"}
Wishes == [state : Kinds, prio : 0..InterruptPriority]
Starters == {"input", "loop"}
Closers == {"loop", "bus"}

\* Where a thread can be, and what it can still have to do there.
StartPcs == {"setState", "makeGS", "attach", "create"}
ClosePcs == {"collect", "end", "endGS", "clear"}
Pcs(t) == CASE t = "input"   -> {"idle", "pause", "add"} \cup StartPcs
            [] t = "loop"    -> {"idle", "track", "look"} \cup StartPcs \cup ClosePcs
            [] t = "bus"     -> {"idle"} \cup ClosePcs
            [] t = "monitor" -> {"idle", "makeGS"}
Todos(t) == IF t = "input" THEN Seq(Wishes) ELSE Seq(Ids)
Locals(t) ==
    [pc : Pcs(t), item : Item \cup {NoItem}, state : States, mine : 0..MaxGS,
     todo : Todos(t), control : BOOLEAN, rounds : Nat, closing : BOOLEAN,
     next : {"idle", "look"} \cap Pcs(t), quiet : BOOLEAN]

QueueTyped ==
    /\ mgr \in Manager
    /\ mgr.nextId \in 1..(MaxItems + 1)
    /\ \A k \in 1..Len(mgr.queue) : mgr.queue[k].state \in Kinds
GSTyped == gsCount \in 0..MaxGS /\ gs \in 0..gsCount
SessionTyped == session \in [Ids -> Session]
BusTyped == bus \in Seq(BusEvent)
CoordinatorTyped ==
    /\ asked \in {<<>>} \cup {<<g>> : g \in 0..MaxGS}
    /\ seen \subseteq [layer : {"INPUT", "PROCESSING"}, gs : 0..MaxGS, cycle : Nat]
    /\ output \in [pc : {"idle", "speaking", "asking"}, gs : 0..MaxGS, ends : BOOLEAN]
CycleTyped ==
    /\ cycle \in Nat /\ owed \in [0..MaxGS -> Nat]
    /\ tracking \in {"none", "input", "processing"}
    /\ monitored \in -1..cycle /\ previous \in States
    /\ shown \in Key /\ shown.cycle <= cycle
ThreadTyped ==
    /\ DOMAIN thread = Thread
    /\ \A t \in Thread : thread[t] \in Locals(t)

\* What an input still has to queue fits, and a started item is chat or work.
Fits ==
    /\ mgr.nextId + Len(thread["input"].todo) <= MaxItems + 1
    /\ \A t \in Starters : thread[t].pc \in StartPcs => thread[t].item.state \in Kinds

Typed == /\ QueueTyped /\ GSTyped /\ SessionTyped /\ BusTyped /\ CoordinatorTyped
         /\ CycleTyped /\ ThreadTyped /\ Fits

-----------------------------------------------------------------------------
(* Sequences of sets.                                                      *)

\* SetToSeq lists a finite set, each element once.
LEMMA Listed ==
    ASSUME NEW S, IsFiniteSet(S)
    PROVE  /\ SetToSeq(S) \in Seq(S)
           /\ Len(SetToSeq(S)) = Cardinality(S)
<1>1. Cardinality(S) \in Nat /\ ExistsBijection(1..Cardinality(S), S)
  BY FS_CardinalityType
<1>2. PICK f \in [1..Cardinality(S) -> S] : IsInjective(f)
  BY <1>1 DEF ExistsBijection, Bijection, Injection, IsInjective
<1>3. SetToSeq(S) \in [1..Cardinality(S) -> S]
  BY <1>2 DEF SetToSeq
<1> HIDE DEF SetToSeq
<1> QED BY <1>1, <1>3

LEMMA ListedIds ==
    ASSUME NEW S \in SUBSET Ids
    PROVE  /\ SetToSeq(S) \in Seq(S) /\ SetToSeq(S) \in Seq(Ids)
           /\ Len(SetToSeq(S)) = Cardinality(S) /\ Cardinality(S) \in Nat
           /\ IsFiniteSet(S)
<1>1. IsFiniteSet(Ids)
  BY FS_Interval, MaxItemsAssumption DEF Ids
<1>2. IsFiniteSet(S)
  BY <1>1, FS_Subset
<1>3. SetToSeq(S) \in Seq(S) /\ Len(SetToSeq(S)) = Cardinality(S)
  BY <1>2, Listed
<1>4. Cardinality(S) \in Nat
  BY <1>2, FS_CardinalityType
<1> HIDE DEF Ids
<1> QED BY <1>2, <1>3, <1>4

-----------------------------------------------------------------------------
(* Types.                                                                  *)

LEMMA Places ==
    /\ Thread = {"input", "bus", "loop", "monitor"}
    /\ \A t \in Thread : "idle" \in Pcs(t)
    /\ \A t \in Starters : t \in Thread /\ StartPcs \subseteq Pcs(t)
    /\ \A t \in Closers : t \in Thread /\ ClosePcs \subseteq Pcs(t) /\ Todos(t) = Seq(Ids)
    /\ {"pause", "add"} \subseteq Pcs("input") /\ Todos("input") = Seq(Wishes)
    /\ {"track", "look"} \subseteq Pcs("loop") /\ "makeGS" \in Pcs("monitor")
BY DEF Thread, Starters, Closers, StartPcs, ClosePcs, Pcs, Todos

LEMMA Fresh ==
    ASSUME NEW t \in Thread, NEW pc \in Pcs(t)
    PROVE  At(pc) \in Locals(t) /\ At(pc).pc = pc /\ At(pc).todo = <<>>
<1>1. <<>> \in Todos(t)
  BY DEF Todos
<1>2. 0 \in 0..MaxGS
  BY SessionLifecycleAssumption
<1>3. "idle" \in {"idle", "look"} \cap Pcs(t)
  BY Places
<1> QED BY <1>1, <1>2, <1>3 DEF At, Locals, States

\* A thread moves and the others stay.
LEMMA Moved ==
    ASSUME ThreadTyped, NEW t \in Thread, NEW r \in Locals(t),
           thread' = [thread EXCEPT ![t] = r]
    PROVE  /\ ThreadTyped' /\ thread'[t] = r
           /\ \A u \in Thread \ {t} : thread'[u] = thread[u]
BY DEF ThreadTyped

\* A start's steps, as a change of the thread's locals.
LEMMA StartMoves ==
    ASSUME Typed, NEW t \in Starters,
           SetState(t) \/ MakeGS(t) \/ Attach(t) \/ Create(t)
    PROVE  /\ ThreadTyped'
           /\ \A u \in Thread \ {t} : thread'[u] = thread[u]
           /\ thread[t].pc \in StartPcs
           /\ thread'[t].todo = thread[t].todo /\ thread'[t].control = thread[t].control
           /\ \/ thread'[t].pc \in StartPcs /\ thread'[t].item = thread[t].item
              \/ thread'[t].pc \in {"track", "add"}
<1>0. /\ ThreadTyped /\ t \in Thread /\ thread[t] \in Locals(t) /\ mgr.sm \in States
      /\ gs \in 0..MaxGS /\ DOMAIN thread = Thread
  BY Places, SessionLifecycleAssumption
     DEF Typed, ThreadTyped, QueueTyped, Manager, GSTyped
<1>1. StartPcs \subseteq Pcs(t)
  BY Places
<1>2. CASE SetState(t)
  <2>1. PICK pc \in StartPcs :
          thread' = [thread EXCEPT ![t] = [thread[t] EXCEPT !.pc = pc, !.state = mgr.sm]]
    BY <1>0, <1>2 DEF SetState, StartPcs
  <2>2. [thread[t] EXCEPT !.pc = pc, !.state = mgr.sm] \in Locals(t)
    BY <1>0, <1>1, <2>1 DEF Locals
  <2>3. ThreadTyped' /\ thread'[t] = [thread[t] EXCEPT !.pc = pc, !.state = mgr.sm]
        /\ \A u \in Thread \ {t} : thread'[u] = thread[u]
    BY <1>0, <2>1, <2>2, Moved
  <2> QED BY <1>0, <1>2, <2>3 DEF SetState, StartPcs, Locals
<1>3. CASE MakeGS(t)
  <2>1. thread' = [thread EXCEPT ![t] = [thread[t] EXCEPT !.pc = "attach"]]
    BY <1>0, <1>3 DEF MakeGS, Starters
  <2>2. [thread[t] EXCEPT !.pc = "attach"] \in Locals(t)
    BY <1>0, <1>1 DEF Locals, StartPcs
  <2>3. ThreadTyped' /\ thread'[t] = [thread[t] EXCEPT !.pc = "attach"]
        /\ \A u \in Thread \ {t} : thread'[u] = thread[u]
    BY <1>0, <2>1, <2>2, Moved
  <2> QED BY <1>0, <1>3, <2>3 DEF MakeGS, StartPcs, Locals
<1>4. ASSUME thread' = [thread EXCEPT ![t] = Started(t)], thread[t].pc \in StartPcs
      PROVE  /\ ThreadTyped' /\ thread'[t].todo = thread[t].todo
             /\ thread'[t].control = thread[t].control
             /\ thread'[t].pc \in {"track", "add"}
             /\ \A u \in Thread \ {t} : thread'[u] = thread[u]
  <2>1. PICK pc \in Pcs(t) \cap {"track", "add"} : Started(t) =
          [At(pc) EXCEPT !.todo = thread[t].todo, !.control = thread[t].control]
    BY Places DEF Started, Starters
  <2>2. At(pc) \in Locals(t) /\ At(pc).pc = pc
    BY <1>0, Fresh
  <2>3. /\ Started(t) \in Locals(t) /\ Started(t).todo = thread[t].todo
        /\ Started(t).control = thread[t].control /\ Started(t).pc \in {"track", "add"}
    BY <1>0, <2>1, <2>2 DEF Locals
  <2> QED BY <1>0, <1>4, <2>3, Moved
<1>5. CASE Attach(t)
  <2>1. CASE Refuse(t)
    BY <1>4, <1>5, <2>1 DEF Attach, Refuse, StartPcs
  <2>2. CASE thread' = [thread EXCEPT ![t].pc = "create", ![t].mine = gs]
    <3>1. thread' = [thread EXCEPT ![t] = [thread[t] EXCEPT !.pc = "create", !.mine = gs]]
      BY <1>0, <2>2
    <3>2. [thread[t] EXCEPT !.pc = "create", !.mine = gs] \in Locals(t)
      BY <1>0, <1>1 DEF Locals, StartPcs
    <3>3. ThreadTyped' /\ thread'[t] = [thread[t] EXCEPT !.pc = "create", !.mine = gs]
          /\ \A u \in Thread \ {t} : thread'[u] = thread[u]
      BY <1>0, <3>1, <3>2, Moved
    <3> QED BY <1>0, <1>5, <3>3 DEF Attach, StartPcs, Locals
  <2> QED BY <1>5, <2>1, <2>2 DEF Attach
<1>6. CASE Create(t)
  BY <1>4, <1>6 DEF Create, Refuse, StartPcs
<1> QED BY <1>2, <1>3, <1>5, <1>6

\* What can be heard fits the input thread.
LEMMA PlansTyped ==
    ASSUME NEW plan \in Plans
    PROVE  plan \in Seq(Wishes)
<1>1. {Chat, DirectWork, BackgroundWork, Resume} \subseteq Wishes
  BY DEF Chat, DirectWork, BackgroundWork, Resume, Wishes, Kinds, InterruptPriority
<1>2. PICK a, b \in Wishes : plan \in {<<>>, <<a>>, <<a, b>>}
  BY <1>1 DEF Plans
<1>3. <<>> \in Seq(Wishes) /\ <<a>> \in Seq(Wishes) /\ <<a, b>> \in Seq(Wishes)
  OBVIOUS
<1> QED BY <1>2, <1>3

\* The events, and what the bus hands out.
LEMMA Events ==
    /\ \A k \in Key : /\ [type |-> "CYCLE", key |-> k] \in BusEvent
                      /\ [type |-> "ADVANCED", key |-> k] \in BusEvent
    /\ \A k \in Key, c \in BOOLEAN :
          /\ [type |-> "INPUT", key |-> k, control |-> c] \in BusEvent
          /\ [type |-> "PROCESSING", ends |-> c, key |-> k] \in BusEvent
    /\ [type |-> "ENDED"] \in BusEvent /\ [type |-> "OUTPUT"] \in BusEvent
BY DEF BusEvent

LEMMA FirstEvent ==
    ASSUME Typed, bus # <<>>
    PROVE  /\ Tail(bus) \in Seq(BusEvent) /\ Head(bus) \in BusEvent
           /\ Head(bus).type \in {"INPUT", "PROCESSING", "CYCLE", "ADVANCED"} =>
                 Head(bus).key \in Key
           /\ Head(bus).type = "INPUT" => Head(bus).control \in BOOLEAN
           /\ Head(bus).type = "PROCESSING" => Head(bus).ends \in BOOLEAN
<1>1. Tail(bus) \in Seq(BusEvent) /\ Head(bus) \in BusEvent
  BY DEF Typed, BusTyped
<1> QED BY <1>1 DEF BusEvent

\* The keys in use are keys.
LEMMA KeyTyped ==
    ASSUME Typed
    PROVE  /\ shown \in Key /\ [gs |-> gs, cycle |-> cycle] \in Key
           /\ [gs |-> gs, cycle |-> cycle + 1] \in Key
           /\ [gs |-> 0, cycle |-> 0] \in Key
           /\ \A k \in Key : [gs |-> shown.gs, cycle |-> k.cycle] \in Key
<1>1. gs \in 0..MaxGS /\ cycle \in Nat /\ shown \in Key /\ 0 \in 0..MaxGS
  BY SessionLifecycleAssumption DEF Typed, GSTyped, CycleTyped
<1> QED BY <1>1 DEF Key

\* The thread after a cycle's completion, or after a boundary.
LEMMA CycleMoves ==
    ASSUME Typed, NEW t \in Closers, NEW queued, NEW boundaries \in Locals(t),
           CompleteCycle(t, queued, boundaries)
    PROVE  /\ ThreadTyped' /\ thread'[t].pc = "collect"
           /\ thread'[t].todo = boundaries.todo
           /\ \A u \in Thread \ {t} : thread'[u] = thread[u]
<1>1. PICK r : r = [boundaries EXCEPT !.pc = "collect", !.closing = TRUE]
  OBVIOUS
<1>2. r \in Locals(t) /\ r.pc = "collect" /\ r.todo = boundaries.todo
  BY <1>1, Places DEF Locals, ClosePcs
<1>3. thread' = [thread EXCEPT ![t] = r]
  BY <1>1 DEF CompleteCycle
<1>4. t \in Thread /\ ThreadTyped
  BY Places DEF Typed
<1> QED BY <1>2, <1>3, <1>4, Moved

LEMMA BoundaryMoves ==
    ASSUME Typed, NEW t \in Closers, BoundaryDone(t)
    PROVE  /\ ThreadTyped' /\ thread'[t].pc \in {"collect", "idle", "look"}
           /\ thread'[t].pc = "look" => t = "loop"
           /\ thread'[t].todo = <<>>
           /\ \A u \in Thread \ {t} : thread'[u] = thread[u]
<1>0. t \in Thread /\ thread[t] \in Locals(t) /\ ThreadTyped
  BY Places DEF Typed, ThreadTyped
<1>1. CASE thread[t].rounds > 1
  <2>1. PICK n \in Nat : n = thread[t].rounds - 1
    BY <1>0, <1>1 DEF Locals
  <2>2. At("collect") \in Locals(t) /\ At("collect").pc = "collect"
        /\ At("collect").todo = <<>>
    BY <1>0, Places, Fresh DEF ClosePcs
  <2>3. PICK r : r = [At("collect") EXCEPT !.rounds = n]
    OBVIOUS
  <2>4. r \in Locals(t) /\ r.pc = "collect" /\ r.todo = <<>>
    BY <2>2, <2>3 DEF Locals
  <2>5. thread' = [thread EXCEPT ![t] = r]
    BY <1>0, <1>1, <2>1, <2>3 DEF BoundaryDone, ThreadTyped
  <2> QED BY <1>0, <2>4, <2>5, Moved
<1>2. CASE ~(thread[t].rounds > 1)
  <2>1. PICK pc \in {"idle", "look"} \cap Pcs(t) : pc = thread[t].next
    BY <1>0 DEF Locals
  <2>2. At(pc) \in Locals(t) /\ At(pc).pc = pc /\ At(pc).todo = <<>>
    BY <1>0, Fresh
  <2>3. PICK r : r = [At(pc) EXCEPT !.state = thread[t].state,
                                    !.quiet = thread[t].quiet]
    OBVIOUS
  <2>4. r \in Locals(t) /\ r.pc = pc /\ r.todo = <<>>
    BY <1>0, <2>2, <2>3 DEF Locals
  <2>5. thread' = [thread EXCEPT ![t] = r]
    BY <1>0, <1>2, <2>1, <2>3 DEF BoundaryDone, ThreadTyped
  <2>6. pc = "look" => t = "loop"
    BY <2>1 DEF Pcs, Closers, ClosePcs
  <2> QED BY <1>0, <2>4, <2>5, <2>6, Moved
<1> QED BY <1>1, <1>2

\* The input thread's own steps.
LEMMA InputMoves ==
    ASSUME Typed, Hear \/ Pause \/ Add \/ PublishInput
    PROVE  /\ ThreadTyped'
           /\ \A u \in Thread \ {"input"} : thread'[u] = thread[u]
<1>0. /\ "input" \in Thread /\ thread["input"] \in Locals("input") /\ ThreadTyped
      /\ {"idle", "pause", "add", "setState"} \subseteq Pcs("input")
      /\ Todos("input") = Seq(Wishes)
  BY DEF Typed, ThreadTyped, Thread, Pcs, StartPcs, Todos
<1> USE DEF ThreadTyped
<1>1. CASE Hear
  <2>1. PICK plan \in Plans, pc \in {"pause", "add"}, interrupts \in BOOLEAN :
          thread' = [thread EXCEPT !["input"] =
              [At(pc) EXCEPT !.todo = plan, !.control = interrupts]]
    BY <1>1 DEF Hear
  <2>2. PICK r : r = [At(pc) EXCEPT !.todo = plan, !.control = interrupts]
    OBVIOUS
  <2>3. At(pc) \in Locals("input") /\ plan \in Todos("input")
    BY <1>0, Fresh, PlansTyped
  <2>4. r \in Locals("input")
    BY <2>2, <2>3 DEF Locals
  <2> QED BY <1>0, <2>1, <2>2, <2>4, Moved
<1>2. CASE Pause
  <2>1. PICK r : r = [thread["input"] EXCEPT !.pc = "add"]
    OBVIOUS
  <2>2. r \in Locals("input")
    BY <1>0, <2>1 DEF Locals
  <2>3. thread' = [thread EXCEPT !["input"] = r]
    BY <1>0, <1>2, <2>1 DEF Pause
  <2> QED BY <1>0, <2>2, <2>3, Moved
<1>3. CASE Add
  <2>1. PICK wish \in Wishes, m \in Manager :
          /\ wish = Head(thread["input"].todo)
          /\ m = Enqueue(mgr, wish.state, wish.prio)
          /\ Tail(thread["input"].todo) \in Seq(Wishes)
          /\ m.queue # <<>> /\ Head(m.queue) \in Item
    <3>1. PICK todo \in Seq(Wishes) : todo = thread["input"].todo /\ todo # <<>>
      BY <1>0, <1>3 DEF Locals, Add
    <3>2. PICK wish \in Wishes : wish = Head(todo)
      BY <3>1
    <3>3. wish.state \in QueuedStates /\ wish.prio \in 0..InterruptPriority
      BY DEF Wishes, Kinds, QueuedStates
    <3>4. mgr \in Manager
      BY DEF Typed, QueueTyped
    <3>5. PICK m \in Manager, item \in Item, k \in 1..(Len(mgr.queue) + 1) :
            m = Enqueue(mgr, wish.state, wish.prio) /\ m.queue # <<>>
      BY <3>3, <3>4, EnqueueFields
    <3>6. m.queue \in Seq(Item) /\ Head(m.queue) \in Item
      <4>1. PICK queue \in Seq(Item) : queue = m.queue
        BY DEF Manager
      <4> QED BY <3>5, <4>1, TailIndices
    <3> QED BY <3>1, <3>2, <3>5, <3>6
  <2>2. PICK r : \/ r = [thread["input"] EXCEPT !.todo = Tail(thread["input"].todo)]
                 \/ r = [thread["input"] EXCEPT !.todo = Tail(thread["input"].todo),
                            !.pc = "setState", !.item = Head(m.queue)]
        /\ thread' = [thread EXCEPT !["input"] = r]
    <3> DEFINE rest == [thread["input"] EXCEPT !.todo = Tail(thread["input"].todo)]
    <3>1. \/ thread' = [thread EXCEPT !["input"] = rest]
          \/ thread' = [thread EXCEPT !["input"] =
                          [rest EXCEPT !.pc = "setState", !.item = Head(m.queue)]]
      BY <1>3, <2>1 DEF Add
    <3>2. [rest EXCEPT !.pc = "setState", !.item = Head(m.queue)]
            = [thread["input"] EXCEPT !.todo = Tail(thread["input"].todo),
                   !.pc = "setState", !.item = Head(m.queue)]
      BY <1>0 DEF Locals
    <3> QED BY <3>1, <3>2
  <2>3. r \in Locals("input")
    BY <1>0, <2>1, <2>2 DEF Locals
  <2> QED BY <1>0, <2>2, <2>3, Moved
<1>4. CASE PublishInput
  BY <1>0, <1>4, Fresh, Moved DEF PublishInput
<1> QED BY <1>1, <1>2, <1>3, <1>4

\* SystemLoop's own steps.
LEMMA LoopMoves ==
    ASSUME Typed, Advance \/ Track \/ Look
    PROVE  /\ ThreadTyped'
           /\ \A u \in Thread \ {"loop"} : thread'[u] = thread[u]
           /\ Track \/ Look => /\ thread'["loop"].pc \in {"look", "collect", "idle"}
                               /\ thread'["loop"].todo = <<>>
<1>0. /\ "loop" \in Thread /\ thread["loop"] \in Locals("loop") /\ ThreadTyped
      /\ {"idle", "track", "look", "setState", "collect"} \subseteq Pcs("loop")
      /\ mgr.sm \in States /\ Quiet \in BOOLEAN
  BY DEF Typed, ThreadTyped, Thread, Pcs, StartPcs, ClosePcs, QueueTyped, Manager, Quiet
<1>1. CASE Advance
  <2>1. PICK r : \/ r = [thread["loop"] EXCEPT !.pc = "track"]
                 \/ /\ r = [thread["loop"] EXCEPT !.pc = "setState",
                                                   !.item = Head(mgr.queue)]
                    /\ mgr.queue # <<>>
        /\ thread' = [thread EXCEPT !["loop"] = r]
    BY <1>0, <1>1 DEF Advance, ThreadTyped
  <2>2. mgr.queue # <<>> => Head(mgr.queue) \in Item
    <3>1. PICK queue \in Seq(Item) : queue = mgr.queue
      BY DEF Typed, QueueTyped, Manager
    <3> QED BY <3>1, TailIndices
  <2>3. r \in Locals("loop")
    BY <1>0, <2>1, <2>2 DEF Locals
  <2>4. ~Track /\ ~Look
    BY <1>1 DEF Advance, Free, Track, Look
  <2> QED BY <1>0, <2>1, <2>3, <2>4, Moved
<1>2. CASE Track
  <2>1. At("look") \in Locals("loop") /\ At("look").pc = "look" /\ At("look").todo = <<>>
    BY <1>0, Fresh
  <2>2. PICK saw : saw = [At("look") EXCEPT !.state = mgr.sm, !.quiet = Quiet]
    OBVIOUS
  <2>3. saw \in Locals("loop") /\ saw.pc = "look" /\ saw.todo = <<>>
    BY <1>0, <2>1, <2>2 DEF Locals
  <2>4. PICK b : b = [saw EXCEPT !.rounds = 1, !.next = "look"]
    OBVIOUS
  <2>5. b \in Locals("loop") /\ b.todo = <<>>
    BY <1>0, <2>3, <2>4 DEF Locals
  <2>6. \/ CompleteCycle("loop", bus, b)
        \/ thread' = [thread EXCEPT !["loop"] = saw]
    BY <1>2, <2>2, <2>4 DEF Track
  <2>7. "loop" \in Closers
    BY DEF Closers
  <2>8. CASE CompleteCycle("loop", bus, b)
    BY <2>5, <2>7, <2>8, CycleMoves
  <2>9. CASE thread' = [thread EXCEPT !["loop"] = saw]
    BY <1>0, <2>3, <2>9, Moved
  <2> QED BY <2>6, <2>8, <2>9
<1>3. CASE Look
  <2>1. /\ At("collect") \in Locals("loop") /\ At("collect").pc = "collect"
        /\ At("collect").todo = <<>>
        /\ At("idle") \in Locals("loop") /\ At("idle").pc = "idle"
        /\ At("idle").todo = <<>>
    BY <1>0, Fresh
  <2>2. PICK b : b = [At("collect") EXCEPT !.rounds = 1]
    OBVIOUS
  <2>3. b \in Locals("loop") /\ b.pc = "collect" /\ b.todo = <<>>
    BY <2>1, <2>2 DEF Locals
  <2>4. thread' = [thread EXCEPT !["loop"] = b] \/ thread' = [thread EXCEPT !["loop"] = At("idle")]
    BY <1>3, <2>2 DEF Look
  <2>5. CASE thread' = [thread EXCEPT !["loop"] = b]
    BY <1>0, <2>3, <2>5, Moved
  <2>6. CASE thread' = [thread EXCEPT !["loop"] = At("idle")]
    BY <1>0, <2>1, <2>6, Moved
  <2> QED BY <2>4, <2>5, <2>6
<1> QED BY <1>1, <1>2, <1>3

\* Sequences of sessions to end.
LEMMA PendingSeq ==
    SetToSeq(Pending("CHAT")) \o SetToSeq(Pending("WORK")) \in Seq(Ids)
<1>1. Pending("CHAT") \in SUBSET Ids /\ Pending("WORK") \in SUBSET Ids
  BY DEF Pending, Active, Ids
<1>2. SetToSeq(Pending("CHAT")) \in Seq(Ids) /\ SetToSeq(Pending("WORK")) \in Seq(Ids)
  BY <1>1, ListedIds
<1> QED BY <1>2, ConcatProperties

\* The steps of a boundary.
LEMMA BoundaryStepMoves ==
    ASSUME Typed, NEW t \in Closers, Boundary(t)
    PROVE  /\ ThreadTyped'
           /\ \A u \in Thread \ {t} : thread'[u] = thread[u]
           /\ thread[t].pc \in ClosePcs
           /\ thread'[t].pc \in ClosePcs \cup {"idle", "look"}
           /\ Collect(t) => thread'[t].todo =
                 SetToSeq(Pending("CHAT")) \o SetToSeq(Pending("WORK"))
           /\ EndOne(t) => thread'[t].todo = Tail(thread[t].todo)
           /\ ~Collect(t) /\ ~EndOne(t) => thread'[t].todo \in {<<>>, thread[t].todo}
<1>0. /\ t \in Thread /\ thread[t] \in Locals(t) /\ ThreadTyped
      /\ ClosePcs \subseteq Pcs(t) /\ Todos(t) = Seq(Ids)
  BY Places DEF Typed, ThreadTyped
<1>1. CASE Collect(t)
  <2>1. PICK r : r = [thread[t] EXCEPT !.pc = "end",
                       !.todo = SetToSeq(Pending("CHAT")) \o SetToSeq(Pending("WORK"))]
    OBVIOUS
  <2>2. r \in Locals(t) /\ r.pc = "end"
        /\ r.todo = SetToSeq(Pending("CHAT")) \o SetToSeq(Pending("WORK"))
    BY <1>0, <2>1, PendingSeq DEF Locals, ClosePcs
  <2>3. thread' = [thread EXCEPT ![t] = r]
    BY <1>0, <1>1, <2>1 DEF Collect, ThreadTyped
  <2>4. thread[t].pc = "collect"
    BY <1>1 DEF Collect
  <2> QED BY <1>0, <1>1, <2>2, <2>3, <2>4, Moved DEF ClosePcs, EndOne
<1>2. CASE EndOne(t)
  <2>1. PICK todo \in Seq(Ids) : todo = thread[t].todo /\ todo # <<>>
    BY <1>0, <1>2 DEF Locals, EndOne
  <2>2. PICK rest \in Seq(Ids) : rest = Tail(todo)
    BY <2>1, HeadTailProperties
  <2>3. PICK r : r = [thread[t] EXCEPT !.todo = rest]
    OBVIOUS
  <2>4. r \in Locals(t) /\ r.pc = thread[t].pc /\ r.todo = rest
    BY <1>0, <2>3 DEF Locals
  <2>5. thread' = [thread EXCEPT ![t] = r] /\ thread[t].pc = "end"
    BY <1>0, <1>2, <2>1, <2>2, <2>3 DEF EndOne, ThreadTyped
  <2> QED BY <1>0, <1>2, <2>1, <2>2, <2>4, <2>5, Moved DEF ClosePcs, Collect
<1>3. ASSUME NEW pc \in ClosePcs, thread' = [thread EXCEPT ![t].pc = pc]
      PROVE  /\ ThreadTyped' /\ thread'[t].pc = pc /\ thread'[t].todo = thread[t].todo
             /\ \A u \in Thread \ {t} : thread'[u] = thread[u]
  <2>1. PICK r : r = [thread[t] EXCEPT !.pc = pc]
    OBVIOUS
  <2>2. r \in Locals(t) /\ r.pc = pc /\ r.todo = thread[t].todo
    BY <1>0, <2>1 DEF Locals
  <2>3. thread' = [thread EXCEPT ![t] = r]
    BY <1>0, <1>3, <2>1 DEF ThreadTyped
  <2> QED BY <1>0, <2>2, <2>3, Moved
<1>4. CASE Judge(t) \/ EndGS(t) \/ ClearHistory(t)
  <2>1. \/ BoundaryDone(t)
        \/ thread' = [thread EXCEPT ![t].pc = "endGS"]
        \/ thread' = [thread EXCEPT ![t].pc = "clear"]
    BY <1>4 DEF Judge, EndGS, ClearHistory
  <2>2. thread[t].pc \in ClosePcs /\ ~Collect(t) /\ ~EndOne(t)
    BY <1>4 DEF Judge, EndGS, ClearHistory, Collect, EndOne, ClosePcs
  <2>3. CASE BoundaryDone(t)
    BY <2>2, <2>3, BoundaryMoves DEF ClosePcs
  <2>4. CASE thread' = [thread EXCEPT ![t].pc = "endGS"]
    BY <1>3, <2>2, <2>4 DEF ClosePcs
  <2>5. CASE thread' = [thread EXCEPT ![t].pc = "clear"]
    BY <1>3, <2>2, <2>5 DEF ClosePcs
  <2> QED BY <2>1, <2>3, <2>4, <2>5
<1> QED BY <1>1, <1>2, <1>4 DEF Boundary

\* What an event of the bus does to the bus's thread.
LEMMA EventMoves ==
    ASSUME Typed, \/ OnSessionEnded \/ OnInput \/ OnStateAdvanced \/ OnProcessing
                  \/ OnOutput \/ OnCycleCompleted
    PROVE  /\ ThreadTyped' /\ thread["bus"].pc = "idle"
           /\ \A u \in Thread \ {"bus"} : thread'[u] = thread[u]
           /\ \/ thread' = thread
              \/ thread'["bus"].pc = "collect" /\ thread'["bus"].todo = <<>>
<1>0. /\ "bus" \in Thread /\ ThreadTyped /\ "collect" \in Pcs("bus")
      /\ "bus" \in Closers
  BY DEF Typed, Thread, Pcs, ClosePcs, Closers
<1>1. thread["bus"].pc = "idle"
  BY DEF OnSessionEnded, OnInput, OnStateAdvanced, OnProcessing, OnOutput,
         OnCycleCompleted, Taken, Free
<1>2. PICK n \in {1, 2} :
        \/ thread' = thread
        \/ thread' = [thread EXCEPT !["bus"] = [At("collect") EXCEPT !.rounds = n]]
        \/ CompleteCycle("bus", Tail(bus), [At("collect") EXCEPT !.rounds = n])
  BY DEF OnSessionEnded, OnInput, OnStateAdvanced, OnProcessing, OnOutput,
         OnCycleCompleted, EnterProcessing, Process
<1>3. PICK b : b = [At("collect") EXCEPT !.rounds = n]
  OBVIOUS
<1>4. At("collect") \in Locals("bus") /\ At("collect").pc = "collect"
      /\ At("collect").todo = <<>>
  BY <1>0, Fresh
<1>5. b \in Locals("bus") /\ b.pc = "collect" /\ b.todo = <<>>
  BY <1>3, <1>4 DEF Locals
<1>6. CASE thread' = thread
  BY <1>0, <1>1, <1>6 DEF ThreadTyped
<1>7. CASE thread' = [thread EXCEPT !["bus"] = b]
  BY <1>0, <1>1, <1>5, <1>7, Moved
<1>8. CASE CompleteCycle("bus", Tail(bus), b)
  BY <1>0, <1>1, <1>5, <1>8, CycleMoves
<1> QED BY <1>2, <1>3, <1>6, <1>7, <1>8

\* The monitor's steps.
LEMMA MonitorMoves ==
    ASSUME Typed, MonitorGS \/ MakeGS("monitor")
    PROVE  /\ ThreadTyped'
           /\ \A u \in Thread \ {"monitor"} : thread'[u] = thread[u]
           /\ thread'["monitor"].pc \in {"idle", "makeGS"}
<1>0. /\ "monitor" \in Thread /\ ThreadTyped /\ thread["monitor"] \in Locals("monitor")
      /\ {"idle", "makeGS"} = Pcs("monitor")
  BY DEF Typed, ThreadTyped, Thread, Pcs
<1>1. PICK r : r = [thread["monitor"] EXCEPT !.pc = "makeGS"]
  OBVIOUS
<1>2. r \in Locals("monitor") /\ At("idle") \in Locals("monitor")
  BY <1>0, <1>1, Fresh DEF Locals
<1>3. \/ thread' = thread
      \/ thread' = [thread EXCEPT !["monitor"] = r]
      \/ thread' = [thread EXCEPT !["monitor"] = At("idle")]
  BY <1>0, <1>1 DEF MonitorGS, MakeGS, ThreadTyped
<1>4. ThreadTyped' /\ \A u \in Thread \ {"monitor"} : thread'[u] = thread[u]
  <2>1. CASE thread' = thread
    BY <1>0, <2>1 DEF ThreadTyped
  <2>2. CASE thread' = [thread EXCEPT !["monitor"] = r]
    BY <1>0, <1>2, <2>2, Moved
  <2>3. CASE thread' = [thread EXCEPT !["monitor"] = At("idle")]
    BY <1>0, <1>2, <2>3, Moved
  <2> QED BY <1>3, <2>1, <2>2, <2>3
<1>5. thread'["monitor"].pc \in {"idle", "makeGS"}
  BY <1>0, <1>4 DEF ThreadTyped, Locals
<1> QED BY <1>4, <1>5

\* The steps that keep every thread where it is.
LEMMA StillSteps ==
    ASSUME Speak \/ OutputFails \/ Ask \/ \E i \in Ids : Expire(i)
    PROVE  UNCHANGED thread /\ UNCHANGED <<mgr, gs, gsCount>>
BY DEF Speak, OutputFails, Ask, Expire, sessionVars

\* Every step is one of these.
Inputs == Hear \/ Pause \/ Add \/ PublishInput
Loops == Advance \/ Track \/ Look
EventSteps == \/ OnSessionEnded \/ OnInput \/ OnStateAdvanced \/ OnProcessing
              \/ OnOutput \/ OnCycleCompleted
Monitoring == MonitorGS \/ MakeGS("monitor")
Still == Speak \/ OutputFails \/ Ask \/ \E i \in Ids : Expire(i)

LEMMA Steps ==
    ASSUME Next
    PROVE  \/ Inputs \/ Loops \/ EventSteps \/ Monitoring \/ Still
           \/ \E t \in Starters : Start(t)
           \/ \E t \in Closers : Boundary(t)
BY DEF Next, InputStep, LoopStep, BusStep, OutputStep, MonitorStep, Inputs, Loops,
       EventSteps, Monitoring, Still, Starters, Closers, Ids

LEMMA ThreadKept ==
    ASSUME Typed, Next
    PROVE  ThreadTyped'
<1>1. CASE Still
  BY <1>1, StillSteps DEF Still, Typed, ThreadTyped
<1> QED BY <1>1, Steps, InputMoves, LoopMoves, EventMoves, MonitorMoves, StartMoves,
           BoundaryStepMoves DEF Inputs, Loops, EventSteps, Monitoring, Start
\* Where the input thread is after hearing, pausing and publishing.
LEMMA InputFields ==
    ASSUME Typed
    PROVE  /\ Hear => /\ thread'["input"].pc \in {"pause", "add"}
                      /\ thread'["input"].todo \in Seq(Wishes)
                      /\ mgr.nextId + Len(thread'["input"].todo) <= MaxItems + 1
           /\ Pause => /\ thread'["input"].pc = "add"
                       /\ thread'["input"].todo = thread["input"].todo
                       /\ thread'["input"].control = thread["input"].control
           /\ PublishInput => /\ thread'["input"].pc = "idle"
                              /\ thread'["input"].todo = <<>>
                              /\ thread'["input"].control = FALSE
<1>0. "input" \in Thread /\ thread["input"] \in Locals("input") /\ DOMAIN thread = Thread
  BY DEF Typed, ThreadTyped, Thread
<1>1. ASSUME Hear
      PROVE  /\ thread'["input"].pc \in {"pause", "add"}
             /\ thread'["input"].todo \in Seq(Wishes)
             /\ mgr.nextId + Len(thread'["input"].todo) <= MaxItems + 1
  <2>1. PICK plan \in Plans, pc \in {"pause", "add"}, interrupts \in BOOLEAN :
          /\ mgr.nextId + Len(plan) <= MaxItems + 1
          /\ thread' = [thread EXCEPT !["input"] =
                [At(pc) EXCEPT !.todo = plan, !.control = interrupts]]
    BY <1>1 DEF Hear
  <2>2. thread'["input"] = [At(pc) EXCEPT !.todo = plan, !.control = interrupts]
    BY <1>0, <2>1
  <2>3. thread'["input"].pc = pc /\ thread'["input"].todo = plan
    BY <2>2 DEF At
  <2> QED BY <2>1, <2>3, PlansTyped
<1>2. ASSUME Pause
      PROVE  /\ thread'["input"].pc = "add"
             /\ thread'["input"].todo = thread["input"].todo
             /\ thread'["input"].control = thread["input"].control
  <2>1. thread'["input"] = [thread["input"] EXCEPT !.pc = "add"]
    BY <1>0, <1>2 DEF Pause
  <2> QED BY <1>0, <2>1 DEF Locals
<1>3. ASSUME PublishInput
      PROVE  /\ thread'["input"].pc = "idle" /\ thread'["input"].todo = <<>>
             /\ thread'["input"].control = FALSE
  BY <1>0, <1>3 DEF PublishInput, At
<1> QED BY <1>1, <1>2, <1>3

\* add_state's insertion and, when the manager is idle, the start of the head.
LEMMA AddFields ==
    ASSUME Typed, Add
    PROVE  \E wish \in Wishes, n \in Manager, item \in Item,
              k \in 1..(Len(mgr.queue) + 1) :
              /\ item.id = mgr.nextId /\ item.state = wish.state
              /\ n.queue = InsertAt(mgr.queue, k, item) /\ n.queue # <<>>
              /\ n.nextId = mgr.nextId + 1 /\ n.currentItem = mgr.currentItem
              /\ mgr' \in Manager /\ mgr'.nextId = n.nextId
              /\ thread["input"].pc = "add"
              /\ thread["input"].todo \in Seq(Wishes) /\ thread["input"].todo # <<>>
              /\ thread'["input"].todo = Tail(thread["input"].todo)
              /\ thread'["input"].control = thread["input"].control
              /\ \/ /\ mgr'.queue = n.queue /\ mgr'.currentItem = mgr.currentItem
                    /\ thread'["input"].pc = "add"
                 \/ /\ mgr.currentItem = NoItem
                    /\ mgr'.queue = Tail(n.queue) /\ mgr'.currentItem = Head(n.queue)
                    /\ thread'["input"].pc = "setState"
                    /\ thread'["input"].item = Head(n.queue)
<1>0. /\ "input" \in Thread /\ thread["input"] \in Locals("input")
      /\ DOMAIN thread = Thread /\ Todos("input") = Seq(Wishes)
      /\ mgr \in Manager
  BY DEF Typed, ThreadTyped, Thread, Todos, QueueTyped
<1>1. PICK todo \in Seq(Wishes) : todo = thread["input"].todo /\ todo # <<>>
  BY <1>0 DEF Locals, Add
<1>2. PICK wish \in Wishes : wish = Head(todo)
  BY <1>1
<1>3. wish.state \in QueuedStates /\ wish.prio \in 0..InterruptPriority
  BY DEF Wishes, Kinds, QueuedStates
<1>4. PICK n \in Manager, item \in Item, k \in 1..(Len(mgr.queue) + 1) :
        /\ n = Enqueue(mgr, wish.state, wish.prio)
        /\ item.id = mgr.nextId /\ item.state = wish.state
        /\ n.queue = InsertAt(mgr.queue, k, item) /\ n.queue # <<>>
        /\ n.nextId = mgr.nextId + 1 /\ n.currentItem = mgr.currentItem
  BY <1>0, <1>3, EnqueueFields
<1>5. PICK rest : rest = [thread["input"] EXCEPT !.todo = Tail(todo)]
  OBVIOUS
<1>6. /\ rest.todo = Tail(todo) /\ rest.pc = "add"
      /\ rest.control = thread["input"].control
      /\ thread["input"].pc = "add"
      /\ DOMAIN rest = DOMAIN thread["input"]
  BY <1>0, <1>1, <1>5 DEF Locals, Add
<1>7. \/ mgr' = n /\ thread' = [thread EXCEPT !["input"] = rest]
      \/ /\ n.currentState = "IDLE" /\ n.currentItem = NoItem
         /\ mgr' = [PopHead(n) EXCEPT !.visited = TRUE]
         /\ thread' = [thread EXCEPT !["input"] =
               [rest EXCEPT !.pc = "setState", !.item = Head(n.queue)]]
  BY <1>1, <1>2, <1>4, <1>5 DEF Add
<1>8. CASE mgr' = n /\ thread' = [thread EXCEPT !["input"] = rest]
  <2>1. thread'["input"] = rest
    BY <1>0, <1>8
  <2> QED BY <1>1, <1>4, <1>6, <1>8, <2>1
<1>9. CASE /\ n.currentState = "IDLE" /\ n.currentItem = NoItem
           /\ mgr' = [PopHead(n) EXCEPT !.visited = TRUE]
           /\ thread' = [thread EXCEPT !["input"] =
                 [rest EXCEPT !.pc = "setState", !.item = Head(n.queue)]]
  <2>1. PICK popped \in Manager :
          /\ popped = PopHead(n) /\ popped.queue = Tail(n.queue)
          /\ popped.currentItem = Head(n.queue) /\ popped.nextId = n.nextId
    BY <1>4, PopHeadFields
  <2>2. /\ mgr' \in Manager /\ mgr'.queue = Tail(n.queue)
        /\ mgr'.currentItem = Head(n.queue) /\ mgr'.nextId = n.nextId
    BY <1>9, <2>1 DEF Manager
  <2>3. thread'["input"] = [rest EXCEPT !.pc = "setState", !.item = Head(n.queue)]
    BY <1>0, <1>9
  <2>4. /\ thread'["input"].todo = Tail(todo) /\ thread'["input"].pc = "setState"
        /\ thread'["input"].item = Head(n.queue)
        /\ thread'["input"].control = thread["input"].control
    BY <1>0, <1>5, <1>6, <2>3 DEF Locals
  <2> QED BY <1>1, <1>4, <1>6, <1>9, <2>2, <2>4
<1> QED BY <1>7, <1>8, <1>9

\* An iteration of the loop starts the head of the queue, or goes on.
LEMMA AdvanceFields ==
    ASSUME Typed, Advance
    PROVE  /\ mgr' \in Manager /\ mgr'.nextId = mgr.nextId
           /\ thread'["loop"].todo = thread["loop"].todo
           /\ \/ /\ mgr.currentItem = NoItem /\ mgr.queue # <<>>
                 /\ mgr'.queue = Tail(mgr.queue) /\ mgr'.currentItem = Head(mgr.queue)
                 /\ bus' = Append(bus, [type |-> "ADVANCED", key |-> shown])
                 /\ thread'["loop"].pc = "setState"
                 /\ thread'["loop"].item = Head(mgr.queue)
              \/ /\ mgr'.queue = mgr.queue /\ mgr'.currentItem = mgr.currentItem
                 /\ bus' = bus
                 /\ thread'["loop"].pc = "track"
<1>0. /\ "loop" \in Thread /\ thread["loop"] \in Locals("loop")
      /\ DOMAIN thread = Thread /\ mgr \in Manager
  BY DEF Typed, ThreadTyped, Thread, QueueTyped
<1>1. CASE mgr.currentItem = NoItem /\ mgr.queue # <<>>
  <2>1. PICK n \in Manager :
          /\ n = PopHead(mgr) /\ n.queue = Tail(mgr.queue)
          /\ n.currentItem = Head(mgr.queue) /\ n.nextId = mgr.nextId
    BY <1>0, <1>1, PopHeadFields
  <2>2. /\ mgr' = n /\ bus' = Append(bus, [type |-> "ADVANCED", key |-> shown])
        /\ thread' = [thread EXCEPT !["loop"] =
             [thread["loop"] EXCEPT !.pc = "setState", !.item = Head(mgr.queue)]]
    BY <1>0, <1>1, <2>1 DEF Advance
  <2>3. thread'["loop"] = [thread["loop"] EXCEPT !.pc = "setState", !.item = Head(mgr.queue)]
    BY <1>0, <2>2
  <2>4. /\ thread'["loop"].pc = "setState" /\ thread'["loop"].item = Head(mgr.queue)
        /\ thread'["loop"].todo = thread["loop"].todo
    BY <1>0, <2>3 DEF Locals
  <2> QED BY <1>1, <2>1, <2>2, <2>4
<1>2. CASE ~(mgr.currentItem = NoItem /\ mgr.queue # <<>>)
  <2>1. /\ \/ mgr' = mgr
           \/ mgr.currentItem = NoItem /\ mgr' = TransitionToIdle(mgr)
        /\ bus' = bus
        /\ thread' = [thread EXCEPT !["loop"] = [thread["loop"] EXCEPT !.pc = "track"]]
    BY <1>0, <1>2 DEF Advance
  <2>2. /\ mgr' \in Manager /\ mgr'.nextId = mgr.nextId /\ mgr'.queue = mgr.queue
        /\ mgr'.currentItem = mgr.currentItem
    BY <1>0, <2>1, IdleFields
  <2>3. thread'["loop"] = [thread["loop"] EXCEPT !.pc = "track"]
    BY <1>0, <2>1
  <2>4. thread'["loop"].pc = "track" /\ thread'["loop"].todo = thread["loop"].todo
    BY <1>0, <2>3 DEF Locals
  <2> QED BY <2>1, <2>2, <2>4
<1> QED BY <1>1, <1>2

\* All other steps leave the queue as it is.
LEMMA QueueSame ==
    ASSUME Typed, \/ Hear \/ Pause \/ PublishInput \/ Track \/ Look \/ Still
                  \/ EventSteps \/ Monitoring
                  \/ \E t \in Starters : Start(t)
                  \/ \E t \in Closers : Boundary(t)
    PROVE  mgr' \in Manager /\ mgr'.queue = mgr.queue /\ mgr'.nextId = mgr.nextId
<1>0. mgr \in Manager /\ mgr.sm \in States
  BY DEF Typed, QueueTyped, Manager
<1> DEFINE Same == mgr' \in Manager /\ mgr'.queue = mgr.queue /\ mgr'.nextId = mgr.nextId
<1>1. ASSUME mgr' \in {mgr, Complete(mgr), QueueStatus(mgr)}
      PROVE  Same
  BY <1>0, <1>1, CompleteFields, QueueStatusFields
<1>2. ASSUME NEW sm \in States, mgr' = [mgr EXCEPT !.sm = sm]
      PROVE  Same
  BY <1>0, <1>2 DEF Manager
<1>3. ASSUME mgr' = [mgr EXCEPT !.visited = FALSE]
      PROVE  Same
  BY <1>0, <1>3 DEF Manager
<1> HIDE DEF Same
<1>4. ASSUME Hear \/ Pause \/ PublishInput \/ Track \/ Look \/ Still PROVE Same
  BY <1>1, <1>4, StillSteps DEF Hear, Pause, PublishInput, Track, Look, Still
<1>5. ASSUME EventSteps PROVE Same
  BY <1>1, <1>5 DEF EventSteps, OnSessionEnded, OnInput, OnStateAdvanced, OnProcessing,
     OnOutput, OnCycleCompleted, EnterProcessing, Process
<1>6. ASSUME Monitoring PROVE Same
  BY <1>1, <1>6 DEF Monitoring, MonitorGS, MakeGS
<1>7. ASSUME NEW t \in Starters, Start(t) PROVE Same
  <2>1. thread[t] \in Locals(t)
    BY Places DEF Typed, ThreadTyped
  <2>2. thread[t].state \in States
    BY <2>1 DEF Locals
  <2>3. thread[t].pc = "setState" => thread[t].item.state \in States
    BY DEF Typed, Fits, StartPcs, Kinds, States, QueuedStates
  <2>4. CASE SetState(t)
    BY <1>2, <2>3, <2>4 DEF SetState
  <2>5. CASE MakeGS(t) \/ Attach(t) \/ Create(t)
    BY <1>1, <1>2, <2>2, <2>5 DEF MakeGS, Attach, Create, Refuse
  <2> QED BY <1>7, <2>4, <2>5 DEF Start
<1>8. ASSUME NEW t \in Closers, Boundary(t) PROVE Same
  BY <1>1, <1>3, <1>8 DEF Boundary, Collect, EndOne, Judge, EndGS, ClearHistory
<1> QED BY <1>4, <1>5, <1>6, <1>7, <1>8 DEF Same

LEMMA QueueMoves ==
    ASSUME Typed, Next
    PROVE  \/ Add \/ Advance
           \/ mgr' \in Manager /\ mgr'.queue = mgr.queue /\ mgr'.nextId = mgr.nextId
BY Steps, QueueSame DEF Inputs, Loops

\* Every item that waits is chat or work.
LEMMA KindsInserted ==
    ASSUME NEW queue \in Seq(Item), \A k \in 1..Len(queue) : queue[k].state \in Kinds,
           NEW item \in Item, item.state \in Kinds, NEW k \in 1..(Len(queue) + 1)
    PROVE  /\ InsertAt(queue, k, item) \in Seq(Item)
           /\ \A j \in 1..Len(InsertAt(queue, k, item)) :
                 InsertAt(queue, k, item)[j].state \in Kinds
<1>1. PICK q \in Seq(Item) : q = InsertAt(queue, k, item)
  BY InsertAtProperties DEF Inserted
<1>2. ToSet(q) = ToSet(queue) \cup {item}
  BY <1>1, InsertedSet
<1>3. \A j \in 1..Len(q) : q[j] \in ToSet(queue) \cup {item}
  BY <1>2, Members
<1>4. \A e \in ToSet(queue) : e.state \in Kinds
  BY Members
<1> HIDE DEF InsertAt
<1> QED BY <1>1, <1>3, <1>4

LEMMA KindsTail ==
    ASSUME NEW queue \in Seq(Item), \A k \in 1..Len(queue) : queue[k].state \in Kinds,
           queue # <<>>
    PROVE  /\ \A j \in 1..Len(Tail(queue)) : Tail(queue)[j].state \in Kinds
           /\ Head(queue).state \in Kinds
BY TailIndices

LEMMA QueueKept ==
    ASSUME Typed, Next
    PROVE  QueueTyped'
<1>0. PICK queue \in Seq(Item) : queue = mgr.queue
  BY DEF Typed, QueueTyped, Manager
<1>1. \A k \in 1..Len(queue) : queue[k].state \in Kinds
  BY <1>0 DEF Typed, QueueTyped
<1>2. CASE Add
  <2>1. PICK wish \in Wishes, n \in Manager, item \in Item, k \in 1..(Len(queue) + 1) :
          /\ item.state = wish.state /\ n.nextId = mgr.nextId + 1
          /\ n.queue = InsertAt(queue, k, item) /\ n.queue # <<>>
          /\ mgr' \in Manager /\ mgr'.nextId = n.nextId
          /\ thread["input"].todo \in Seq(Wishes) /\ thread["input"].todo # <<>>
          /\ mgr'.queue \in {n.queue, Tail(n.queue)}
    BY <1>0, <1>2, AddFields
  <2>2. PICK q \in Seq(Item) : q = n.queue
    BY DEF Manager
  <2>3. item.state \in Kinds
    BY <2>1 DEF Wishes
  <2>4. \A j \in 1..Len(q) : q[j].state \in Kinds
    BY <1>1, <2>1, <2>2, <2>3, KindsInserted
  <2>5. \A j \in 1..Len(Tail(q)) : Tail(q)[j].state \in Kinds
    BY <2>1, <2>2, <2>4, KindsTail
  <2>6. mgr'.nextId \in 1..(MaxItems + 1)
    <3>1. Len(thread["input"].todo) \in Nat /\ Len(thread["input"].todo) > 0
      BY <2>1
    <3> QED BY <2>1, <3>1, MaxItemsAssumption DEF Typed, QueueTyped, Fits
  <2> QED BY <2>1, <2>2, <2>4, <2>5, <2>6 DEF QueueTyped
<1>3. CASE Advance
  <2>1. /\ mgr' \in Manager /\ mgr'.nextId = mgr.nextId
        /\ mgr'.queue = queue \/ (queue # <<>> /\ mgr'.queue = Tail(queue))
    BY <1>0, <1>3, AdvanceFields
  <2>2. queue # <<>> => \A j \in 1..Len(Tail(queue)) : Tail(queue)[j].state \in Kinds
    BY <1>1, KindsTail
  <2> QED BY <1>1, <2>1, <2>2 DEF Typed, QueueTyped
<1>4. CASE mgr' \in Manager /\ mgr'.queue = mgr.queue /\ mgr'.nextId = mgr.nextId
  BY <1>4 DEF Typed, QueueTyped
<1> QED BY <1>2, <1>3, <1>4, QueueMoves
LEMMA GSKept ==
    ASSUME Typed, Next
    PROVE  GSTyped'
<1>0. gsCount \in 0..MaxGS /\ gs \in 0..gsCount /\ MaxGS \in Nat
  BY SessionLifecycleAssumption DEF Typed, GSTyped
<1>1. ASSUME NEW t, MakeGS(t) PROVE GSTyped'
  BY <1>0, <1>1 DEF MakeGS, GSTyped
<1>2. ASSUME NEW t, EndGS(t) PROVE GSTyped'
  BY <1>0, <1>2 DEF EndGS, GSTyped
<1>3. ASSUME UNCHANGED <<gs, gsCount>> PROVE GSTyped'
  BY <1>0, <1>3 DEF GSTyped
<1>4. ASSUME Inputs \/ Loops PROVE UNCHANGED <<gs, gsCount>>
  BY <1>4 DEF Inputs, Loops, Hear, Pause, Add, PublishInput, Advance, Track, Look,
              sessionVars
<1>5. ASSUME EventSteps PROVE UNCHANGED <<gs, gsCount>>
  BY <1>5 DEF EventSteps, OnSessionEnded, OnInput, OnStateAdvanced, OnProcessing,
     OnOutput, OnCycleCompleted, sessionVars
<1>6. ASSUME Monitoring PROVE UNCHANGED <<gs, gsCount>> \/ MakeGS("monitor")
  BY <1>6 DEF Monitoring, MonitorGS, sessionVars
<1>7. ASSUME NEW t, Start(t) PROVE UNCHANGED <<gs, gsCount>> \/ MakeGS(t)
  BY <1>7 DEF Start, SetState, Attach, Create, sessionVars
<1>8. ASSUME NEW t, Boundary(t) PROVE UNCHANGED <<gs, gsCount>> \/ EndGS(t)
  BY <1>8 DEF Boundary, Collect, EndOne, Judge, ClearHistory, sessionVars
<1>9. ASSUME Still PROVE UNCHANGED <<gs, gsCount>>
  BY <1>9, StillSteps DEF Still
<1> QED BY <1>1, <1>2, <1>3, <1>4, <1>5, <1>6, <1>7, <1>8, <1>9, Steps

\* What can happen to the sessions: nothing, the pause of chats, marks, ends, and
\* the session, or the failure, of the item being started.
LEMMA SessionMoves ==
    ASSUME Typed, Next
    PROVE  \/ session' = session
           \/ Pause
           \/ \E ids \in SUBSET AllActive : session' = MarkPending(ids)
           \/ \E i \in Ids : session' = Ended(i) /\
                 \/ Expire(i) /\ i \in AllActive
                 \/ \E t \in Closers : /\ EndOne(t) /\ thread[t].todo # <<>>
                                       /\ i = Head(thread[t].todo)
           \/ \E t \in Starters : Attach(t) /\ Refuse(t)
           \/ \E t \in Starters : Create(t)
<1>1. ASSUME Hear \/ Add \/ PublishInput \/ Loops \/ Monitoring
      PROVE  session' = session
  BY <1>1 DEF Loops, Monitoring, Hear, Add, PublishInput, Advance, Track, Look,
              MonitorGS, MakeGS, sessionVars
<1>2. ASSUME EventSteps
      PROVE  session' = session \/ \E ids \in SUBSET AllActive : session' = MarkPending(ids)
  <2>1. AllActive \in SUBSET AllActive /\ \A d \in SUBSET Active("WORK") : d \in SUBSET AllActive
    BY DEF AllActive
  <2>2. ASSUME NEW key, EnterProcessing(key)
        PROVE  session' = session
                 \/ \E ids \in SUBSET AllActive : session' = MarkPending(ids)
    BY <2>1, <2>2 DEF EnterProcessing, Process
  <2>3. ASSUME OnSessionEnded \/ OnProcessing \/ OnOutput PROVE session' = session
    BY <2>3 DEF OnSessionEnded, OnProcessing, OnOutput, sessionVars
  <2>4. ASSUME OnInput \/ OnStateAdvanced \/ OnCycleCompleted
        PROVE  \/ session' = session \/ session' = MarkPending(AllActive)
               \/ \E key : EnterProcessing(key)
    BY <2>4 DEF OnInput, OnStateAdvanced, OnCycleCompleted
  <2> QED BY <1>2, <2>1, <2>2, <2>3, <2>4 DEF EventSteps
<1>3. ASSUME NEW t \in Starters, Start(t)
      PROVE  session' = session \/ (Attach(t) /\ Refuse(t)) \/ Create(t)
  BY <1>3 DEF Start, SetState, MakeGS, Attach, sessionVars
<1>4. ASSUME NEW t \in Closers, Boundary(t)
      PROVE  session' = session \/
               (/\ EndOne(t) /\ thread[t].todo # <<>>
                /\ \E i \in Ids : i = Head(thread[t].todo) /\ session' = Ended(i))
  <2>1. ASSUME EndOne(t)
        PROVE  /\ thread[t].todo # <<>>
               /\ \E i \in Ids : i = Head(thread[t].todo) /\ session' = Ended(i)
    <3>1. thread[t] \in Locals(t) /\ Todos(t) = Seq(Ids)
      BY Places DEF Typed, ThreadTyped
    <3>2. PICK todo \in Seq(Ids) : todo = thread[t].todo /\ todo # <<>>
      BY <2>1, <3>1 DEF Locals, EndOne
    <3>3. PICK i \in Ids : i = Head(todo)
      BY <3>2
    <3> QED BY <2>1, <3>2, <3>3 DEF EndOne
  <2>2. ASSUME Collect(t) \/ Judge(t) \/ EndGS(t) \/ ClearHistory(t)
        PROVE  session' = session
    BY <2>2 DEF Collect, Judge, EndGS, ClearHistory, sessionVars
  <2> QED BY <1>4, <2>1, <2>2 DEF Boundary
<1>5. ASSUME Still
      PROVE  \/ session' = session
             \/ \E ids \in SUBSET AllActive : session' = MarkPending(ids)
             \/ \E i \in Ids : session' = Ended(i) /\ Expire(i) /\ i \in AllActive
  <2>1. Active("WORK") \in SUBSET AllActive
    BY DEF AllActive
  <2> QED BY <1>5, <2>1 DEF Still, Speak, OutputFails, Ask, Expire, sessionVars
<1> QED BY <1>1, <1>2, <1>3, <1>4, <1>5, Steps DEF Inputs

\* What the ways to change a session do to it.
LEMMA SessionFields ==
    ASSUME SessionTyped
    PROVE  /\ \A ids : /\ MarkPending(ids) \in [Ids -> Session]
                       /\ \A i \in Ids : /\ MarkPending(ids)[i].status = session[i].status
                                         /\ MarkPending(ids)[i].kind = session[i].kind
                                         /\ MarkPending(ids)[i].gs = session[i].gs
           /\ \A i \in Ids : /\ Ended(i) \in [Ids -> Session]
                             /\ Ended(i)[i].status = "completed"
                             /\ \A j \in Ids \ {i} : Ended(i)[j] = session[j]
<1>1. ASSUME NEW i \in Ids
      PROVE  /\ session[i] \in Session
             /\ [session[i] EXCEPT !.pending = TRUE] \in Session
             /\ [session[i] EXCEPT !.pending = TRUE].status = session[i].status
             /\ [session[i] EXCEPT !.pending = TRUE].kind = session[i].kind
             /\ [session[i] EXCEPT !.pending = TRUE].gs = session[i].gs
             /\ [session[i] EXCEPT !.status = "completed"] \in Session
             /\ [session[i] EXCEPT !.status = "completed"].status = "completed"
  <2>1. session[i] \in Session
    BY DEF SessionTyped
  <2> QED BY <2>1 DEF Session
<1>2. \A ids : MarkPending(ids) = [i \in Ids |->
         IF i \in ids THEN [session[i] EXCEPT !.pending = TRUE] ELSE session[i]]
  BY DEF MarkPending, Ids
<1>3. ASSUME NEW i \in Ids
      PROVE  Ended(i) = [session EXCEPT ![i] = [session[i] EXCEPT !.status = "completed"]]
  BY DEF Ended
<1> QED BY <1>1, <1>2, <1>3 DEF SessionTyped

\* Starting changes only the session of the item.
LEMMA StartFields ==
    ASSUME Typed, NEW t \in Starters, Refuse(t) \/ Create(t), thread[t].pc \in StartPcs
    PROVE  /\ session' \in [Ids -> Session]
           /\ \A i \in Ids : i # thread[t].item.id => session'[i] = session[i]
           /\ thread[t].item.id \in Ids /\ Refuse(t) =>
                 session'[thread[t].item.id].status = "failed"
           /\ thread[t].item.id \in Ids /\ Create(t) =>
                 session'[thread[t].item.id].status \in {"active", "failed"}
<1>0. /\ thread[t] \in Locals(t) /\ thread[t].item.state \in Kinds
      /\ gs \in 0..MaxGS /\ session \in [Ids -> Session]
  BY Places, SessionLifecycleAssumption
     DEF Typed, ThreadTyped, Fits, GSTyped, SessionTyped
<1>1. PICK id : id = thread[t].item.id
  OBVIOUS
<1>2. ASSUME Refuse(t)
      PROVE  /\ session' \in [Ids -> Session]
             /\ \A i \in Ids : i # id => session'[i] = session[i]
             /\ id \in Ids => session'[id].status = "failed"
  <2>1. session' = [session EXCEPT ![id] = [session[id] EXCEPT !.status = "failed"]]
    BY <1>1, <1>2 DEF Refuse
  <2>2. id \in Ids => /\ [session[id] EXCEPT !.status = "failed"] \in Session
                      /\ [session[id] EXCEPT !.status = "failed"].status = "failed"
    <3>1. id \in Ids => session[id] \in Session
      BY <1>0
    <3> QED BY <3>1 DEF Session
  <2> QED BY <1>0, <2>1, <2>2
<1>3. ASSUME NEW status \in {"active", "failed"},
             session' = [session EXCEPT ![id] = [status |-> status,
                 kind |-> thread[t].item.state, gs |-> gs, pending |-> FALSE]]
      PROVE  /\ session' \in [Ids -> Session]
             /\ \A i \in Ids : i # id => session'[i] = session[i]
             /\ id \in Ids => session'[id].status = status
  <2>1. [status |-> status, kind |-> thread[t].item.state, gs |-> gs,
         pending |-> FALSE] \in Session
    BY <1>0 DEF Session, Kinds
  <2> QED BY <1>0, <1>3, <2>1
<1>4. Create(t) => Refuse(t) \/ \E status \in {"active", "failed"} :
         session' = [session EXCEPT ![id] = [status |-> status,
                 kind |-> thread[t].item.state, gs |-> gs, pending |-> FALSE]]
  BY <1>1 DEF Create
<1> QED BY <1>1, <1>2, <1>3, <1>4

LEMMA SessionKept ==
    ASSUME Typed, Next
    PROVE  SessionTyped'
<1>0. SessionTyped
  BY DEF Typed
<1>1. CASE Pause
  <2>1. ASSUME NEW i \in Ids
        PROVE  session[i] \in Session /\ [session[i] EXCEPT !.status = "paused"] \in Session
    <3>1. session[i] \in Session
      BY <1>0 DEF SessionTyped
    <3> QED BY <3>1 DEF Session
  <2>2. session' = [i \in Ids |-> IF i \in Active("CHAT")
                      THEN [session[i] EXCEPT !.status = "paused"] ELSE session[i]]
    BY <1>1 DEF Pause, Ids
  <2> QED BY <2>1, <2>2 DEF SessionTyped
<1>2. ASSUME NEW t \in Starters, (Attach(t) /\ Refuse(t)) \/ Create(t)
      PROVE  SessionTyped'
  <2>1. thread[t].pc \in StartPcs
    BY <1>2 DEF Attach, Create, StartPcs
  <2> QED BY <1>2, <2>1, StartFields DEF SessionTyped
<1>3. ASSUME NEW i \in Ids, session' = Ended(i) PROVE SessionTyped'
  BY <1>0, <1>3, SessionFields DEF SessionTyped
<1>4. ASSUME NEW ids, session' = MarkPending(ids) PROVE SessionTyped'
  BY <1>0, <1>4, SessionFields DEF SessionTyped
<1>5. CASE session' = session
  BY <1>0, <1>5 DEF SessionTyped
<1> QED BY <1>1, <1>2, <1>3, <1>4, <1>5, SessionMoves

\* What can happen to the bus.
LEMMA BusMoves ==
    ASSUME Typed, Next
    PROVE  \/ bus' = bus
           \/ \E e \in BusEvent : bus' = Append(bus, e)
           \/ bus # <<>> /\ bus' = Tail(bus)
           \/ bus # <<>> /\ \E e \in BusEvent : bus' = Append(Tail(bus), e)
<1>0. thread["input"].control \in BOOLEAN
  BY DEF Typed, ThreadTyped, Thread, Locals
<1>1. ASSUME NEW t, NEW queued, NEW b, CompleteCycle(t, queued, b)
      PROVE  \E e \in BusEvent : bus' = Append(queued, e)
  BY <1>1, KeyTyped, Events DEF CompleteCycle
<1>2. ASSUME Inputs PROVE bus' = bus \/ \E e \in BusEvent : bus' = Append(bus, e)
  BY <1>0, <1>2, KeyTyped, Events DEF Inputs, Hear, Pause, Add, PublishInput
<1>3. ASSUME Loops PROVE bus' = bus \/ \E e \in BusEvent : bus' = Append(bus, e)
  <2>1. ASSUME Track PROVE bus' = bus \/ \E e \in BusEvent : bus' = Append(bus, e)
    BY <1>1, <2>1 DEF Track
  <2>2. ASSUME Advance \/ Look PROVE bus' = bus \/ \E e \in BusEvent : bus' = Append(bus, e)
    BY <2>2, KeyTyped, Events DEF Advance, Look
  <2> QED BY <1>3, <2>1, <2>2 DEF Loops
<1>4. ASSUME EventSteps
      PROVE  bus # <<>> /\ (bus' = Tail(bus) \/ \E e \in BusEvent : bus' = Append(Tail(bus), e))
  <2>0. bus # <<>>
    BY <1>4 DEF EventSteps, OnSessionEnded, OnInput, OnStateAdvanced, OnProcessing,
       OnOutput, OnCycleCompleted, Taken
  <2>1. ASSUME NEW key \in Key, EnterProcessing(key)
        PROVE  bus' = Tail(bus) \/ \E e \in BusEvent : bus' = Append(Tail(bus), e)
    <3>1. CASE Process(key)
      <4>1. [gs |-> shown.gs, cycle |-> key.cycle] \in Key
        BY KeyTyped
      <4> QED BY <3>1, <4>1, Events DEF Process
    <3>2. CASE ~Process(key)
      BY <1>1, <2>1, <3>2 DEF EnterProcessing
    <3> QED BY <3>1, <3>2
  <2>2. ASSUME OnInput \/ OnStateAdvanced
        PROVE  bus' = Tail(bus) \/ \E key \in Key : EnterProcessing(key)
    BY <2>0, <2>2, FirstEvent DEF OnInput, OnStateAdvanced, Taken
  <2>3. ASSUME OnOutput PROVE bus' = Tail(bus) \/ \E e \in BusEvent : bus' = Append(Tail(bus), e)
    BY <1>1, <2>3 DEF OnOutput
  <2>4. ASSUME OnSessionEnded \/ OnProcessing \/ OnCycleCompleted PROVE bus' = Tail(bus)
    BY <2>4 DEF OnSessionEnded, OnProcessing, OnCycleCompleted
  <2> QED BY <1>4, <2>0, <2>1, <2>2, <2>3, <2>4 DEF EventSteps
<1>5. ASSUME Monitoring PROVE bus' = bus
  BY <1>5 DEF Monitoring, MonitorGS, MakeGS
<1>6. ASSUME NEW t, Start(t) PROVE bus' = bus
  BY <1>6 DEF Start, SetState, MakeGS, Attach, Create
<1>7. ASSUME NEW t, Boundary(t) PROVE bus' = bus \/ \E e \in BusEvent : bus' = Append(bus, e)
  BY <1>7, Events DEF Boundary, Collect, EndOne, Judge, EndGS, ClearHistory
<1>8. ASSUME Still PROVE bus' = bus \/ \E e \in BusEvent : bus' = Append(bus, e)
  BY <1>8, Events DEF Still, Speak, OutputFails, Ask, Expire
<1> QED BY <1>2, <1>3, <1>4, <1>5, <1>6, <1>7, <1>8, Steps

LEMMA BusKept ==
    ASSUME Typed, Next
    PROVE  BusTyped'
<1>0. bus \in Seq(BusEvent)
  BY DEF Typed, BusTyped
<1>1. bus # <<>> => Tail(bus) \in Seq(BusEvent)
  BY FirstEvent
<1>2. \A b \in Seq(BusEvent), e \in BusEvent : Append(b, e) \in Seq(BusEvent)
  BY AppendProperties
<1> QED BY <1>0, <1>1, <1>2, BusMoves DEF BusTyped
\* The coordinator's keys and wishes, and the output thread.
LEMMA CoordinatorKept ==
    ASSUME Typed, Next
    PROVE  CoordinatorTyped'
<1> DEFINE Keys == [layer : {"INPUT", "PROCESSING"}, gs : 0..MaxGS, cycle : Nat]
           Wish == {<<>>} \cup {<<g>> : g \in 0..MaxGS}
           Outputs == [pc : {"idle", "speaking", "asking"}, gs : 0..MaxGS, ends : BOOLEAN]
<1>0. asked \in Wish /\ seen \subseteq Keys /\ output \in Outputs
  BY DEF Typed, CoordinatorTyped
<1>1. ASSUME asked' \in Wish, seen' \subseteq Keys, output' \in Outputs
      PROVE  CoordinatorTyped'
  BY <1>1 DEF CoordinatorTyped
<1>2. ASSUME UNCHANGED coordinatorVars PROVE CoordinatorTyped'
  BY <1>0, <1>1, <1>2 DEF coordinatorVars
<1>3. ASSUME NEW key \in Key, NEW layer \in {"INPUT", "PROCESSING"}
      PROVE  DedupeKey(layer, key) \in Keys
  BY <1>3 DEF DedupeKey, Key
<1>4. Silent \in Outputs
  BY SessionLifecycleAssumption DEF Silent
<1> HIDE DEF Keys, Wish
<1>5. CASE OnInput
  <2>1. Head(bus).key \in Key
    BY <1>5, FirstEvent DEF OnInput, Taken
  <2>2. asked' = asked /\ output' = output
        /\ seen' \in {seen, seen \cup {DedupeKey("INPUT", Head(bus).key)}}
    BY <1>5 DEF OnInput
  <2> QED BY <1>0, <1>1, <1>3, <2>1, <2>2
<1>6. CASE OnProcessing
  <2>1. Head(bus).key \in Key /\ Head(bus).ends \in BOOLEAN
    BY <1>6, FirstEvent DEF OnProcessing, Taken
  <2>2. /\ asked' = asked
        /\ seen' \in {seen, seen \cup {DedupeKey("PROCESSING", Head(bus).key)}}
        /\ output' = output \/ output' = [pc |-> "speaking",
              gs |-> DedupeKey("PROCESSING", Head(bus).key).gs, ends |-> Head(bus).ends]
    BY <1>6 DEF OnProcessing
  <2>3. DedupeKey("PROCESSING", Head(bus).key).gs \in 0..MaxGS
    BY <2>1 DEF DedupeKey, Key
  <2> QED BY <1>0, <1>1, <1>3, <2>1, <2>2, <2>3
<1>7. CASE OnCycleCompleted
  <2>1. output' = output /\ asked' \in {asked, <<>>} /\ seen' \subseteq seen
    BY <1>7 DEF OnCycleCompleted
  <2>2. <<>> \in Wish
    BY DEF Wish
  <2> QED BY <1>0, <1>1, <2>1, <2>2
<1>8. CASE Still
  <2>1. seen' = seen
    BY <1>8 DEF Still, Speak, OutputFails, Ask, Expire, coordinatorVars
  <2>2. output' \in {output, Silent, [output EXCEPT !.pc = "asking"]}
    BY <1>8 DEF Still, Speak, OutputFails, Ask, Expire, coordinatorVars
  <2>3. asked' \in {asked, <<output.gs>>}
    BY <1>8 DEF Still, Speak, OutputFails, Ask, Expire, coordinatorVars
  <2>4. [output EXCEPT !.pc = "asking"] \in Outputs /\ output.gs \in 0..MaxGS
    BY <1>0
  <2>5. <<output.gs>> \in Wish
    BY <2>4 DEF Wish
  <2> QED BY <1>0, <1>1, <1>4, <2>1, <2>2, <2>3, <2>4, <2>5
<1>9. ASSUME \/ Inputs \/ Loops \/ Monitoring \/ OnSessionEnded \/ OnStateAdvanced
             \/ OnOutput
      PROVE  UNCHANGED coordinatorVars
  BY <1>9 DEF Inputs, Loops, Monitoring, Hear, Pause, Add, PublishInput, Advance, Track,
     Look, MonitorGS, MakeGS, OnSessionEnded, OnStateAdvanced, OnOutput
<1>10. ASSUME NEW t, Start(t) \/ Boundary(t) PROVE UNCHANGED coordinatorVars
  BY <1>10 DEF Start, SetState, MakeGS, Attach, Create, Boundary, Collect, EndOne, Judge,
     EndGS, ClearHistory
<1> QED BY <1>2, <1>5, <1>6, <1>7, <1>8, <1>9, <1>10, Steps DEF EventSteps

\* The cycles.
LEMMA CycleKept ==
    ASSUME Typed, Next
    PROVE  CycleTyped'
<1> DEFINE Counts == /\ cycle' \in Nat /\ cycle <= cycle' /\ owed' \in [0..MaxGS -> Nat]
           Shows == shown' \in Key /\ shown'.cycle <= cycle'
           Tracks == tracking' \in {"none", "input", "processing"}
           Looks == monitored' \in -1..cycle /\ previous' \in States
<1>0. /\ cycle \in Nat /\ owed \in [0..MaxGS -> Nat]
      /\ tracking \in {"none", "input", "processing"}
      /\ monitored \in -1..cycle /\ previous \in States
      /\ shown \in Key /\ shown.cycle <= cycle
      /\ gs \in 0..MaxGS /\ 0 \in 0..MaxGS /\ gsCount \in Nat
  BY SessionLifecycleAssumption DEF Typed, CycleTyped, GSTyped
<1>1. ASSUME Counts, Shows, Tracks, Looks PROVE CycleTyped'
  BY <1>0, <1>1 DEF CycleTyped
<1>2. UNCHANGED cycleVars => Counts
  BY <1>0 DEF cycleVars
<1>3. UNCHANGED <<cycleVars, shown>> => Shows
  BY <1>0 DEF cycleVars
<1>4. UNCHANGED tracking => Tracks
  BY <1>0
<1>5. UNCHANGED lookVars => Looks
  BY <1>0 DEF lookVars
<1>6. ASSUME NEW t, NEW queued, NEW b, CompleteCycle(t, queued, b) PROVE Counts /\ Shows
  <2>1. cycle' = cycle + 1 /\ owed' = [g \in 0..MaxGS |-> 0]
        /\ shown' = [gs |-> gs, cycle |-> cycle + 1]
    BY <1>6 DEF CompleteCycle
  <2> QED BY <1>0, <2>1, KeyTyped DEF Key
<1>7. ASSUME NEW t, BoundaryDone(t) PROVE Tracks
  BY <1>0, <1>7 DEF BoundaryDone
<1>8. ASSUME NEW g \in 0..MaxGS, shown' = [gs |-> g, cycle |-> 0], UNCHANGED cycleVars
      PROVE  Shows
  BY <1>0, <1>8 DEF Key, cycleVars
<1> HIDE DEF Counts, Shows, Tracks, Looks
<1>9. CASE Inputs \/ Still
  <2>1. UNCHANGED <<cycleVars, tracking, lookVars, shown>>
    BY <1>9 DEF Inputs, Still, Hear, Pause, Add, PublishInput, Speak, OutputFails, Ask,
       Expire
  <2> QED BY <1>1, <1>2, <1>3, <1>4, <1>5, <2>1
<1>10. CASE Advance
  <2>1. UNCHANGED <<cycleVars, tracking, lookVars, shown>>
    BY <1>10 DEF Advance
  <2> QED BY <1>1, <1>2, <1>3, <1>4, <1>5, <2>1
<1>11. CASE Track
  <2>1. UNCHANGED lookVars
    BY <1>11 DEF Track
  <2>2. Tracks
    BY <1>0, <1>11 DEF Track, Tracks
  <2>3. \/ \E b : CompleteCycle("loop", bus, b)
        \/ UNCHANGED cycleVars /\ shown' \in {shown, [gs |-> gs, cycle |-> cycle]}
    BY <1>11 DEF Track
  <2>4. CASE UNCHANGED cycleVars /\ shown' \in {shown, [gs |-> gs, cycle |-> cycle]}
    <3>1. Shows
      BY <1>0, <2>4, KeyTyped DEF cycleVars, Shows, Key
    <3> QED BY <1>1, <1>2, <1>5, <2>1, <2>2, <2>4, <3>1
  <2> QED BY <1>1, <1>5, <1>6, <2>1, <2>2, <2>3, <2>4
<1>12. CASE Look
  <2>1. UNCHANGED <<cycleVars, tracking, shown>>
    BY <1>12 DEF Look
  <2>2. previous' = thread["loop"].state /\ monitored' \in {monitored, shown.cycle}
    BY <1>12 DEF Look
  <2>3. thread["loop"].state \in States /\ shown.cycle \in Nat
    BY <1>0 DEF Typed, ThreadTyped, Thread, Locals, Key
  <2>4. Looks
    BY <1>0, <2>2, <2>3 DEF Looks
  <2> QED BY <1>1, <1>2, <1>3, <1>4, <2>1, <2>4
<1>13. CASE OnSessionEnded \/ OnCycleCompleted
  <2>1. UNCHANGED <<cycleVars, tracking, lookVars, shown>>
    BY <1>13 DEF OnSessionEnded, OnCycleCompleted
  <2> QED BY <1>1, <1>2, <1>3, <1>4, <1>5, <2>1
<1>14. CASE OnInput \/ OnStateAdvanced
  <2>1. UNCHANGED tracking /\ UNCHANGED lookVars
    BY <1>14 DEF OnInput, OnStateAdvanced
  <2>2. \/ UNCHANGED <<cycleVars, shown>>
        \/ \E b : CompleteCycle("bus", Tail(bus), b)
    BY <1>14 DEF OnInput, OnStateAdvanced, EnterProcessing, Process
  <2> QED BY <1>1, <1>2, <1>3, <1>4, <1>5, <1>6, <2>1, <2>2
<1>15. CASE OnProcessing
  <2>1. UNCHANGED <<cycle, tracking, lookVars, shown>>
        /\ owed' = [owed EXCEPT ![gs] = owed[gs] + 1]
    BY <1>0, <1>15 DEF OnProcessing
  <2>2. Counts /\ Shows
    BY <1>0, <2>1 DEF Counts, Shows
  <2> QED BY <1>1, <1>4, <1>5, <2>1, <2>2
<1>16. CASE OnOutput
  <2>1. UNCHANGED tracking /\ UNCHANGED lookVars
    BY <1>16 DEF OnOutput
  <2>2. \/ UNCHANGED <<cycle, shown>> /\ owed' = Spoken(gs)
        \/ \E b : CompleteCycle("bus", Tail(bus), b)
    BY <1>16 DEF OnOutput
  <2>3. Spoken(gs) \in [0..MaxGS -> Nat]
    <3>1. owed[gs] \in Nat
      BY <1>0
    <3> QED BY <1>0, <3>1 DEF Spoken
  <2>4. UNCHANGED <<cycle, shown>> /\ owed' = Spoken(gs) => Counts /\ Shows
    BY <1>0, <2>3 DEF Counts, Shows
  <2> QED BY <1>1, <1>4, <1>5, <1>6, <2>1, <2>2, <2>4
<1>17. ASSUME NEW t, MakeGS(t) PROVE CycleTyped'
  <2>1. UNCHANGED <<cycleVars, tracking, lookVars>>
        /\ shown' = [gs |-> gsCount + 1, cycle |-> 0]
    BY <1>17 DEF MakeGS
  <2>2. gsCount + 1 \in 0..MaxGS
    BY <1>0, <1>17, SessionLifecycleAssumption DEF MakeGS, Typed, GSTyped
  <2>3. Shows
    BY <1>8, <2>1, <2>2
  <2> QED BY <1>1, <1>2, <1>4, <1>5, <2>1, <2>3
<1>18. CASE MonitorGS
  <2>1. UNCHANGED <<cycleVars, tracking, lookVars, shown>>
    BY <1>18 DEF MonitorGS
  <2> QED BY <1>1, <1>2, <1>3, <1>4, <1>5, <2>1
<1>19. ASSUME NEW t, SetState(t) \/ Attach(t) \/ Create(t) PROVE CycleTyped'
  <2>1. UNCHANGED <<cycleVars, tracking, lookVars, shown>>
    BY <1>19 DEF SetState, Attach, Create
  <2> QED BY <1>1, <1>2, <1>3, <1>4, <1>5, <2>1
<1>20. ASSUME NEW t, Boundary(t) PROVE CycleTyped'
  <2>1. UNCHANGED <<cycleVars, lookVars>>
    BY <1>20 DEF Boundary, Collect, EndOne, Judge, EndGS, ClearHistory
  <2>2. UNCHANGED tracking \/ BoundaryDone(t)
    BY <1>20 DEF Boundary, Collect, EndOne, Judge, EndGS, ClearHistory
  <2>3. UNCHANGED shown \/ shown' = [gs |-> 0, cycle |-> 0]
    BY <1>20 DEF Boundary, Collect, EndOne, Judge, EndGS, ClearHistory
  <2> QED BY <1>0, <1>1, <1>2, <1>3, <1>4, <1>5, <1>7, <1>8, <2>1, <2>2, <2>3
<1> QED BY <1>9, <1>10, <1>11, <1>12, <1>13, <1>14, <1>15, <1>16, <1>17, <1>18, <1>19,
           <1>20, Steps DEF EventSteps, Loops, Monitoring, Start

\* What is planned fits, and what is started is chat or work.
LEMMA FitsKept ==
    ASSUME Typed, Next
    PROVE  Fits'
<1> DEFINE Room == mgr'.nextId + Len(thread'["input"].todo) <= MaxItems + 1
           Known(t) == thread'[t].pc \in StartPcs => thread'[t].item.state \in Kinds
<1>0. /\ mgr.nextId \in Nat /\ "input" \in Thread /\ Starters = {"input", "loop"}
      /\ "loop" \in Thread /\ thread["input"].todo \in Seq(Wishes)
      /\ mgr.nextId + Len(thread["input"].todo) <= MaxItems + 1
      /\ \A t \in Starters : thread[t].pc \in StartPcs => thread[t].item.state \in Kinds
      /\ mgr.queue \in Seq(Item)
      /\ \A k \in 1..Len(mgr.queue) : mgr.queue[k].state \in Kinds
  BY DEF Typed, Fits, QueueTyped, ThreadTyped, Thread, Starters, Locals, Todos, Manager
<1>1. Len(thread["input"].todo) \in Nat
  BY <1>0
<1>2. ASSUME Room, \A t \in Starters : Known(t) PROVE Fits'
  BY <1>2 DEF Fits
<1>3. ASSUME NEW t \in Starters, thread'[t] = thread[t] PROVE Known(t)
  BY <1>0, <1>3
<1>4. ASSUME NEW t \in Starters, thread'[t].pc \notin StartPcs PROVE Known(t)
  BY <1>4
<1>5. ASSUME thread'["input"] = thread["input"], mgr'.nextId = mgr.nextId PROVE Room
  BY <1>0, <1>5
<1> HIDE DEF Room, Known
<1>7. CASE Hear \/ Pause \/ PublishInput
  <2>1. mgr' = mgr
    BY <1>7 DEF Hear, Pause, PublishInput
  <2>2. thread'["input"].pc \in {"pause", "add", "idle"}
    BY <1>7, InputFields
  <2>3. Room
    <3>1. mgr'.nextId = mgr.nextId
      BY <2>1
    <3>2. CASE Hear
      BY <3>1, <3>2, InputFields DEF Room
    <3>3. CASE Pause
      BY <1>0, <3>1, <3>3, InputFields DEF Room
    <3>4. CASE PublishInput
      <4>1. Len(thread'["input"].todo) = 0
        BY <3>4, InputFields
      <4> QED BY <1>0, <1>1, <3>1, <4>1, MaxItemsAssumption DEF Room
    <3> QED BY <1>7, <3>2, <3>3, <3>4
  <2>4. Known("input")
    BY <1>0, <1>4, <2>2 DEF StartPcs
  <2>5. thread'["loop"] = thread["loop"]
    BY <1>0, <1>7, InputMoves
  <2> QED BY <1>0, <1>2, <1>3, <2>3, <2>4, <2>5
<1>8. CASE Add
  <2>1. PICK wish \in Wishes, n \in Manager, item \in Item,
             k \in 1..(Len(mgr.queue) + 1) :
          /\ item.state = wish.state /\ n.nextId = mgr.nextId + 1
          /\ n.queue = InsertAt(mgr.queue, k, item) /\ n.queue # <<>>
          /\ mgr'.nextId = n.nextId /\ thread["input"].todo # <<>>
          /\ thread'["input"].todo = Tail(thread["input"].todo)
          /\ \/ thread'["input"].pc = "add"
             \/ thread'["input"].item = Head(n.queue)
    BY <1>8, AddFields
  <2>2. Room
    <3>1. Len(thread'["input"].todo) = Len(thread["input"].todo) - 1
      BY <1>0, <2>1
    <3>2. mgr'.nextId = mgr.nextId + 1
      BY <2>1
    <3> QED BY <1>0, <1>1, <3>1, <3>2, MaxItemsAssumption DEF Room
  <2>3. PICK q \in Seq(Item) : q = n.queue
    BY DEF Manager
  <2>4. \A j \in 1..Len(q) : q[j].state \in Kinds
    BY <1>0, <2>1, <2>3, KindsInserted DEF Wishes
  <2>5. Head(q).state \in Kinds
    BY <2>1, <2>3, <2>4, KindsTail
  <2>6. Known("input")
    BY <2>1, <2>3, <2>5 DEF Known, StartPcs
  <2>7. thread'["loop"] = thread["loop"]
    BY <1>0, <1>8, InputMoves
  <2> QED BY <1>0, <1>2, <1>3, <2>2, <2>6, <2>7
<1>9. CASE Advance
  <2>1. thread'["input"] = thread["input"]
    BY <1>0, <1>9, LoopMoves
  <2>2. mgr.queue # <<>> => Head(mgr.queue).state \in Kinds
    BY <1>0, KindsTail
  <2>3. Known("loop")
    BY <1>9, <2>2, AdvanceFields DEF Known, StartPcs
  <2>4. mgr'.nextId = mgr.nextId
    BY <1>9, AdvanceFields
  <2> QED BY <1>0, <1>2, <1>3, <1>5, <2>1, <2>3, <2>4
<1>10. CASE Track \/ Look
  <2>1. thread'["input"] = thread["input"] /\ thread'["loop"].pc \notin StartPcs
    BY <1>0, <1>10, LoopMoves DEF StartPcs
  <2>2. mgr'.nextId = mgr.nextId
    BY <1>10 DEF Track, Look
  <2> QED BY <1>0, <1>2, <1>3, <1>4, <1>5, <2>1, <2>2
<1>11. CASE EventSteps \/ Monitoring \/ Still
  <2>1. thread'["input"] = thread["input"] /\ thread'["loop"] = thread["loop"]
    BY <1>0, <1>11, EventMoves, MonitorMoves, StillSteps DEF EventSteps, Monitoring, Still
  <2>2. mgr'.nextId = mgr.nextId
    BY <1>11, QueueSame
  <2> QED BY <1>0, <1>2, <1>3, <1>5, <2>1, <2>2
<1>12. ASSUME NEW t \in Starters, Start(t) PROVE Fits'
  <2>1. /\ \A u \in Thread \ {t} : thread'[u] = thread[u]
        /\ thread[t].pc \in StartPcs
        /\ thread'[t].todo = thread[t].todo
        /\ \/ thread'[t].pc \in StartPcs /\ thread'[t].item = thread[t].item
           \/ thread'[t].pc \in {"track", "add"}
    BY <1>12, StartMoves DEF Start
  <2>2. Known(t)
    BY <1>0, <2>1 DEF Known, StartPcs
  <2>3. \A u \in Starters \ {t} : Known(u)
    BY <1>0, <1>3, <2>1
  <2>4. thread'["input"].todo = thread["input"].todo
    BY <1>0, <2>1
  <2>5. mgr'.nextId = mgr.nextId
    BY <1>12, QueueSame
  <2>6. Room
    BY <1>0, <2>4, <2>5 DEF Room
  <2> QED BY <1>0, <1>2, <2>2, <2>3, <2>6
<1>13. ASSUME NEW t \in Closers, Boundary(t) PROVE Fits'
  <2>1. /\ \A u \in Thread \ {t} : thread'[u] = thread[u]
        /\ thread'[t].pc \notin StartPcs
    BY <1>13, BoundaryStepMoves DEF ClosePcs, StartPcs
  <2>2. "input" # t
    BY DEF Closers
  <2>3. \A u \in Starters : Known(u)
    BY <1>0, <1>3, <1>4, <2>1
  <2>4. mgr'.nextId = mgr.nextId
    BY <1>13, QueueSame
  <2> QED BY <1>0, <1>2, <1>5, <2>1, <2>2, <2>3, <2>4
<1> QED BY <1>7, <1>8, <1>9, <1>10, <1>11, <1>12, <1>13, Steps DEF Inputs, Loops
LEMMA InitTyped == Init => Typed
<1> SUFFICES ASSUME Init PROVE Typed
  OBVIOUS
<1> USE MaxItemsAssumption, SessionLifecycleAssumption DEF Init
<1>1. QueueTyped
  <2>1. mgr.queue = <<>> /\ mgr.nextId = 1 /\ mgr \in Manager
    BY DEF FreshManager, Manager, States
  <2> QED BY <2>1 DEF QueueTyped
<1>2. GSTyped /\ CoordinatorTyped
  BY DEF GSTyped, CoordinatorTyped, Silent
<1>3. SessionTyped
  BY DEF SessionTyped, Session, NoSession, Ids
<1>4. BusTyped
  BY DEF BusTyped
<1>5. CycleTyped
  BY DEF CycleTyped, States, Key
<1>6. \A t \in Thread : /\ thread[t] = At("idle") /\ thread[t] \in Locals(t)
                        /\ thread[t].pc = "idle" /\ thread[t].todo = <<>>
  BY Places, Fresh
<1>7. ThreadTyped
  BY <1>6 DEF ThreadTyped
<1>8. Fits
  <2>1. Len(thread["input"].todo) = 0
    BY <1>6 DEF Thread
  <2>2. mgr.nextId = 1
    BY DEF FreshManager
  <2> QED BY <1>6, <2>1, <2>2, Places DEF Fits, StartPcs
<1> QED BY <1>1, <1>2, <1>3, <1>4, <1>5, <1>7, <1>8 DEF Typed

LEMMA TypedStep == Typed /\ [Next]_vars => Typed'
<1> SUFFICES ASSUME Typed, [Next]_vars PROVE Typed'
  OBVIOUS
<1>1. CASE Next
  BY <1>1, QueueKept, GSKept, SessionKept, BusKept, CoordinatorKept, CycleKept,
     ThreadKept, FitsKept DEF Typed
<1>2. CASE UNCHANGED vars
  BY <1>2 DEF vars, sessionVars, coordinatorVars, cycleVars, lookVars, Typed, QueueTyped,
     GSTyped, SessionTyped, BusTyped, CoordinatorTyped, CycleTyped, ThreadTyped, Fits
<1> QED BY <1>1, <1>2

\* The variables keep their types, whatever the number of items, general sessions
\* and inputs and however the threads interleave.
THEOREM TypeCorrect == Spec => []TypeOK
<1>1. Typed => TypeOK
  <2> SUFFICES ASSUME Typed PROVE TypeOK
    OBVIOUS
  <2>1. \A k \in 1..Len(bus) : bus[k] \in BusEvent
    BY DEF Typed, BusTyped
  <2>2. \A t \in Thread : thread[t].pc \in
          {"idle", "pause", "add", "setState", "makeGS", "attach", "create", "track", "look",
           "collect", "end", "endGS", "clear"}
    <3> SUFFICES ASSUME NEW t \in Thread PROVE thread[t].pc \in
          {"idle", "pause", "add", "setState", "makeGS", "attach", "create", "track", "look",
           "collect", "end", "endGS", "clear"}
      OBVIOUS
    <3>1. thread[t].pc \in Pcs(t)
      BY DEF Typed, ThreadTyped, Locals
    <3> QED BY <3>1 DEF Pcs, StartPcs, ClosePcs, Thread
  <2> QED BY <2>1, <2>2 DEF Typed, TypeOK, QueueTyped, GSTyped, SessionTyped, Ids,
      CoordinatorTyped, CycleTyped
<1> QED BY <1>1, InitTyped, TypedStep, PTL DEF Spec
-----------------------------------------------------------------------------
(* Single starts, however the threads interleave.  An identity is in the   *)
(* queue once, or with the one thread that starts it, or has had its start.*)

IsNew(i) == session[i].status = "none"
QueuedIds(queue) == {e.id : e \in ToSet(queue)}

\* The queue and the next identity: what waits or is to come is new, and what is
\* being started does not wait.
Clean(queue, next) ==
    /\ queue \in Seq(Item) /\ next \in 1..(MaxItems + 1)
    /\ Distinct(queue, NoItem) /\ IdsBelow(queue, next)
    /\ \A i \in Ids : i >= next \/ i \in QueuedIds(queue) => IsNew(i)
    /\ \A t \in Starters : Starts(t) => /\ thread[t].item.id < next
                                        /\ thread[t].item.id \notin QueuedIds(queue)

Underway ==
    /\ \A t \in Starters : Starts(t) => thread[t].item.id \in Ids /\ IsNew(thread[t].item.id)
    /\ Starts("input") /\ Starts("loop") =>
          thread["input"].item.id # thread["loop"].item.id

\* What is to be ended had its start.
Begun(todo) == \A k \in 1..Len(todo) : ~IsNew(todo[k])

Once == /\ Clean(mgr.queue, mgr.nextId) /\ Underway
        /\ \A t \in Closers : Begun(thread[t].todo)

\* The identities of a queue.
LEMMA WaitingIds ==
    ASSUME NEW queue \in Seq(Item)
    PROVE  /\ \A k \in 1..Len(queue) : queue[k].id \in QueuedIds(queue)
           /\ \A i \in QueuedIds(queue) : \E k \in 1..Len(queue) : i = queue[k].id
BY Members DEF QueuedIds

\* A new item, inserted somewhere.
LEMMA CleanInsert ==
    ASSUME Underway, NEW queue, NEW next, Clean(queue, next), next <= MaxItems,
           NEW item \in Item, item.id = next, NEW k \in 1..(Len(queue) + 1)
    PROVE  Clean(InsertAt(queue, k, item), next + 1)
<1>0. /\ queue \in Seq(Item) /\ next \in Nat /\ next \in 1..(MaxItems + 1)
      /\ Distinct(queue, NoItem) /\ IdsBelow(queue, next) /\ MaxItems \in Nat
  BY MaxItemsAssumption DEF Clean
<1>1. PICK q \in Seq(Item) : q = InsertAt(queue, k, item)
  BY <1>0, InsertAtProperties DEF Inserted
<1>2. NoItem.id < next /\ next # 0 /\ next + 1 \in 1..(MaxItems + 1)
  BY <1>0 DEF NoItem
<1>3. Distinct(q, NoItem) /\ IdsBelow(q, next + 1)
  BY <1>0, <1>1, <1>2, DistinctInsertion
<1>4. QueuedIds(q) = QueuedIds(queue) \cup {next}
  <2>1. ToSet(q) = ToSet(queue) \cup {item}
    BY <1>0, <1>1, InsertedSet
  <2> QED BY <2>1 DEF QueuedIds
<1>5. \A i \in Ids : i >= next + 1 \/ i \in QueuedIds(q) => IsNew(i)
  BY <1>0, <1>4 DEF Clean, Ids
<1>6. \A t \in Starters : Starts(t) => /\ thread[t].item.id < next + 1
                                       /\ thread[t].item.id \notin QueuedIds(q)
  <2> SUFFICES ASSUME NEW t \in Starters, Starts(t)
               PROVE  /\ thread[t].item.id < next + 1
                      /\ thread[t].item.id \notin QueuedIds(q)
    OBVIOUS
  <2>1. thread[t].item.id < next /\ thread[t].item.id \notin QueuedIds(queue)
    BY DEF Clean
  <2>2. thread[t].item.id < next + 1 /\ thread[t].item.id # next
    BY <1>0, <2>1 DEF Underway, Ids
  <2> QED BY <1>4, <2>1, <2>2
<1> HIDE DEF InsertAt
<1> QED BY <1>1, <1>2, <1>3, <1>5, <1>6 DEF Clean
\* Taking the head of the queue.
LEMMA CleanTail ==
    ASSUME NEW queue, NEW next, Clean(queue, next), queue # <<>>
    PROVE  /\ Clean(Tail(queue), next)
           /\ Head(queue).id \in Ids /\ Head(queue).id < next /\ IsNew(Head(queue).id)
           /\ Head(queue).id \notin QueuedIds(Tail(queue))
           /\ \A t \in Starters : Starts(t) => thread[t].item.id # Head(queue).id
<1>0. /\ queue \in Seq(Item) /\ next \in Nat /\ next \in 1..(MaxItems + 1)
      /\ Distinct(queue, NoItem) /\ IdsBelow(queue, next) /\ MaxItems \in Nat
  BY MaxItemsAssumption DEF Clean
<1>1. PICK rest \in Seq(Item), head \in Item : rest = Tail(queue) /\ head = Head(queue)
  BY <1>0, TailIndices
<1>2. /\ Len(queue) \in Nat /\ Len(rest) = Len(queue) - 1
      /\ \A i \in 1..Len(rest) : i + 1 \in 1..Len(queue) /\ rest[i] = queue[i + 1]
      /\ head = queue[1] /\ 1 \in 1..Len(queue)
  BY <1>0, <1>1, TailIndices
<1>3. /\ \A i, j \in 1..Len(rest) : i + 1 = j + 1 => i = j
      /\ \A i \in 1..Len(rest) : i + 1 # 1
  BY <1>2
<1>4. Distinct(rest, NoItem) /\ IdsBelow(rest, next)
  <2>1. \A i, j \in 1..Len(rest) : rest[i].id = rest[j].id => i = j
    <3> SUFFICES ASSUME NEW i \in 1..Len(rest), NEW j \in 1..Len(rest),
                        rest[i].id = rest[j].id
                 PROVE  i = j
      OBVIOUS
    <3>1. queue[i + 1].id = queue[j + 1].id /\ i + 1 \in 1..Len(queue) /\ j + 1 \in 1..Len(queue)
      BY <1>2
    <3>2. i + 1 = j + 1
      BY <1>0, <3>1 DEF Distinct
    <3> QED BY <1>3, <3>2
  <2>2. \A i \in 1..Len(rest) : rest[i].id # NoItem.id
    BY <1>0, <1>2 DEF Distinct
  <2>3. IdsBelow(rest, next)
    BY <1>0, <1>2 DEF IdsBelow
  <2> QED BY <2>1, <2>2, <2>3 DEF Distinct
<1>5. QueuedIds(rest) \subseteq QueuedIds(queue)
  <2> SUFFICES ASSUME NEW i \in QueuedIds(rest) PROVE i \in QueuedIds(queue)
    OBVIOUS
  <2>1. PICK k \in 1..Len(rest) : i = rest[k].id
    BY WaitingIds
  <2> QED BY <1>0, <1>2, <2>1, WaitingIds
<1>6. head.id \in QueuedIds(queue) /\ head.id \notin QueuedIds(rest)
  <2>1. head.id \in QueuedIds(queue)
    BY <1>0, <1>2, WaitingIds
  <2>2. \A k \in 1..Len(rest) : rest[k].id # head.id
    BY <1>0, <1>2, <1>3 DEF Distinct
  <2> QED BY <2>1, <2>2, WaitingIds
<1>7. head.id \in Ids /\ head.id < next
  <2>1. head.id # 0 /\ head.id < next
    BY <1>0, <1>2 DEF IdsBelow
  <2>2. head.id \in Nat
    BY ItemTypes
  <2> QED BY <1>0, <2>1, <2>2 DEF Ids
<1>8. IsNew(head.id)
  BY <1>6, <1>7 DEF Clean
<1>9. Clean(rest, next)
  BY <1>0, <1>4, <1>5 DEF Clean
<1> QED BY <1>1, <1>6, <1>7, <1>8, <1>9 DEF Clean

\* What has had its start keeps its session, and what loses its newness was being
\* started by a thread that has ended the start.
LEMMA Statuses ==
    ASSUME Typed, Once, Next, NEW i \in Ids
    PROVE  /\ ~IsNew(i) => session'[i].status # "none"
           /\ IsNew(i) => \/ session'[i].status = "none"
                          \/ \E t \in Starters : /\ Starts(t) /\ thread[t].item.id = i
                                                 /\ thread'[t].pc \in {"track", "add"}
<1>0. SessionTyped
  BY DEF Typed
<1>1. CASE session' = session
  BY <1>1 DEF IsNew
<1>2. CASE Pause
  BY <1>2 DEF Pause, Active, Ids, IsNew
<1>3. ASSUME NEW ids \in SUBSET AllActive, session' = MarkPending(ids)
      PROVE  session'[i].status = session[i].status
  BY <1>0, <1>3, SessionFields
<1>4. ASSUME NEW j \in Ids, session' = Ended(j), ~IsNew(j)
      PROVE  /\ ~IsNew(i) => session'[i].status # "none"
             /\ IsNew(i) => session'[i].status = "none"
  BY <1>0, <1>4, SessionFields DEF IsNew
<1>5. ASSUME NEW j \in Ids, j \in AllActive PROVE ~IsNew(j)
  BY <1>5 DEF AllActive, Active, IsNew
<1>6. ASSUME NEW j \in Ids, NEW t \in Closers, thread[t].todo # <<>>,
             j = Head(thread[t].todo)
      PROVE  ~IsNew(j)
  <2>1. thread[t].todo \in Seq(Ids)
    BY Places DEF Typed, ThreadTyped, Locals
  <2>2. j = thread[t].todo[1] /\ 1 \in 1..Len(thread[t].todo)
    BY <1>6, <2>1
  <2> QED BY <2>2 DEF Once, Begun
<1>7. ASSUME NEW t \in Starters, (Attach(t) /\ Refuse(t)) \/ Create(t)
      PROVE  /\ i # thread[t].item.id => session'[i] = session[i]
             /\ i = thread[t].item.id => session'[i].status # "none"
             /\ Starts(t) /\ thread'[t].pc \in {"track", "add"}
  <2>1. thread[t].pc \in StartPcs /\ Starts(t)
    BY <1>7 DEF Attach, Create, StartPcs, Starts, Starters
  <2>2. /\ i # thread[t].item.id => session'[i] = session[i]
        /\ i = thread[t].item.id => session'[i].status # "none"
    BY <1>7, <2>1, StartFields
  <2>3. thread' = [thread EXCEPT ![t] = Started(t)]
    BY <1>7 DEF Attach, Create, Refuse
  <2>4. DOMAIN thread = Thread /\ t \in Thread
    BY Places DEF Typed, ThreadTyped
  <2>5. thread'[t].pc \in {"track", "add"}
    BY <2>3, <2>4 DEF Started, At
  <2> QED BY <2>1, <2>2, <2>5
<1> QED BY <1>1, <1>2, <1>3, <1>4, <1>5, <1>6, <1>7, SessionMoves DEF IsNew

\* Which threads are starting an item after a step: those that were, and the one
\* that has just taken the head of the queue.
LEMMA StartersAfter ==
    ASSUME Typed, Next, NEW t \in Starters, thread'[t].pc \in StartPcs
    PROVE  \/ thread[t].pc \in StartPcs /\ thread'[t].item = thread[t].item
           \/ t = "input" /\ Add
           \/ t = "loop" /\ Advance
<1>0. t \in Thread /\ "input" \in Thread /\ "loop" \in Thread /\ t \in {"input", "loop"}
  BY Places DEF Thread, Starters
<1>1. CASE thread'[t] = thread[t]
  BY <1>1
<1>2. CASE Inputs
  BY <1>0, <1>1, <1>2, InputMoves, InputFields DEF Inputs, StartPcs
<1>3. CASE Loops
  BY <1>0, <1>1, <1>3, LoopMoves DEF Loops, StartPcs
<1>4. CASE EventSteps \/ Monitoring \/ Still
  BY <1>0, <1>1, <1>4, EventMoves, MonitorMoves, StillSteps DEF EventSteps, Monitoring, Still
<1>5. ASSUME NEW u \in Starters, Start(u)
      PROVE  thread[t].pc \in StartPcs /\ thread'[t].item = thread[t].item
  BY <1>0, <1>5, StartMoves DEF Start, StartPcs
<1>6. ASSUME NEW u \in Closers, Boundary(u)
      PROVE  thread[t].pc \in StartPcs /\ thread'[t].item = thread[t].item
  BY <1>0, <1>6, BoundaryStepMoves DEF ClosePcs, StartPcs
<1> QED BY <1>2, <1>3, <1>4, <1>5, <1>6, Steps

\* What the threads that close a cycle still have to end.
LEMMA TodosAfter ==
    ASSUME Typed, Next, NEW t \in Closers
    PROVE  \/ thread'[t].todo = thread[t].todo
           \/ thread'[t].todo = <<>>
           \/ /\ Collect(t)
              /\ thread'[t].todo = SetToSeq(Pending("CHAT")) \o SetToSeq(Pending("WORK"))
           \/ /\ EndOne(t) /\ thread[t].todo # <<>>
              /\ thread'[t].todo = Tail(thread[t].todo)
<1>0. t \in Thread /\ t \in {"loop", "bus"}
  BY Places DEF Thread, Closers
<1>1. CASE Inputs \/ Monitoring \/ Still
  BY <1>0, <1>1, InputMoves, MonitorMoves, StillSteps DEF Inputs, Monitoring, Still
<1>2. CASE Loops
  BY <1>0, <1>2, LoopMoves, AdvanceFields DEF Loops
<1>3. CASE EventSteps
  BY <1>0, <1>3, EventMoves DEF EventSteps
<1>4. ASSUME NEW u \in Starters, Start(u) PROVE thread'[t].todo = thread[t].todo
  BY <1>0, <1>4, StartMoves DEF Start
<1>5. ASSUME NEW u \in Closers, Boundary(u)
      PROVE  \/ thread'[t].todo = thread[t].todo
             \/ thread'[t].todo = <<>>
             \/ /\ Collect(t)
                /\ thread'[t].todo = SetToSeq(Pending("CHAT")) \o SetToSeq(Pending("WORK"))
             \/ /\ EndOne(t) /\ thread[t].todo # <<>>
                /\ thread'[t].todo = Tail(thread[t].todo)
  <2>1. u # t => thread'[t] = thread[t]
    BY <1>0, <1>5, BoundaryStepMoves
  <2>2. EndOne(u) => thread[u].todo # <<>>
    BY DEF EndOne
  <2> QED BY <1>5, <2>1, <2>2, BoundaryStepMoves
<1> QED BY <1>1, <1>2, <1>3, <1>4, <1>5, Steps
\* A queue that was clean before the step is, if what the step starts is not in it.
LEMMA CleanMoves ==
    ASSUME Typed, Once, Next, NEW next, Clean(mgr'.queue, next), next = mgr'.nextId,
           \A t \in Starters : thread'[t].pc \in StartPcs =>
              \/ thread[t].pc \in StartPcs /\ thread'[t].item = thread[t].item
              \/ /\ thread'[t].item.id < next
                 /\ thread'[t].item.id \notin QueuedIds(mgr'.queue)
    PROVE  Clean(mgr.queue, mgr.nextId)'
<1>0. \A t \in Starters : Starts(t) <=> thread[t].pc \in StartPcs
  BY DEF Starts, Starters, StartPcs
<1>00. \A t \in Starters : Starts(t)' <=> thread'[t].pc \in StartPcs
  BY DEF Starts, Starters, StartPcs
<1>1. \A i \in Ids : i >= next \/ i \in QueuedIds(mgr'.queue) => IsNew(i)'
  <2> SUFFICES ASSUME NEW i \in Ids, i >= next \/ i \in QueuedIds(mgr'.queue)
               PROVE  session'[i].status = "none"
    BY DEF IsNew
  <2>1. IsNew(i)
    BY DEF Clean
  <2>2. ASSUME NEW t \in Starters, Starts(t), thread[t].item.id = i PROVE FALSE
    <3>1. thread[t].item.id < next /\ thread[t].item.id \notin QueuedIds(mgr'.queue)
      BY <2>2 DEF Clean
    <3>2. next \in Nat /\ i \in Nat
      BY DEF Clean, Ids
    <3> QED BY <2>2, <3>1, <3>2
  <2> QED BY <2>1, <2>2, Statuses
<1>2. \A t \in Starters : Starts(t)' => /\ thread'[t].item.id < next
                                        /\ thread'[t].item.id \notin QueuedIds(mgr'.queue)
  BY <1>0, <1>00 DEF Clean
<1> QED BY <1>1, <1>2 DEF Clean, IsNew, QueuedIds

LEMMA CleanKept ==
    ASSUME Typed, Once, Next
    PROVE  Clean(mgr.queue, mgr.nextId)'
<1>0. Clean(mgr.queue, mgr.nextId) /\ Underway /\ Starters = {"input", "loop"}
  BY DEF Once, Starters
<1>1. CASE Add
  <2>1. PICK wish \in Wishes, n \in Manager, item \in Item,
             k \in 1..(Len(mgr.queue) + 1) :
          /\ item.id = mgr.nextId /\ n.nextId = mgr.nextId + 1
          /\ n.queue = InsertAt(mgr.queue, k, item) /\ n.queue # <<>>
          /\ mgr'.nextId = n.nextId
          /\ thread["input"].todo \in Seq(Wishes) /\ thread["input"].todo # <<>>
          /\ \/ mgr'.queue = n.queue /\ thread'["input"].pc = "add"
             \/ /\ mgr'.queue = Tail(n.queue) /\ thread'["input"].pc = "setState"
                /\ thread'["input"].item = Head(n.queue)
    BY <1>1, AddFields
  <2>2. mgr.nextId <= MaxItems
    <3>1. Len(thread["input"].todo) \in Nat /\ Len(thread["input"].todo) > 0
      BY <2>1
    <3> QED BY <3>1, MaxItemsAssumption DEF Typed, QueueTyped, Fits
  <2>3. Clean(n.queue, n.nextId)
    BY <1>0, <2>1, <2>2, CleanInsert
  <2>4. ASSUME NEW t \in Starters, t # "input", thread'[t].pc \in StartPcs
        PROVE  thread[t].pc \in StartPcs /\ thread'[t].item = thread[t].item
    <3>1. thread'[t] = thread[t]
      BY <1>1, <2>4, Places, InputMoves
    <3> QED BY <2>4, <3>1
  <2>5. CASE mgr'.queue = n.queue /\ thread'["input"].pc = "add"
    BY <2>1, <2>3, <2>4, <2>5, CleanMoves DEF StartPcs
  <2>6. CASE /\ mgr'.queue = Tail(n.queue) /\ thread'["input"].pc = "setState"
             /\ thread'["input"].item = Head(n.queue)
    <3>1. /\ Clean(Tail(n.queue), n.nextId)
          /\ Head(n.queue).id < n.nextId /\ Head(n.queue).id \notin QueuedIds(Tail(n.queue))
      BY <2>1, <2>3, CleanTail
    <3> QED BY <2>1, <2>4, <2>6, <3>1, CleanMoves
  <2> QED BY <2>1, <2>5, <2>6
<1>2. CASE Advance
  <2>1. mgr'.nextId = mgr.nextId
    BY <1>2, AdvanceFields
  <2>2. ASSUME NEW t \in Starters, t # "loop", thread'[t].pc \in StartPcs
        PROVE  thread[t].pc \in StartPcs /\ thread'[t].item = thread[t].item
    <3>1. thread'[t] = thread[t]
      BY <1>2, <2>2, Places, LoopMoves
    <3> QED BY <2>2, <3>1
  <2>3. CASE /\ mgr.queue # <<>> /\ mgr'.queue = Tail(mgr.queue)
             /\ thread'["loop"].item = Head(mgr.queue)
    <3>1. /\ Clean(Tail(mgr.queue), mgr.nextId)
          /\ Head(mgr.queue).id < mgr.nextId
          /\ Head(mgr.queue).id \notin QueuedIds(Tail(mgr.queue))
      BY <1>0, <2>3, CleanTail
    <3> QED BY <2>1, <2>2, <2>3, <3>1, CleanMoves
  <2>4. CASE mgr'.queue = mgr.queue /\ thread'["loop"].pc = "track"
    BY <1>0, <2>1, <2>2, <2>4, CleanMoves DEF StartPcs
  <2> QED BY <1>2, <2>3, <2>4, AdvanceFields
<1>3. CASE ~Add /\ ~Advance
  <2>1. mgr'.queue = mgr.queue /\ mgr'.nextId = mgr.nextId
    BY <1>3, QueueMoves
  <2> QED BY <1>0, <1>3, <2>1, StartersAfter, CleanMoves
<1> QED BY <1>1, <1>2, <1>3

LEMMA UnderwayKept ==
    ASSUME Typed, Once, Next
    PROVE  Underway'
<1>0. /\ Clean(mgr.queue, mgr.nextId) /\ Underway /\ Starters = {"input", "loop"}
      /\ \A t \in Starters : Starts(t) <=> thread[t].pc \in StartPcs
      /\ \A t \in Starters : Starts(t)' <=> thread'[t].pc \in StartPcs
  BY DEF Once, Starters, Starts, StartPcs
  \* A thread that is still starting its item finds it new.
<1>1. ASSUME NEW t \in Starters, thread[t].pc \in StartPcs, thread'[t].pc \in StartPcs,
             thread'[t].item = thread[t].item
      PROVE  thread'[t].item.id \in Ids /\ session'[thread'[t].item.id].status = "none"
  <2>1. thread[t].item.id \in Ids /\ IsNew(thread[t].item.id)
    BY <1>0, <1>1 DEF Underway
  <2>2. ASSUME NEW u \in Starters, Starts(u), thread[u].item.id = thread[t].item.id,
               thread'[u].pc \in {"track", "add"}
        PROVE  FALSE
    <3>1. u # t
      BY <1>1, <2>2 DEF StartPcs
    <3> QED BY <1>0, <1>1, <2>2, <3>1 DEF Underway
  <2> QED BY <1>1, <2>1, <2>2, Statuses
\* So does one that has just taken it from the queue.
<1>2. CASE Add
  <2>1. PICK wish \in Wishes, n \in Manager, item \in Item,
             k \in 1..(Len(mgr.queue) + 1) :
          /\ item.id = mgr.nextId /\ n.nextId = mgr.nextId + 1
          /\ n.queue = InsertAt(mgr.queue, k, item) /\ n.queue # <<>>
          /\ thread["input"].todo \in Seq(Wishes) /\ thread["input"].todo # <<>>
          /\ \/ thread'["input"].pc = "add"
             \/ thread'["input"].item = Head(n.queue)
    BY <1>2, AddFields
  <2>2. mgr.nextId <= MaxItems
    <3>1. Len(thread["input"].todo) \in Nat /\ Len(thread["input"].todo) > 0
      BY <2>1
    <3> QED BY <3>1, MaxItemsAssumption DEF Typed, QueueTyped, Fits
  <2>3. Clean(n.queue, n.nextId)
    BY <1>0, <2>1, <2>2, CleanInsert
  <2>4. /\ Head(n.queue).id \in Ids /\ IsNew(Head(n.queue).id)
        /\ \A t \in Starters : Starts(t) => thread[t].item.id # Head(n.queue).id
    BY <2>1, <2>3, CleanTail
  <2>5. session' = session /\ thread'["loop"] = thread["loop"]
    BY <1>2, InputMoves DEF Add, sessionVars, Thread
  <2>6. CASE thread'["input"].pc = "add"
    BY <1>0, <1>1, <2>5, <2>6 DEF Underway, StartPcs, IsNew
  <2>7. CASE thread'["input"].item = Head(n.queue)
    BY <1>0, <1>1, <2>4, <2>5, <2>7 DEF Underway, IsNew
  <2> QED BY <2>1, <2>6, <2>7
<1>3. CASE Advance
  <2>1. session' = session /\ thread'["input"] = thread["input"]
    BY <1>3, LoopMoves DEF Advance, sessionVars, Thread
  <2>2. CASE mgr.queue # <<>> /\ thread'["loop"].item = Head(mgr.queue)
    <3>1. /\ Head(mgr.queue).id \in Ids /\ IsNew(Head(mgr.queue).id)
          /\ \A t \in Starters : Starts(t) => thread[t].item.id # Head(mgr.queue).id
      BY <1>0, <2>2, CleanTail
    <3> QED BY <1>0, <1>1, <2>1, <2>2, <3>1 DEF Underway, IsNew
  <2>3. CASE thread'["loop"].pc = "track"
    BY <1>0, <1>1, <2>1, <2>3 DEF Underway, StartPcs, IsNew
  <2> QED BY <1>3, <2>2, <2>3, AdvanceFields
<1>4. CASE ~Add /\ ~Advance
  <2>1. ASSUME NEW t \in Starters, thread'[t].pc \in StartPcs
        PROVE  thread[t].pc \in StartPcs /\ thread'[t].item = thread[t].item
    BY <1>4, <2>1, StartersAfter
  <2> QED BY <1>0, <1>1, <2>1 DEF Underway, IsNew
<1> QED BY <1>2, <1>3, <1>4

LEMMA BegunKept ==
    ASSUME Typed, Once, Next, NEW t \in Closers
    PROVE  Begun(thread[t].todo)'
<1>0. /\ thread[t].todo \in Seq(Ids) /\ Begun(thread[t].todo)
      /\ \A i \in Ids : ~IsNew(i) => ~IsNew(i)'
  BY Places, Statuses DEF Typed, ThreadTyped, Locals, Once, IsNew
<1>1. CASE thread'[t].todo = thread[t].todo
  BY <1>0, <1>1 DEF Begun
<1>2. CASE thread'[t].todo = <<>>
  BY <1>2 DEF Begun
<1>3. CASE /\ Collect(t)
           /\ thread'[t].todo = SetToSeq(Pending("CHAT")) \o SetToSeq(Pending("WORK"))
  <2>1. Pending("CHAT") \in SUBSET Ids /\ Pending("WORK") \in SUBSET Ids
    BY DEF Pending, Active, Ids
  <2>2. PICK S \in SUBSET Ids : S = Pending("CHAT") \cup Pending("WORK")
    BY <2>1
  <2>3. SetToSeq(Pending("CHAT")) \in Seq(S) /\ SetToSeq(Pending("WORK")) \in Seq(S)
    <3>1. /\ SetToSeq(Pending("CHAT")) \in Seq(Pending("CHAT"))
          /\ SetToSeq(Pending("WORK")) \in Seq(Pending("WORK"))
      BY <2>1, ListedIds
    <3> QED BY <2>2, <3>1
  <2>4. thread'[t].todo \in Seq(S)
    BY <1>3, <2>3, ConcatProperties
  <2>5. \A i \in S : ~IsNew(i)
    BY <2>2 DEF Pending, Active, IsNew
  <2> QED BY <1>0, <2>4, <2>5 DEF Begun
<1>4. CASE thread[t].todo # <<>> /\ thread'[t].todo = Tail(thread[t].todo)
  <2>1. PICK todo \in Seq(Ids) : todo = thread[t].todo /\ todo # <<>>
    BY <1>0, <1>4
  <2>2. \A k \in 1..Len(Tail(todo)) : k + 1 \in 1..Len(todo) /\ Tail(todo)[k] = todo[k + 1]
    BY <2>1
  <2> QED BY <1>0, <1>4, <2>1, <2>2 DEF Begun
<1> QED BY <1>1, <1>2, <1>3, <1>4, TodosAfter

LEMMA OnceStep == Typed /\ Once /\ [Next]_vars => Once'
<1> SUFFICES ASSUME Typed, Once, [Next]_vars PROVE Once'
  OBVIOUS
<1>1. CASE Next
  BY <1>1, CleanKept, UnderwayKept, BegunKept DEF Once
<1>2. CASE UNCHANGED vars
  BY <1>2 DEF vars, sessionVars, Once, Clean, Underway, Begun, IsNew, QueuedIds, Starts
<1> QED BY <1>1, <1>2

LEMMA InitOnce == Init => Once
<1> SUFFICES ASSUME Init PROVE Once
  OBVIOUS
<1>1. mgr.queue = <<>> /\ mgr.nextId = 1
  BY DEF Init, FreshManager
<1>2. \A t \in Thread : thread[t].pc = "idle" /\ thread[t].todo = <<>>
  BY DEF Init, At
<1>3. ~Starts("input") /\ ~Starts("loop")
  BY <1>2 DEF Starts, Thread
<1>4. \A i \in Ids : IsNew(i)
  BY DEF Init, NoSession, IsNew, Ids
<1>5. Clean(mgr.queue, mgr.nextId)
  BY <1>1, <1>3, <1>4, MaxItemsAssumption DEF Clean, Distinct, IdsBelow, Starters
<1> QED BY <1>2, <1>3, <1>5 DEF Once, Underway, Begun, Starters, Closers, Thread

\* An item is started by one thread only, and neither while it waits nor when its
\* session has ended, whatever the threads do in between.
THEOREM StartsOnce == Spec => []StartedOnce
<1>1. Typed /\ Once => StartedOnce
  <2> SUFFICES ASSUME Typed, Once, NEW t \in Thread, Starts(t)
               PROVE  /\ \A u \in Thread \ {t} : Starts(u) =>
                             thread[u].item # thread[t].item
                      /\ thread[t].item \notin Range(mgr.queue)
                      /\ session[thread[t].item.id].status = "none"
    BY DEF StartedOnce
  <2>1. \A u \in Thread : Starts(u) => u \in Starters
    <3> SUFFICES ASSUME NEW u \in Thread, Starts(u) PROVE u \in Starters
      OBVIOUS
    <3>1. thread[u].pc \in Pcs(u)
      BY DEF Typed, ThreadTyped, Locals
    <3> QED BY <3>1 DEF Starts, Pcs, Thread, Starters, ClosePcs
  <2>2. t \in Starters /\ Starters = {"input", "loop"}
    BY <2>1 DEF Starters
  <2>3. session[thread[t].item.id].status = "none"
    BY <2>2 DEF Once, Underway, IsNew
  <2>4. \A u \in Thread \ {t} : Starts(u) => thread[u].item # thread[t].item
    BY <2>1, <2>2 DEF Once, Underway
  <2>5. thread[t].item \notin Range(mgr.queue)
    BY <2>2 DEF Once, Clean, QueuedIds, ToSet, Range
  <2> QED BY <2>3, <2>4, <2>5
<1> QED BY <1>1, InitTyped, TypedStep, InitOnce, OnceStep, PTL DEF Spec
-----------------------------------------------------------------------------
(* Whose session completes an item.  The active session is the current     *)
(* item's, and what completes the item, an end or an interruption in the   *)
(* bus's queue, stands there once and only when the item's session is over,*)
(* until a session that is over is ended or interrupted once more.         *)

Completes(e) == e.type = "ENDED" \/ (e.type = "INPUT" /\ e.control)
NoCompleter(b) == \A k \in 1..Len(b) : ~Completes(b[k])
OneCompleter(b) == \A j, k \in 1..Len(b) : Completes(b[j]) /\ Completes(b[k]) => j = k

Over == \E i \in Ids : /\ mgr.currentItem.id = i
                       /\ session[i].status \in {"paused", "completed", "failed"}

Completing ==
    /\ \A i \in AllActive : mgr.currentItem.id = i
    /\ OneCompleter(bus)
    /\ NoCompleter(bus) \/ Over

\* An item being started is the current one.
Placing == \A t \in Starters : thread[t].pc \in StartPcs => thread[t].item = mgr.currentItem

\* An interruption that has paused its chat is the only completer to come.
Interrupting ==
    thread["input"].control =>
        /\ thread["input"].pc \in {"pause", "add"}
        /\ thread["input"].pc = "add" => NoCompleter(bus) /\ Over

Orderly == Completing /\ Placing /\ Interrupting

\* A step adds no completer to an item whose session is over.
OverKept == NoCompleter(bus) /\ Over => NoCompleter(bus') /\ Over'

\* The bus's queue.
LEMMA CompletersAppended ==
    ASSUME NEW b \in Seq(BusEvent), NEW e \in BusEvent
    PROVE  /\ NoCompleter(b) /\ ~Completes(e) => NoCompleter(Append(b, e))
           /\ OneCompleter(b) /\ ~Completes(e) => OneCompleter(Append(b, e))
           /\ NoCompleter(b) => OneCompleter(Append(b, e))
<1>1. PICK c \in Seq(BusEvent) : c = Append(b, e)
  BY AppendProperties
<1>2. /\ Len(b) \in Nat /\ Len(c) = Len(b) + 1 /\ c[Len(b) + 1] = e
      /\ \A k \in 1..Len(b) : c[k] = b[k]
  BY <1>1, AppendProperties
<1>3. \A k \in 1..Len(c) : k = Len(b) + 1 \/ k \in 1..Len(b)
  BY <1>2
<1>4. NoCompleter(b) /\ ~Completes(e) => NoCompleter(c)
  BY <1>2, <1>3 DEF NoCompleter
<1>5. OneCompleter(b) /\ ~Completes(e) => OneCompleter(c)
  BY <1>2, <1>3 DEF OneCompleter
<1>6. NoCompleter(b) => OneCompleter(c)
  BY <1>2, <1>3 DEF NoCompleter, OneCompleter
<1> QED BY <1>1, <1>4, <1>5, <1>6

LEMMA CompletersTaken ==
    ASSUME NEW b \in Seq(BusEvent), b # <<>>
    PROVE  /\ NoCompleter(b) => NoCompleter(Tail(b)) /\ ~Completes(Head(b))
           /\ OneCompleter(b) => OneCompleter(Tail(b))
           /\ OneCompleter(b) /\ Completes(Head(b)) => NoCompleter(Tail(b))
<1>1. PICK c \in Seq(BusEvent) : c = Tail(b)
  BY HeadTailProperties
<1>2. /\ Len(b) \in Nat /\ Len(c) = Len(b) - 1 /\ Head(b) = b[1] /\ 1 \in 1..Len(b)
      /\ \A k \in 1..Len(c) : k + 1 \in 1..Len(b) /\ c[k] = b[k + 1]
  BY <1>1
<1>3. /\ \A j, k \in 1..Len(c) : j + 1 = k + 1 => j = k
      /\ \A k \in 1..Len(c) : k + 1 # 1
  BY <1>2
<1>4. NoCompleter(b) => NoCompleter(c) /\ ~Completes(Head(b))
  BY <1>2 DEF NoCompleter
<1>5. OneCompleter(b) => OneCompleter(c)
  <2> SUFFICES ASSUME OneCompleter(b), NEW j \in 1..Len(c), NEW k \in 1..Len(c),
                      Completes(c[j]), Completes(c[k])
               PROVE  j = k
    BY DEF OneCompleter
  <2>1. Completes(b[j + 1]) /\ Completes(b[k + 1]) /\ j + 1 \in 1..Len(b) /\ k + 1 \in 1..Len(b)
    BY <1>2
  <2>2. j + 1 = k + 1
    BY <2>1 DEF OneCompleter
  <2> QED BY <1>3, <2>2
<1>6. OneCompleter(b) /\ Completes(Head(b)) => NoCompleter(c)
  <2> SUFFICES ASSUME OneCompleter(b), Completes(Head(b)), NEW k \in 1..Len(c),
                      Completes(c[k])
               PROVE  FALSE
    BY DEF NoCompleter
  <2>1. Completes(b[1]) /\ Completes(b[k + 1]) /\ k + 1 \in 1..Len(b) /\ 1 \in 1..Len(b)
    BY <1>2
  <2>2. 1 = k + 1
    BY <2>1 DEF OneCompleter
  <2> QED BY <1>3, <2>2
<1> QED BY <1>1, <1>4, <1>5, <1>6

\* What follows from Completing.
LEMMA CompletingFacts ==
    ASSUME Completing
    PROVE  /\ AllActive # {} => NoCompleter(bus)
           /\ mgr.currentItem = NoItem => AllActive = {} /\ NoCompleter(bus)
           /\ Over => AllActive = {}
           /\ Over => mgr.currentItem # NoItem
<1>1. Over => AllActive = {}
  BY DEF Completing, Over, AllActive, Active
<1>2. mgr.currentItem = NoItem => ~Over
  BY DEF Over, NoItem, Ids
<1>3. mgr.currentItem = NoItem => AllActive = {}
  BY DEF Completing, NoItem, AllActive, Active
<1> QED BY <1>1, <1>2, <1>3 DEF Completing

\* Marks, and what else leaves status and kind alone, leave who is active alone.
SameStatus == \A i \in Ids : /\ session'[i].status = session[i].status
                            /\ session'[i].kind = session[i].kind

LEMMA ActiveSame ==
    ASSUME SameStatus
    PROVE  /\ AllActive' = AllActive /\ Active("CHAT")' = Active("CHAT")
           /\ Active("WORK")' = Active("WORK")
           /\ mgr'.currentItem = mgr.currentItem => (Over' <=> Over)
BY DEF SameStatus, AllActive, Active, Over, Ids

LEMMA MarksSame ==
    ASSUME SessionTyped, \/ session' = session
                         \/ \E ids : session' = MarkPending(ids)
    PROVE  SameStatus
BY SessionFields DEF SameStatus

\* Completing outlives a step that changes neither item nor statuses and adds
\* nothing that completes.
LEMMA CompletingSame ==
    ASSUME Typed, Completing, SameStatus, mgr'.currentItem = mgr.currentItem,
           \/ bus' = bus
           \/ bus # <<>> /\ bus' = Tail(bus)
           \/ \E e \in BusEvent : ~Completes(e) /\ bus' = Append(bus, e)
           \/ bus # <<>> /\ \E e \in BusEvent : ~Completes(e) /\ bus' = Append(Tail(bus), e)
    PROVE  Completing' /\ (NoCompleter(bus) => NoCompleter(bus'))
<1>0. bus \in Seq(BusEvent)
  BY DEF Typed, BusTyped
<1>1. OneCompleter(bus') /\ (NoCompleter(bus) => NoCompleter(bus'))
  <2>1. PICK rest : rest = Tail(bus)
    OBVIOUS
  <2>2. bus # <<>> => /\ rest \in Seq(BusEvent) /\ OneCompleter(rest)
                      /\ (NoCompleter(bus) => NoCompleter(rest))
    BY <1>0, <2>1, FirstEvent, CompletersTaken DEF Completing
  <2>3. OneCompleter(bus)
    BY DEF Completing
  <2>4. CASE bus' = bus
    BY <2>3, <2>4
  <2>5. CASE bus # <<>> /\ bus' = Tail(bus)
    BY <2>1, <2>2, <2>5
  <2>6. ASSUME NEW e \in BusEvent, ~Completes(e), bus' = Append(bus, e)
        PROVE  OneCompleter(bus') /\ (NoCompleter(bus) => NoCompleter(bus'))
    BY <1>0, <2>3, <2>6, CompletersAppended
  <2>7. ASSUME NEW e \in BusEvent, ~Completes(e), bus # <<>>, bus' = Append(Tail(bus), e)
        PROVE  OneCompleter(bus') /\ (NoCompleter(bus) => NoCompleter(bus'))
    BY <2>1, <2>2, <2>7, CompletersAppended
  <2> QED BY <2>4, <2>5, <2>6, <2>7
<1> QED BY <1>1, ActiveSame DEF Completing

\* So does an item whose session is over.
LEMMA QuietStep ==
    ASSUME Typed, Completing, SameStatus, mgr'.currentItem = mgr.currentItem,
           \/ bus' = bus
           \/ bus # <<>> /\ bus' = Tail(bus)
           \/ \E e \in BusEvent : ~Completes(e) /\ bus' = Append(bus, e)
           \/ bus # <<>> /\ \E e \in BusEvent : ~Completes(e) /\ bus' = Append(Tail(bus), e)
    PROVE  Completing' /\ OverKept
<1>1. Completing' /\ (NoCompleter(bus) => NoCompleter(bus'))
  BY CompletingSame
<1>2. Over' <=> Over
  BY ActiveSame
<1> QED BY <1>1, <1>2 DEF OverKept

\* The completer in front is taken, and the item with it.
LEMMA CompletingTaken ==
    ASSUME Typed, Completing, bus # <<>>, Completes(Head(bus)), bus' = Tail(bus),
           mgr' = Complete(mgr), SameStatus
    PROVE  Completing' /\ NoCompleter(bus') /\ AllActive' = {} /\ Over
<1>0. bus \in Seq(BusEvent) /\ mgr \in Manager
  BY DEF Typed, BusTyped, QueueTyped
<1>1. NoCompleter(bus') /\ OneCompleter(bus') /\ ~NoCompleter(bus)
  BY <1>0, CompletersTaken DEF Completing
<1>2. Over
  BY <1>1 DEF Completing
<1>3. AllActive' = {}
  BY <1>2, ActiveSame, CompletingFacts
<1> QED BY <1>1, <1>2, <1>3 DEF Completing

\* A session ends: its end is the only completer.
LEMMA CompletingEnded ==
    ASSUME Typed, Completing, NEW i \in AllActive, session' = Ended(i),
           bus' = Append(bus, [type |-> "ENDED"]), mgr'.currentItem = mgr.currentItem
    PROVE  Completing' /\ AllActive' = {}
<1>0. /\ bus \in Seq(BusEvent) /\ [type |-> "ENDED"] \in BusEvent /\ i \in Ids
      /\ mgr.currentItem.id = i /\ SessionTyped
  BY Events DEF Typed, BusTyped, AllActive, Active, Ids, Completing
<1>1. OneCompleter(bus')
  BY <1>0, CompletersAppended, CompletingFacts
<1>2. /\ session'[i].status = "completed"
      /\ \A j \in Ids \ {i} : session'[j] = session[j]
  BY <1>0, SessionFields
<1>3. Over'
  BY <1>0, <1>2 DEF Over
<1>4. \A j \in Ids \ {i} : j \notin AllActive
  BY <1>0 DEF Completing
<1>5. AllActive' = {}
  <2> SUFFICES ASSUME NEW j \in AllActive' PROVE FALSE
    OBVIOUS
  <2>1. j \in Ids /\ session'[j].status = "active" /\ session'[j].kind \in Kinds
    BY DEF AllActive, Active, Ids, Kinds
  <2>2. j # i
    BY <1>2, <2>1
  <2>3. session[j].status = "active" /\ session[j].kind \in Kinds
    BY <1>2, <2>1, <2>2
  <2>4. j \in AllActive
    BY <2>1, <2>3 DEF AllActive, Active, Ids, Kinds
  <2> QED BY <1>4, <2>1, <2>2, <2>4
<1> QED BY <1>1, <1>3, <1>5 DEF Completing

\* No session appears but the one being created.
LEMMA ActiveCreated ==
    ASSUME Typed, NEW id \in Ids,
           \A i \in Ids : i # id => session'[i] = session[i]
    PROVE  AllActive' \subseteq AllActive \cup {id}
BY DEF AllActive, Active, Ids

-----------------------------------------------------------------------------
(* The threads' places.                                                    *)

\* The item being started has no session yet, and so is still the current one
\* when the step is over.
LEMMA PlacingKept ==
    ASSUME Typed, Once, Placing, Next,
           \/ mgr'.currentItem = mgr.currentItem
           \/ mgr.currentItem = NoItem
           \/ Over
    PROVE  Placing'
<1> SUFFICES ASSUME NEW t \in Starters, thread'[t].pc \in StartPcs
             PROVE  thread'[t].item = mgr'.currentItem
  BY DEF Placing
<1>1. CASE thread[t].pc \in StartPcs /\ thread'[t].item = thread[t].item
  <2>1. thread[t].item = mgr.currentItem
    BY <1>1 DEF Placing
  <2>2. thread[t].item.id \in Ids /\ IsNew(thread[t].item.id)
    BY <1>1 DEF Once, Underway, Starts, StartPcs, Starters
  <2>3. mgr.currentItem # NoItem /\ ~Over
    BY <2>1, <2>2 DEF NoItem, Ids, Over, IsNew
  <2> QED BY <1>1, <2>1, <2>3
<1>2. CASE t = "input" /\ Add
  BY <1>2, AddFields DEF StartPcs
<1>3. CASE t = "loop" /\ Advance
  BY <1>3, AdvanceFields DEF StartPcs
<1> QED BY <1>1, <1>2, <1>3, StartersAfter

\* An interruption stays where it is or, in add_state, does not start an item.
LEMMA ControlAfter ==
    ASSUME Typed, Next, ~Hear, ~Pause, thread'["input"].control
    PROVE  /\ thread["input"].control
           /\ \/ thread'["input"].pc = thread["input"].pc
              \/ thread["input"].pc \in StartPcs
              \/ Add /\ mgr.currentItem = NoItem
<1>0. "input" \in Thread /\ "input" \notin Closers
  BY DEF Thread, Closers
<1>1. CASE thread'["input"] = thread["input"]
  BY <1>1
<1>2. CASE Inputs
  <2>1. CASE Add
    BY <2>1, AddFields
  <2>2. CASE PublishInput
    BY <2>2, InputFields
  <2> QED BY <1>2, <2>1, <2>2 DEF Inputs
<1>3. CASE Loops \/ EventSteps \/ Monitoring \/ Still
  BY <1>0, <1>1, <1>3, LoopMoves, EventMoves, MonitorMoves, StillSteps
     DEF Loops, EventSteps, Monitoring, Still
<1>4. ASSUME NEW t \in Starters, Start(t)
      PROVE  \/ thread'["input"] = thread["input"]
             \/ thread["input"].pc \in StartPcs /\ thread["input"].control
  BY <1>0, <1>4, StartMoves DEF Start
<1>5. ASSUME NEW t \in Closers, Boundary(t) PROVE thread'["input"] = thread["input"]
  BY <1>0, <1>5, BoundaryStepMoves
<1> QED BY <1>1, <1>2, <1>3, <1>4, <1>5, Steps

LEMMA InterruptingKept ==
    ASSUME Typed, Orderly, Next, ~Hear, ~Pause, OverKept
    PROVE  Interrupting'
<1> SUFFICES ASSUME thread'["input"].control
             PROVE  /\ thread'["input"].pc \in {"pause", "add"}
                    /\ thread'["input"].pc = "add" => NoCompleter(bus') /\ Over'
  BY DEF Interrupting
<1>1. /\ thread["input"].control /\ thread["input"].pc \in {"pause", "add"}
      /\ thread["input"].pc = "add" => NoCompleter(bus) /\ Over
  BY ControlAfter DEF Orderly, Interrupting
<1>2. ~(Add /\ mgr.currentItem = NoItem)
  <2> SUFFICES ASSUME Add, mgr.currentItem = NoItem PROVE FALSE
    OBVIOUS
  <2>1. Over
    BY <1>1 DEF Add
  <2> QED BY <2>1, CompletingFacts DEF Orderly
<1>3. thread'["input"].pc = thread["input"].pc
  BY <1>1, <1>2, ControlAfter DEF StartPcs
<1> QED BY <1>1, <1>3 DEF OverKept

-----------------------------------------------------------------------------
(* The steps.                                                              *)

LEMMA HearOrderly ==
    ASSUME Typed, Orderly, Hear
    PROVE  Completing' /\ OverKept /\ Interrupting'
<1>0. "input" \in Thread /\ DOMAIN thread = Thread /\ Completing
  BY DEF Thread, Typed, ThreadTyped, Orderly
<1>1. session' = session /\ mgr' = mgr /\ bus' = bus
  BY DEF Hear, sessionVars
<1>2. Completing' /\ OverKept
  <2>1. SameStatus
    BY <1>1 DEF SameStatus
  <2> QED BY <1>0, <1>1, <2>1, QuietStep
<1>3. PICK plan \in Plans, interrupts \in BOOLEAN :
        thread' = [thread EXCEPT !["input"] = [At(IF interrupts THEN "pause" ELSE "add")
                         EXCEPT !.todo = plan, !.control = interrupts]]
  BY DEF Hear
<1>4. /\ thread'["input"].pc = IF interrupts THEN "pause" ELSE "add"
      /\ thread'["input"].control = interrupts
  BY <1>0, <1>3 DEF At
<1>5. Interrupting'
  BY <1>4 DEF Interrupting
<1> QED BY <1>2, <1>5

\* The pause is over the chat that the completer will complete.
LEMMA PauseOrderly ==
    ASSUME Typed, Orderly, Pause, Active("CHAT") # {}
    PROVE  Completing' /\ Interrupting' /\ mgr'.currentItem = mgr.currentItem
<1>0. Completing /\ SessionTyped
  BY DEF Typed, Orderly
<1>1. /\ mgr' = mgr /\ bus' = bus
      /\ session' = [i \in Ids |-> IF i \in Active("CHAT")
            THEN [session[i] EXCEPT !.status = "paused"] ELSE session[i]]
  BY DEF Pause, Ids
<1>2. PICK i \in Active("CHAT") : mgr.currentItem.id = i /\ i \in Ids
  BY <1>0 DEF Completing, AllActive, Active, Ids
<1>3. NoCompleter(bus)
  BY <1>0, <1>2, CompletingFacts DEF AllActive
<1>4. ASSUME NEW j \in Ids
      PROVE  /\ j \in Active("CHAT") => session'[j].status = "paused"
             /\ j \notin Active("CHAT") => session'[j] = session[j]
  <2>1. session[j] \in Session
    BY <1>0 DEF SessionTyped
  <2> QED BY <1>1, <2>1 DEF Session
<1>5. Over'
  BY <1>1, <1>2, <1>4 DEF Over
<1>6. AllActive' = {}
  <2> SUFFICES ASSUME NEW j \in AllActive' PROVE FALSE
    OBVIOUS
  <2>1. j \in Ids /\ session'[j].status = "active" /\ session'[j].kind \in Kinds
    BY DEF AllActive, Active, Ids, Kinds
  <2>2. session'[j] = session[j] /\ j \notin Active("CHAT")
    BY <1>4, <2>1
  <2>3. j \in AllActive
    BY <2>1, <2>2 DEF AllActive, Active, Ids, Kinds
  <2>4. mgr.currentItem.id = j
    BY <1>0, <2>3 DEF Completing
  <2> QED BY <1>2, <2>2, <2>4
<1>7. Completing'
  BY <1>0, <1>1, <1>3, <1>6 DEF Completing
<1>8. Interrupting'
  BY <1>1, <1>3, <1>5, InputFields DEF Interrupting
<1> QED BY <1>1, <1>7, <1>8

\* Only a manager without an item starts one.
LEMMA StartingOrderly ==
    ASSUME Typed, Completing, mgr.currentItem = NoItem, SameStatus,
           \/ bus' = bus
           \/ \E e \in BusEvent : ~Completes(e) /\ bus' = Append(bus, e)
    PROVE  Completing' /\ OverKept
<1>1. AllActive = {} /\ NoCompleter(bus) /\ ~Over /\ bus \in Seq(BusEvent)
  BY CompletingFacts DEF Typed, BusTyped
<1>2. NoCompleter(bus') /\ OneCompleter(bus')
  BY <1>1, CompletersAppended DEF Completing
<1>3. AllActive' = {}
  BY <1>1, ActiveSame
<1> QED BY <1>1, <1>2, <1>3 DEF Completing, OverKept

LEMMA AddOrderly ==
    ASSUME Typed, Orderly, Add
    PROVE  Completing' /\ OverKept
<1>0. Completing /\ session' = session /\ bus' = bus
  BY DEF Add, Orderly, sessionVars
<1>1. SameStatus
  BY <1>0 DEF SameStatus
<1>2. mgr'.currentItem = mgr.currentItem \/ mgr.currentItem = NoItem
  BY AddFields
<1> QED BY <1>0, <1>1, <1>2, QuietStep, StartingOrderly

LEMMA PublishInputOrderly ==
    ASSUME Typed, Orderly, PublishInput
    PROVE  Completing' /\ Interrupting' /\ mgr'.currentItem = mgr.currentItem
<1>0. /\ "input" \in Thread /\ thread["input"].pc = "add" /\ Completing
      /\ bus \in Seq(BusEvent) /\ shown \in Key
      /\ thread["input"] \in Locals("input")
      /\ session' = session /\ mgr' = mgr
      /\ thread["input"].control \in BOOLEAN
  BY KeyTyped DEF Thread, Typed, BusTyped, PublishInput, Orderly, sessionVars,
     ThreadTyped, Locals
<1>1. PICK e \in BusEvent : /\ bus' = Append(bus, e)
                            /\ Completes(e) <=> thread["input"].control
  <2>1. [type |-> "INPUT", key |-> shown, control |-> thread["input"].control] \in BusEvent
    BY <1>0, Events
  <2> QED BY <1>0, <2>1 DEF PublishInput, Completes
<1>2. SameStatus
  BY <1>0 DEF SameStatus
<1>3. Completing'
  <2>1. CASE ~thread["input"].control
    BY <1>0, <1>1, <1>2, <2>1, CompletingSame
  <2>2. CASE thread["input"].control
    <3>1. NoCompleter(bus) /\ Over
      BY <1>0, <2>2 DEF Orderly, Interrupting
    <3>2. OneCompleter(bus') /\ Over' /\ AllActive' = {}
      BY <1>0, <1>1, <1>2, <3>1, CompletersAppended, ActiveSame, CompletingFacts
    <3> QED BY <3>2 DEF Completing
  <2> QED BY <2>1, <2>2
<1>4. Interrupting'
  BY InputFields DEF Interrupting
<1> QED BY <1>0, <1>3, <1>4

\* The item being started is the current one, and has no session before.
LEMMA StartOrderly ==
    ASSUME Typed, Once, Orderly, NEW t \in Starters, Start(t)
    PROVE  Completing' /\ OverKept /\ mgr'.currentItem = mgr.currentItem
<1>0. /\ thread[t].pc \in StartPcs /\ Completing
      /\ thread[t].item = mgr.currentItem
  BY StartMoves DEF Start, Orderly, Placing
<1>1. bus' = bus /\ mgr'.currentItem = mgr.currentItem
  <2>1. CASE MakeGS(t)
    BY <2>1 DEF MakeGS
  <2>2. CASE SetState(t) \/ Attach(t) \/ Create(t)
    <3>1. bus' = bus
      BY <2>2 DEF SetState, Attach, Create
    <3>2. mgr' = mgr \/ \E sm : mgr' = [mgr EXCEPT !.sm = sm]
      BY <2>2 DEF SetState, Attach, Create, Refuse
    <3>3. mgr \in Manager
      BY DEF Typed, QueueTyped
    <3> QED BY <3>1, <3>2, <3>3 DEF Manager
  <2> QED BY <2>1, <2>2 DEF Start
<1>2. CASE session' = session
  <2>1. SameStatus
    BY <1>2 DEF SameStatus
  <2> QED BY <1>0, <1>1, <2>1, QuietStep
<1>3. CASE Refuse(t) \/ Create(t)
  <2>1. PICK id \in Ids : id = thread[t].item.id /\ IsNew(id)
    BY <1>0 DEF Once, Underway, Starts, StartPcs, Starters
  <2>2. mgr.currentItem.id = id /\ ~Over /\ NoCompleter(bus)
    BY <1>0, <2>1 DEF Over, IsNew, Completing
  <2>3. \A i \in Ids : i # id => session'[i] = session[i]
    BY <1>0, <1>3, <2>1, StartFields
  <2>4. AllActive' \subseteq AllActive \cup {id}
    BY <2>3, ActiveCreated
  <2>5. Completing'
    BY <1>0, <1>1, <2>2, <2>4 DEF Completing
  <2> QED BY <1>1, <2>2, <2>5 DEF OverKept
<1> QED BY <1>2, <1>3 DEF Start, SetState, MakeGS, Attach, sessionVars

\* SystemLoop's own steps.
LEMMA LoopOrderly ==
    ASSUME Typed, Orderly, Loops
    PROVE  Completing' /\ OverKept
<1>0. Completing
  BY DEF Orderly
<1>1. SameStatus
  <2>1. session' = session
    BY DEF Loops, Advance, Track, Look, sessionVars
  <2> QED BY <2>1 DEF SameStatus
<1>2. CASE Advance
  <2>1. [type |-> "ADVANCED", key |-> shown] \in BusEvent
        /\ ~Completes([type |-> "ADVANCED", key |-> shown])
    BY KeyTyped, Events DEF Completes
  <2>2. CASE /\ mgr.currentItem = NoItem
             /\ bus' = Append(bus, [type |-> "ADVANCED", key |-> shown])
    BY <1>0, <1>1, <2>1, <2>2, StartingOrderly
  <2>3. CASE mgr'.currentItem = mgr.currentItem /\ bus' = bus
    BY <1>0, <1>1, <2>3, QuietStep
  <2> QED BY <1>2, <2>2, <2>3, AdvanceFields
<1>3. CASE Track \/ Look
  <2>1. mgr' = mgr
    BY <1>3 DEF Track, Look
  <2>2. bus' = bus \/ \E e \in BusEvent : ~Completes(e) /\ bus' = Append(bus, e)
    <3>1. CASE UNCHANGED bus
      BY <3>1
    <3>2. CASE bus' = Append(bus, [type |-> "CYCLE", key |-> [gs |-> gs, cycle |-> cycle]])
      BY <3>2, KeyTyped, Events DEF Completes
    <3> QED BY <1>3, <3>1, <3>2 DEF Track, Look, CompleteCycle
  <2> QED BY <1>0, <1>1, <2>1, <2>2, QuietStep
<1> QED BY <1>2, <1>3 DEF Loops

\* A boundary ends sessions that are active: the current item's.
LEMMA BoundaryOrderly ==
    ASSUME Typed, Orderly, NEW t \in Closers, Boundary(t),
           EndOne(t) => Head(thread[t].todo) \in AllActive
    PROVE  Completing' /\ OverKept /\ mgr'.currentItem = mgr.currentItem
<1>0. Completing
  BY DEF Orderly
<1>1. mgr'.currentItem = mgr.currentItem
  <2>1. mgr \in Manager
    BY DEF Typed, QueueTyped
  <2>2. CASE Judge(t)
    BY <2>1, <2>2, QueueStatusFields DEF Judge
  <2>3. CASE ClearHistory(t)
    BY <2>1, <2>3 DEF ClearHistory, Manager
  <2>4. CASE Collect(t) \/ EndOne(t) \/ EndGS(t)
    BY <2>4 DEF Collect, EndOne, EndGS
  <2> QED BY <2>2, <2>3, <2>4 DEF Boundary
<1>2. CASE EndOne(t)
  <2>1. PICK i \in AllActive : session' = Ended(i)
    BY <1>2 DEF EndOne
  <2>2. Completing' /\ ~Over
    BY <1>0, <1>1, <1>2, <2>1, CompletingEnded, CompletingFacts DEF EndOne
  <2> QED BY <1>1, <2>2 DEF OverKept
<1>3. CASE ~EndOne(t)
  <2>1. session' = session /\ bus' = bus
    BY <1>3 DEF Boundary, Collect, Judge, EndGS, ClearHistory, sessionVars
  <2>2. SameStatus
    BY <2>1 DEF SameStatus
  <2> QED BY <1>0, <1>1, <2>1, <2>2, QuietStep
<1> QED BY <1>2, <1>3

\* An event of the bus completes the item, or leaves it alone.
LEMMA EventCompletes ==
    ASSUME Typed, EventSteps
    PROVE  /\ bus # <<>> /\ SameStatus
           /\ \/ Completes(Head(bus)) /\ bus' = Tail(bus) /\ mgr' = Complete(mgr)
              \/ /\ mgr' = mgr
                 /\ \/ bus' = Tail(bus)
                    \/ \E e \in BusEvent : ~Completes(e) /\ bus' = Append(Tail(bus), e)
<1>1. bus # <<>>
  BY DEF EventSteps, OnSessionEnded, OnInput, OnStateAdvanced, OnProcessing,
     OnOutput, OnCycleCompleted, Taken
<1>2. SameStatus
  <2>1. SessionTyped
    BY DEF Typed
  <2>2. session' = session \/ \E ids : session' = MarkPending(ids)
    BY DEF EventSteps, OnSessionEnded, OnInput, OnStateAdvanced, OnProcessing,
       OnOutput, OnCycleCompleted, EnterProcessing, Process, sessionVars
  <2> QED BY <2>1, <2>2, MarksSame
<1> DEFINE Adds == \E e \in BusEvent : ~Completes(e) /\ bus' = Append(Tail(bus), e)
<1>3. ASSUME NEW t, NEW b, CompleteCycle(t, Tail(bus), b) PROVE Adds
  <2>1. PICK e : e = [type |-> "CYCLE", key |-> [gs |-> gs, cycle |-> cycle]]
    OBVIOUS
  <2>2. e \in BusEvent /\ ~Completes(e)
    BY <2>1, KeyTyped, Events DEF Completes
  <2> QED BY <1>3, <2>1, <2>2 DEF CompleteCycle
<1>4. ASSUME NEW key \in Key, Process(key) PROVE bus' = Tail(bus) \/ Adds
  <2>1. ASSUME NEW ends \in BOOLEAN
        PROVE  /\ [type |-> "PROCESSING", ends |-> ends,
                   key |-> [gs |-> shown.gs, cycle |-> key.cycle]] \in BusEvent
               /\ ~Completes([type |-> "PROCESSING", ends |-> ends,
                             key |-> [gs |-> shown.gs, cycle |-> key.cycle]])
    BY KeyTyped, Events DEF Completes
  <2> QED BY <1>4, <2>1 DEF Process
<1> HIDE DEF Adds
<1>5. CASE OnSessionEnded
  <2>1. Completes(Head(bus)) /\ bus' = Tail(bus) /\ mgr' = Complete(mgr)
    BY <1>5 DEF OnSessionEnded, Taken, Completes
  <2> QED BY <1>1, <1>2, <2>1
<1>6. CASE OnInput \/ OnStateAdvanced
  <2>1. Head(bus).key \in Key
    BY <1>1, <1>6, FirstEvent DEF OnInput, OnStateAdvanced, Taken
  <2>2. \/ mgr' = mgr /\ bus' = Tail(bus)
        \/ Completes(Head(bus)) /\ mgr' = Complete(mgr) /\ bus' = Tail(bus)
        \/ EnterProcessing(Head(bus).key)
    BY <1>6 DEF OnInput, OnStateAdvanced, Taken, Completes
  <2>3. ASSUME EnterProcessing(Head(bus).key)
        PROVE  mgr' = mgr /\ (bus' = Tail(bus) \/ Adds)
    BY <1>3, <1>4, <2>1, <2>3 DEF EnterProcessing, Process
  <2> QED BY <1>1, <1>2, <2>2, <2>3 DEF Adds
<1>7. CASE OnProcessing \/ OnCycleCompleted
  <2>1. mgr' = mgr /\ bus' = Tail(bus)
    BY <1>7 DEF OnProcessing, OnCycleCompleted
  <2> QED BY <1>1, <1>2, <2>1
<1>8. CASE OnOutput
  <2>1. mgr' = mgr /\ (bus' = Tail(bus) \/ Adds)
    BY <1>3, <1>8 DEF OnOutput
  <2> QED BY <1>1, <1>2, <2>1 DEF Adds
<1> QED BY <1>1, <1>2, <1>5, <1>6, <1>7, <1>8 DEF EventSteps

\* The item is given up only by what completes it, when its session is over.
LEMMA EventOrderly ==
    ASSUME Typed, Orderly, EventSteps
    PROVE  /\ Completing' /\ OverKept
           /\ mgr'.currentItem = mgr.currentItem \/ Over
<1>0. Completing /\ bus \in Seq(BusEvent)
  BY DEF Orderly, Typed, BusTyped
<1>1. /\ bus # <<>> /\ SameStatus
      /\ \/ Completes(Head(bus)) /\ bus' = Tail(bus) /\ mgr' = Complete(mgr)
         \/ /\ mgr' = mgr
            /\ \/ bus' = Tail(bus)
               \/ \E e \in BusEvent : ~Completes(e) /\ bus' = Append(Tail(bus), e)
  BY EventCompletes
<1>2. CASE Completes(Head(bus)) /\ bus' = Tail(bus) /\ mgr' = Complete(mgr)
  <2>1. Completing' /\ Over
    BY <1>0, <1>1, <1>2, CompletingTaken
  <2>2. ~NoCompleter(bus)
    BY <1>0, <1>1, <1>2, CompletersTaken
  <2> QED BY <2>1, <2>2 DEF OverKept
<1>3. CASE mgr' = mgr /\ bus' = Tail(bus)
  BY <1>0, <1>1, <1>3, QuietStep
<1>4. CASE mgr' = mgr /\ \E e \in BusEvent : ~Completes(e) /\ bus' = Append(Tail(bus), e)
  BY <1>0, <1>1, <1>4, QuietStep
<1> QED BY <1>1, <1>2, <1>3, <1>4

LEMMA MonitorOrderly ==
    ASSUME Typed, Orderly, Monitoring
    PROVE  Completing' /\ OverKept /\ mgr'.currentItem = mgr.currentItem
<1>0. Completing /\ mgr \in Manager
  BY DEF Orderly, Typed, QueueTyped
<1>1. session' = session /\ bus' = bus /\ mgr'.currentItem = mgr.currentItem
  BY <1>0, QueueStatusFields DEF Monitoring, MonitorGS, MakeGS, sessionVars
<1>2. SameStatus
  BY <1>1 DEF SameStatus
<1> QED BY <1>0, <1>1, <1>2, QuietStep

\* The output thread, and a session's expiry.
LEMMA StillOrderly ==
    ASSUME Typed, Orderly, Still
    PROVE  Completing' /\ OverKept /\ mgr'.currentItem = mgr.currentItem
<1>0. mgr' = mgr /\ Completing
  BY StillSteps DEF Still, Orderly
<1>1. CASE Speak \/ OutputFails \/ Ask
  <2>1. SameStatus
    <3>1. session' = session \/ \E ids : session' = MarkPending(ids)
      BY <1>1 DEF Speak, OutputFails, Ask, sessionVars
    <3> QED BY <3>1, MarksSame DEF Typed
  <2>2. bus' = bus \/ \E e \in BusEvent : ~Completes(e) /\ bus' = Append(bus, e)
    <3>1. [type |-> "OUTPUT"] \in BusEvent /\ ~Completes([type |-> "OUTPUT"])
      BY Events DEF Completes
    <3> QED BY <1>1, <3>1 DEF Speak, OutputFails, Ask
  <2> QED BY <1>0, <2>1, <2>2, QuietStep
<1>2. ASSUME NEW i \in Ids, Expire(i) PROVE Completing' /\ OverKept
  <2>1. /\ i \in AllActive /\ session' = Ended(i)
        /\ bus' = Append(bus, [type |-> "ENDED"])
    BY <1>2 DEF Expire
  <2>2. Completing' /\ ~Over
    BY <1>0, <2>1, CompletingEnded, CompletingFacts
  <2> QED BY <2>2 DEF OverKept
<1> QED BY <1>0, <1>1, <1>2 DEF Still

\* The item is given up only by what completes it.
LEMMA ItemKept ==
    ASSUME Typed, Next
    PROVE  \/ mgr'.currentItem = mgr.currentItem
           \/ mgr.currentItem = NoItem
           \/ bus # <<>> /\ Completes(Head(bus))
<1>0. mgr \in Manager
  BY DEF Typed, QueueTyped
<1>1. CASE Inputs
  BY <1>1, AddFields DEF Inputs, Hear, Pause, PublishInput
<1>2. CASE Loops
  BY <1>2, AdvanceFields DEF Loops, Track, Look
<1>3. CASE EventSteps
  BY <1>3, EventCompletes
<1>4. CASE Monitoring
  BY <1>0, <1>4, QueueStatusFields DEF Monitoring, MonitorGS, MakeGS
<1>5. CASE Still
  BY <1>5, StillSteps DEF Still
<1>6. ASSUME NEW t \in Starters, Start(t) PROVE mgr'.currentItem = mgr.currentItem
  <2>1. mgr' = mgr \/ \E sm : mgr' = [mgr EXCEPT !.sm = sm]
    BY <1>6 DEF Start, SetState, MakeGS, Attach, Create, Refuse
  <2> QED BY <1>0, <2>1 DEF Manager
<1>7. ASSUME NEW t \in Closers, Boundary(t) PROVE mgr'.currentItem = mgr.currentItem
  <2>1. mgr' \in {mgr, QueueStatus(mgr), [mgr EXCEPT !.visited = FALSE]}
    BY <1>7 DEF Boundary, Collect, EndOne, Judge, EndGS, ClearHistory
  <2> QED BY <1>0, <2>1, QueueStatusFields DEF Manager
<1> QED BY <1>1, <1>2, <1>3, <1>4, <1>5, <1>6, <1>7, Steps

LEMMA OrderlyStep ==
    ASSUME Typed, Once, Orderly, Next, ~Late
    PROVE  Orderly'
<1>1. Completing' /\ (OverKept \/ Interrupting')
  <2>1. CASE Inputs
    BY <2>1, HearOrderly, PauseOrderly, AddOrderly, PublishInputOrderly DEF Inputs, Late
  <2>2. CASE Loops \/ EventSteps \/ Monitoring \/ Still
    BY <2>2, LoopOrderly, EventOrderly, MonitorOrderly, StillOrderly
  <2>3. ASSUME NEW t \in Starters, Start(t) PROVE Completing' /\ OverKept
    BY <2>3, StartOrderly
  <2>4. ASSUME NEW t \in Closers, Boundary(t) PROVE Completing' /\ OverKept
    <3>1. EndOne(t) => Head(thread[t].todo) \in AllActive
      BY Places DEF Late
    <3> QED BY <2>4, <3>1, BoundaryOrderly
  <2> QED BY <2>1, <2>2, <2>3, <2>4, Steps
<1>2. Interrupting'
  <2>1. Hear \/ Pause => Interrupting'
    BY HearOrderly, PauseOrderly DEF Late
  <2> QED BY <1>1, <2>1, InterruptingKept
<1>3. Placing'
  <2>1. \/ mgr'.currentItem = mgr.currentItem \/ mgr.currentItem = NoItem \/ Over
    <3>1. CASE bus # <<>> /\ Completes(Head(bus))
      <4>1. bus \in Seq(BusEvent)
        BY DEF Typed, BusTyped
      <4>2. ~NoCompleter(bus)
        BY <3>1, <4>1, CompletersTaken
      <4> QED BY <4>2 DEF Orderly, Completing
    <3> QED BY <3>1, ItemKept
  <2> QED BY <2>1, PlacingKept DEF Orderly
<1> QED BY <1>1, <1>2, <1>3 DEF Orderly

LEMMA InitOrderly == Init => Orderly
<1> SUFFICES ASSUME Init PROVE Orderly
  OBVIOUS
<1>1. \A t \in Thread : thread[t].pc = "idle" /\ ~thread[t].control
  BY DEF Init, At
<1>2. AllActive = {} /\ NoCompleter(bus) /\ OneCompleter(bus)
  BY DEF Init, NoSession, AllActive, Active, NoCompleter, OneCompleter
<1> QED BY <1>1, <1>2, Places
        DEF Orderly, Completing, Placing, Interrupting, StartPcs, Thread

-----------------------------------------------------------------------------
(* What holds however the threads' operations overlap.                     *)

Invariant == Typed /\ Once /\ (late \/ Orderly)

LEMMA InvariantStep == Invariant /\ [OverlapNext]_overlapVars => Invariant'
<1> SUFFICES ASSUME Invariant, [OverlapNext]_overlapVars PROVE Invariant'
  OBVIOUS
<1>1. [Next]_vars
  BY DEF OverlapNext, overlapVars
<1>2. Typed' /\ Once'
  BY <1>1, TypedStep, OnceStep DEF Invariant
<1>3. CASE OverlapNext
  <2>1. late' \/ (Orderly /\ ~Late)
    BY <1>3, Zenon DEF OverlapNext, Invariant
  <2>2. Orderly /\ ~Late => Orderly'
    BY <1>3, OrderlyStep DEF OverlapNext, Invariant
  <2> QED BY <1>2, <2>1, <2>2 DEF Invariant
<1>4. CASE UNCHANGED overlapVars
  <2>1. late' = late /\ UNCHANGED vars
    BY <1>4 DEF overlapVars
  <2>2. Orderly => Orderly'
    BY <2>1 DEF vars, sessionVars, Orderly, Completing, Placing, Interrupting, AllActive,
       Active, Over
  <2> QED BY <1>2, <2>1, <2>2 DEF Invariant
<1> QED BY <1>3, <1>4

LEMMA InitInvariant == OverlapInit => Invariant
BY InitTyped, InitOnce, InitOrderly DEF OverlapInit, Invariant

\* However the threads' operations overlap, an item is completed only when its own
\* session is paused or over, although SESSION_ENDED and an interruption complete
\* whichever item is current, until a session that is over is ended or interrupted
\* once more.
THEOREM OwnSessionOnly == OverlapSpec => OwnSessionUntilLate
<1> DEFINE Own == \A i \in 1..MaxItems :
                     mgr.currentItem.id = i /\ mgr'.currentItem.id # i =>
                         late \/ session[i].status \in {"paused", "completed", "failed"}
<1>1. ASSUME Invariant, OverlapNext PROVE Own
  <2> SUFFICES ASSUME NEW i \in Ids, mgr.currentItem.id = i, mgr'.currentItem.id # i,
                      ~late
               PROVE  session[i].status \in {"paused", "completed", "failed"}
    BY DEF Ids
  <2>1. mgr.currentItem # NoItem
    BY DEF NoItem, Ids
  <2>2. bus # <<>> /\ Completes(Head(bus)) /\ bus \in Seq(BusEvent)
    BY <1>1, <2>1, ItemKept DEF Invariant, OverlapNext, Typed, BusTyped
  <2>3. ~NoCompleter(bus)
    BY <2>2, CompletersTaken
  <2> QED BY <1>1, <2>3 DEF Invariant, Orderly, Completing, Over
<1>2. Invariant /\ [OverlapNext]_overlapVars => [Own]_overlapVars
  BY <1>1
<1> QED BY <1>2, InitInvariant, InvariantStep, PTL DEF OverlapSpec, OwnSessionUntilLate

-----------------------------------------------------------------------------
(* When a GS is taken from its sessions.                                   *)

\* What a thread saw still holds, unless it is stale.
Seen(t) == /\ thread[t].pc = "makeGS" => gs = 0
           /\ thread[t].pc = "endGS" => AllActive = {}
UpToDate == \A t \in Thread : t \in stale \/ Seen(t)

\* A thread that comes to start or end a GS has just looked.
LEMMA JustLooked ==
    ASSUME Typed, Next, NEW t \in Thread, thread'[t].pc # thread[t].pc
    PROVE  Seen(t)'
<1>0. /\ DOMAIN thread = Thread /\ thread[t] \in Locals(t)
      /\ "monitor" \notin Starters
  BY DEF Typed, ThreadTyped, Starters
<1>1. CASE thread'[t].pc \notin {"makeGS", "endGS"}
  BY <1>1 DEF Seen
<1>2. ASSUME NEW u \in Thread, \A v \in Thread \ {u} : thread'[v] = thread[v]
      PROVE  u = t
  BY <1>2
<1>3. CASE Inputs
  <2>1. t = "input"
    BY <1>2, <1>3, InputMoves DEF Inputs, Thread
  <2>2. thread'[t].pc \in {"pause", "add", "idle", "setState"}
    BY <1>3, <2>1, InputFields, AddFields DEF Inputs
  <2> QED BY <1>1, <2>2
<1>4. CASE Loops
  <2>1. t = "loop"
    BY <1>2, <1>4, LoopMoves DEF Loops, Thread
  <2>2. thread'[t].pc \in {"look", "collect", "idle", "setState", "track"}
    BY <1>4, <2>1, LoopMoves, AdvanceFields DEF Loops
  <2> QED BY <1>1, <2>2
<1>5. CASE EventSteps
  <2>1. t = "bus" /\ thread'[t].pc = "collect"
    BY <1>2, <1>5, EventMoves DEF EventSteps, Thread
  <2> QED BY <1>1, <2>1
<1>6. CASE Monitoring
  <2>1. t = "monitor"
    BY <1>2, <1>6, MonitorMoves DEF Monitoring, Thread
  <2>2. thread'[t].pc \in {"idle", "makeGS"}
    BY <1>6, <2>1, MonitorMoves DEF Monitoring
  <2>3. CASE MakeGS("monitor")
    <3>1. thread'[t].pc = "idle"
      BY <1>0, <2>1, <2>3 DEF MakeGS, At
    <3> QED BY <1>1, <3>1
  <2>4. CASE MonitorGS /\ thread'[t].pc = "makeGS"
    <3>1. gs' = 0
      BY <2>1, <2>4 DEF MonitorGS, sessionVars
    <3> QED BY <2>4, <3>1 DEF Seen
  <2> QED BY <1>1, <1>6, <2>2, <2>3, <2>4 DEF Monitoring
<1>7. CASE Still
  BY <1>7, StillSteps DEF Still
<1>8. ASSUME NEW u \in Starters, Start(u) PROVE Seen(t)'
  <2>1. t = u /\ u # "monitor"
    BY <1>0, <1>2, <1>8, StartMoves, Places DEF Start
  <2>2. CASE SetState(t)
    <3>1. thread'[t].pc \in {"makeGS", "attach"} /\ gs' = gs
      BY <1>0, <2>2 DEF SetState, sessionVars, Locals
    <3>2. thread'[t].pc = "makeGS" => gs = 0
      BY <1>0, <2>2 DEF SetState, Locals
    <3> QED BY <3>1, <3>2 DEF Seen
  <2>3. CASE MakeGS(t)
    <3>1. thread' = [thread EXCEPT ![t] = [thread[t] EXCEPT !.pc = "attach"]]
      BY <1>0, <2>1, <2>3 DEF MakeGS
    <3>2. thread'[t].pc = "attach"
      BY <1>0, <3>1 DEF Locals
    <3> QED BY <1>1, <3>2
  <2>4. CASE Attach(t) \/ Create(t)
    <3>1. thread' = [thread EXCEPT ![t] = Started(t)]
          \/ thread' = [thread EXCEPT ![t].pc = "create", ![t].mine = gs]
      BY <2>4 DEF Attach, Create, Refuse
    <3>2. thread'[t].pc \in {"track", "add", "create"}
      <4>1. ASSUME thread' = [thread EXCEPT ![t] = Started(t)]
            PROVE  thread'[t].pc \in {"track", "add"}
        BY <1>0, <4>1 DEF Started, At
      <4>2. ASSUME thread' = [thread EXCEPT ![t].pc = "create", ![t].mine = gs]
            PROVE  thread'[t].pc = "create"
        BY <1>0, <4>2 DEF Locals
      <4> QED BY <3>1, <4>1, <4>2
    <3> QED BY <1>1, <3>2
  <2> QED BY <1>8, <2>1, <2>2, <2>3, <2>4 DEF Start
<1>9. ASSUME NEW u \in Closers, Boundary(u) PROVE Seen(t)'
  <2>1. t = u
    BY <1>2, <1>9, BoundaryStepMoves, Places
  <2>2. thread'[t].pc \in ClosePcs \cup {"idle", "look"}
    BY <1>9, <2>1, BoundaryStepMoves
  <2>3. CASE thread'[t].pc # "endGS"
    BY <1>1, <2>2, <2>3 DEF ClosePcs
  <2>4. CASE thread'[t].pc = "endGS"
    <3>1. ~BoundaryDone(t)
      BY <1>9, <2>1, <2>4, BoundaryMoves
    <3>2. ~Collect(t) /\ ~EndOne(t)
      <4>1. Collect(t) => thread' = [thread EXCEPT ![t] = [thread[t] EXCEPT !.pc = "end",
                !.todo = SetToSeq(Pending("CHAT")) \o SetToSeq(Pending("WORK"))]]
        BY <1>0 DEF Collect
      <4>2. Collect(t) => thread'[t].pc = "end"
        BY <1>0, <4>1 DEF Locals
      <4>3. EndOne(t) => thread' = [thread EXCEPT ![t] =
                [thread[t] EXCEPT !.todo = Tail(thread[t].todo)]]
        BY <1>0 DEF EndOne
      <4>4. EndOne(t) => thread'[t].pc = thread[t].pc
        BY <1>0, <4>3 DEF Locals
      <4> QED BY <2>4, <4>2, <4>4
    <3>3. ~EndGS(t)
      <4>1. EndGS(t) => thread' = [thread EXCEPT ![t] = [thread[t] EXCEPT !.pc = "clear"]]
        BY <1>0, <3>1 DEF EndGS
      <4>2. EndGS(t) => thread'[t].pc = "clear"
        BY <1>0, <4>1 DEF Locals
      <4> QED BY <2>4, <4>2
    <3>4. AllActive = {} /\ session' = session
      BY <1>9, <2>1, <3>1, <3>2, <3>3 DEF Boundary, ClearHistory, Judge, EndsGS, sessionVars
    <3>5. AllActive' = {}
      BY <3>4 DEF AllActive, Active
    <3> QED BY <2>4, <3>5 DEF Seen
  <2> QED BY <2>3, <2>4
<1> QED BY <1>3, <1>4, <1>5, <1>6, <1>7, <1>8, <1>9, Steps

LEMMA UpToDateStep == Typed /\ UpToDate /\ [OverlapNext]_overlapVars => UpToDate'
<1> SUFFICES ASSUME Typed, UpToDate, [OverlapNext]_overlapVars, NEW t \in Thread
             PROVE  t \in stale' \/ Seen(t)'
  BY DEF UpToDate
<1>1. CASE OverlapNext /\ thread'[t].pc # thread[t].pc
  BY <1>1, JustLooked DEF OverlapNext
<1>2. CASE OverlapNext /\ thread'[t].pc = thread[t].pc /\ t \notin stale'
  <2>1. t \notin stale /\ ~Overtaken(t)
    BY <1>2 DEF OverlapNext
  <2> QED BY <1>2, <2>1 DEF UpToDate, Seen, Overtaken
<1>3. CASE UNCHANGED overlapVars
  BY <1>3 DEF overlapVars, vars, sessionVars, UpToDate, Seen, AllActive, Active
<1> QED BY <1>1, <1>2, <1>3

\* However the threads' operations overlap, a GS is ended or replaced under an
\* active session of its own only by a thread whose look at the GS and the sessions
\* another thread has overtaken.
THEOREM GSOutlives == OverlapSpec => GSOutlivesUnlessStale
<1> DEFINE Outlives ==
        gs # 0 /\ gs' # gs =>
          \/ \E t \in stale : thread'[t].pc # thread[t].pc
          \/ \A i \in AllActive : session[i].gs = gs => session'[i].status # "active"
<1>1. ASSUME Typed, UpToDate, Next PROVE Outlives
  <2> SUFFICES ASSUME gs # 0, gs' # gs
               PROVE  \/ \E t \in stale : thread'[t].pc # thread[t].pc
                      \/ AllActive = {}
    OBVIOUS
  <2>1. (\E t \in Thread : MakeGS(t)) \/ (\E t \in Thread : EndGS(t))
    <3>1. ~Inputs /\ ~Loops /\ ~EventSteps
      BY DEF Inputs, Loops, Hear, Pause, Add, PublishInput, Advance, Track, Look,
         EventSteps, OnSessionEnded, OnInput, OnStateAdvanced, OnProcessing, OnOutput,
         OnCycleCompleted, sessionVars
    <3>2. Monitoring => MakeGS("monitor")
      BY DEF Monitoring, MonitorGS, sessionVars
    <3>3. ASSUME NEW t \in Starters, Start(t) PROVE MakeGS(t)
      BY <3>3 DEF Start, SetState, Attach, Create, sessionVars
    <3>4. ASSUME NEW t \in Closers, Boundary(t) PROVE EndGS(t)
      BY <3>4 DEF Boundary, Collect, EndOne, Judge, ClearHistory, sessionVars
    <3>5. ~Still
      BY StillSteps DEF Still
    <3> QED BY <1>1, <3>1, <3>2, <3>3, <3>4, <3>5, Steps, Places
  <2>2. ASSUME NEW t \in Thread, MakeGS(t)
        PROVE  \E u \in stale : thread'[u].pc # thread[u].pc
    <3>1. t \in stale /\ thread[t].pc = "makeGS"
      BY <1>1, <2>2 DEF MakeGS, UpToDate, Seen
    <3>2. DOMAIN thread = Thread /\ thread[t] \in Locals(t)
      BY <1>1 DEF Typed, ThreadTyped
    <3>3. thread'[t].pc \in {"idle", "attach"}
      <4>1. thread'[t] = IF t = "monitor" THEN At("idle")
                         ELSE [thread[t] EXCEPT !.pc = "attach"]
        BY <2>2, <3>2 DEF MakeGS
      <4> QED BY <3>2, <4>1 DEF At, Locals
    <3> QED BY <3>1, <3>3
  <2>3. ASSUME NEW t \in Thread, EndGS(t)
        PROVE  \/ AllActive = {}
               \/ \E u \in stale : thread'[u].pc # thread[u].pc
    <3>1. thread[t].pc = "endGS" /\ (t \in stale \/ AllActive = {})
      BY <1>1, <2>3 DEF EndGS, UpToDate, Seen
    <3>2. DOMAIN thread = Thread /\ thread[t] \in Locals(t)
      BY <1>1 DEF Typed, ThreadTyped
    <3>3. thread'[t] = [thread[t] EXCEPT !.pc = "clear"]
      BY <2>3, <3>2 DEF EndGS
    <3>4. thread'[t].pc = "clear"
      BY <3>2, <3>3 DEF Locals
    <3> QED BY <3>1, <3>4
  <2> QED BY <2>1, <2>2, <2>3
<1>2. Typed /\ UpToDate /\ [OverlapNext]_overlapVars => [Outlives]_overlapVars
  BY <1>1 DEF OverlapNext
<1>3. OverlapInit => Typed /\ UpToDate
  <2> SUFFICES ASSUME OverlapInit PROVE Typed /\ UpToDate
    OBVIOUS
  <2>1. \A t \in Thread : thread[t].pc = "idle"
    BY DEF OverlapInit, Init, At
  <2> QED BY <2>1, InitTyped DEF OverlapInit, UpToDate, Seen
<1>4. Typed /\ UpToDate /\ [OverlapNext]_overlapVars => Typed' /\ UpToDate'
  <2>1. [OverlapNext]_overlapVars => [Next]_vars
    BY DEF OverlapNext, overlapVars
  <2> QED BY <2>1, TypedStep, UpToDateStep
<1> QED BY <1>2, <1>3, <1>4, PTL DEF OverlapSpec, GSOutlivesUnlessStale
=============================================================================
