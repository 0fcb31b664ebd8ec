-------------------------- MODULE SleepWakeProofs --------------------------
(***************************************************************************)
(* Proofs about SleepWake for any modules, any number of items and of      *)
(* reload threads: its types, and the agreement of the five records of a   *)
(* sleep, whenever the user presses the button, until a sleep and a        *)
(* wake-up meet.                                                           *)
(***************************************************************************)
EXTENDS SleepWake, StateQueueProofs

Typed ==
    /\ TypeOK
    /\ mgr.nextId \in 1..(MaxItems + 1)
    /\ entered + Len(mgr.queue) < mgr.nextId

Reloading(t) == waker[t].at \in {"look", "load", "register"}
Mod(k) == ModuleOrder[k]

\* The bus's thread and a reload thread exclude each other, and there is one
\* sleep at a time.
Turns ==
    /\ \A t, u \in Wakers : waker[t] # Rest /\ waker[u] # Rest => t = u
    /\ \A t \in Wakers : waker[t].at = "rest" <=> waker[t] = Rest
    /\ unloader.at = "rest" <=> unloader = Rest
    /\ entered <= 1
    /\ Waking => entered = 0 /\ unloader = Rest
    /\ unloader # Rest => entered = 0 /\ Asleep(mgr)
    /\ entered = 1 => Asleep(mgr)

\* The records of the sleep follow its item, up to the wake-up.
Records ==
    /\ Asleep(mgr) /\ ~Waking => sleeping /\ contextFile /\ mgr.sm = "SLEEP"
    /\ ~Asleep(mgr) \/ Waking => ~sleeping /\ ~contextFile
    /\ \A t \in Wakers :
          /\ Reloading(t) \/ waker[t].at = "complete" => Asleep(mgr)
          /\ waker[t].at \in {"publish", "exit", "leave"} => ~Asleep(mgr)

\* Registry and framework differ in the module just handled, and what a
\* reload has passed is there or lost.
Handled(k) == \A i \in 1..(k - 1) : Mod(i) \in framework \cup lost
Holdings ==
    /\ framework \cap lost = {}
    /\ unloader.at # "forget" /\ (\A t \in Wakers : waker[t].at # "register")
          => framework = registry
    /\ unloader.at = "forget" =>
          framework = registry \cup {Mod(unloader.k)} /\ Mod(unloader.k) \notin registry
    /\ \A t \in Wakers :
          /\ waker[t].at = "register" => registry = framework \cup {Mod(waker[t].k)}
                                         /\ Mod(waker[t].k) \notin lost
          /\ waker[t].at = "load" => Mod(waker[t].k) \notin framework
          /\ Reloading(t) => Handled(waker[t].k)
          /\ waker[t] # Rest /\ ~Reloading(t) => Modules \subseteq framework \cup lost
    /\ ~Asleep(mgr) => Modules \subseteq framework \cup lost

Agree == Typed /\ Turns /\ Records /\ Holdings

\* Once they have met, only the types are left, until the next start.
IInv == Typed /\ (raced \/ Agree)

-----------------------------------------------------------------------------
(* What a step of the queue is to the sleep.                               *)

\* The item and StateManager's state stay, sleep begins, or nobody sleeps
\* before and after.
Stays == /\ mgr'.currentItem = mgr.currentItem /\ mgr'.sm = mgr.sm
         /\ UNCHANGED sleepVars
Falls == /\ ~Asleep(mgr) /\ Asleep(mgr') /\ mgr'.sm = "SLEEP"
         /\ sleeping' = TRUE /\ contextFile' = TRUE
         /\ entered' = IF sleeping THEN entered ELSE entered + 1
         /\ raced' = (raced \/ Waking)
StaysUp == /\ ~Asleep(mgr) /\ ~Asleep(mgr')
           /\ UNCHANGED sleepVars

\* Starting the head of m, which add_state or the loop found without an item.
LEMMA EnterEffect ==
    ASSUME NEW m \in Manager, m.queue # <<>>, mgr.currentItem = NoItem,
           gs \in BOOLEAN,
           Enter(StartNext(m, "entered")) \/ Enter(ProcessNext(m, "entered"))
    PROVE  /\ mgr' \in Manager /\ mgr'.queue = Tail(m.queue)
           /\ mgr'.nextId = m.nextId /\ gs' \in BOOLEAN
           /\ Head(m.queue).state = "SLEEP" => Falls
           /\ Head(m.queue).state # "SLEEP" => StaysUp
<1>1. PICK p \in Manager :
        /\ p = PopHead(m)
        /\ p.queue = Tail(m.queue) /\ p.currentItem = Head(m.queue)
        /\ p.currentState = Head(m.queue).state /\ p.nextId = m.nextId
  BY PopHeadFields
<1>2. PICK sm \in States : sm = p.currentState
  BY DEF Manager
<1>3. StartNext(m, "entered") = [p EXCEPT !.sm = sm]
  BY <1>1, <1>2 DEF StartNext, Handle
<1>4. ProcessNext(m, "entered") = [[p EXCEPT !.visited = TRUE] EXCEPT !.sm = sm]
  BY <1>1, <1>2 DEF ProcessNext, Handle, Manager
<1>5. PICK n : /\ n = StartNext(m, "entered") \/ n = ProcessNext(m, "entered")
               /\ Enter(n)
  OBVIOUS
<1>6. /\ n \in Manager /\ n.queue = Tail(m.queue) /\ n.nextId = m.nextId
      /\ n.currentItem = Head(m.queue) /\ n.sm = Head(m.queue).state
  <2>1. CASE n = StartNext(m, "entered")
    BY <1>1, <1>2, <1>3, <2>1 DEF Manager
  <2>2. CASE n = ProcessNext(m, "entered")
    BY <1>1, <1>2, <1>4, <2>2 DEF Manager
  <2> QED BY <1>5, <2>1, <2>2
<1>7. ~Asleep(mgr)
  BY DEF Asleep, NoItem
<1> QED BY <1>5, <1>6, <1>7 DEF Enter, Asleep, Falls, StaysUp

\* add_state: a chat puts nothing to sleep that has no SLEEP queued.
LEMMA AddEffect ==
    ASSUME Typed, NEW state \in {"CHAT", "SLEEP"}, Add(state)
    PROVE  /\ mgr' \in Manager /\ gs' \in BOOLEAN
           /\ mgr'.nextId = mgr.nextId + 1
           /\ \/ Stays /\ Len(mgr'.queue) = Len(mgr.queue) + 1
              \/ (Falls \/ StaysUp) /\ Len(mgr'.queue) = Len(mgr.queue)
<1>0. mgr \in Manager /\ gs \in BOOLEAN
  BY DEF Typed, TypeOK
<1>1. PICK queue \in Seq(Item) : queue = mgr.queue
  BY <1>0 DEF Manager
<1>2. PICK m \in Manager, item \in Item, k \in 1..(Len(queue) + 1) :
        /\ m = Enqueue(mgr, state, DefaultPriority(state))
        /\ item.state = state
        /\ m.queue = InsertAt(queue, k, item)
        /\ m.nextId = mgr.nextId + 1
        /\ m.currentItem = mgr.currentItem /\ m.sm = mgr.sm
  <2>1. state \in QueuedStates /\ DefaultPriority(state) \in 0..InterruptPriority
    BY DEF QueuedStates, DefaultPriority, InterruptPriority
  <2> QED BY <1>0, <1>1, <2>1, EnqueueFields
<1>3. m.queue \in Seq(Item) /\ Len(m.queue) = Len(queue) + 1 /\ m.queue # <<>>
  <2>1. Len(queue) \in Nat
    BY LenProperties
  <2>2. Inserted(m.queue, queue, k, item)
    BY <1>2, InsertAtProperties
  <2> QED BY <2>1, <2>2 DEF Inserted
<1>4. CASE m.currentState = "IDLE" /\ m.currentItem = NoItem
  <2>1. Enter(ProcessNext(m, "entered"))
    BY <1>2, <1>4 DEF Add
  <2>2. /\ mgr' \in Manager /\ mgr'.queue = Tail(m.queue)
        /\ mgr'.nextId = m.nextId /\ gs' \in BOOLEAN
        /\ Head(m.queue).state = "SLEEP" => Falls
        /\ Head(m.queue).state # "SLEEP" => StaysUp
    BY <1>0, <1>2, <1>3, <1>4, <2>1, EnterEffect
  <2>3. Len(mgr'.queue) = Len(queue) /\ Len(queue) \in Nat
    BY <1>3, <2>2, TailIndices, LenProperties
  <2> QED BY <1>1, <1>2, <2>2, <2>3
<1>5. CASE ~(m.currentState = "IDLE" /\ m.currentItem = NoItem)
  <2>1. mgr' = m /\ UNCHANGED <<gs, sleepVars>>
    BY <1>2, <1>5 DEF Add
  <2>2. Stays
    BY <1>2, <2>1 DEF Stays
  <2> QED BY <1>0, <1>1, <1>2, <1>3, <2>1, <2>2
<1> QED BY <1>4, <1>5

\* The loop takes the next item, or idles a manager that has none.
LEMMA AdvanceEffect ==
    ASSUME Typed, Advance
    PROVE  /\ mgr' \in Manager /\ gs' \in BOOLEAN
           /\ mgr'.nextId = mgr.nextId
           /\ \/ Falls /\ Len(mgr'.queue) = Len(mgr.queue) - 1
              \/ StaysUp /\ Len(mgr'.queue) <= Len(mgr.queue)
<1>0. mgr \in Manager /\ gs \in BOOLEAN /\ mgr.currentItem = NoItem
  BY DEF Typed, TypeOK, Advance
<1>1. PICK queue \in Seq(Item) : queue = mgr.queue
  BY <1>0 DEF Manager
<1>2. CASE queue = <<>>
  <2>1. PICK n \in Manager :
          /\ n = TransitionToIdle(mgr) /\ n.queue = mgr.queue
          /\ n.nextId = mgr.nextId /\ n.currentItem = NoItem
    BY <1>0, IdleFields
  <2>2. mgr' = n /\ UNCHANGED <<gs, sleepVars>>
    BY <1>1, <1>2, <2>1 DEF Advance
  <2>3. StaysUp
    BY <1>0, <2>1, <2>2 DEF StaysUp, Asleep, NoItem
  <2>4. Len(mgr'.queue) <= Len(mgr.queue)
    BY <1>1, <2>1, <2>2
  <2> QED BY <1>0, <2>1, <2>2, <2>3, <2>4
<1>3. CASE queue # <<>>
  <2>1. Enter(StartNext(mgr, "entered"))
    BY <1>1, <1>3 DEF Advance
  <2>2. /\ mgr' \in Manager /\ mgr'.queue = Tail(queue)
        /\ mgr'.nextId = mgr.nextId /\ gs' \in BOOLEAN
        /\ Head(queue).state = "SLEEP" => Falls
        /\ Head(queue).state # "SLEEP" => StaysUp
    BY <1>0, <1>1, <1>3, <2>1, EnterEffect
  <2>3. Len(mgr'.queue) = Len(queue) - 1 /\ Len(queue) \in Nat
    BY <1>3, <2>2, TailIndices
  <2> QED BY <1>1, <2>2, <2>3
<1> QED BY <1>2, <1>3

-----------------------------------------------------------------------------
(* Steps of the queue.                                                     *)

\* A step that pops what it starts keeps the count of dispatches below that
\* of identities.
LEMMA QueueTyped ==
    ASSUME Typed, mgr' \in Manager, gs' \in BOOLEAN, button' \in {"rest", "add"},
           UNCHANGED <<registry, framework, lost, unloader, waker>>,
           \/ /\ mgr'.nextId = mgr.nextId + 1 /\ mgr.nextId <= MaxItems
              /\ \/ Stays /\ Len(mgr'.queue) = Len(mgr.queue) + 1
                 \/ (Falls \/ StaysUp) /\ Len(mgr'.queue) = Len(mgr.queue)
           \/ /\ mgr'.nextId = mgr.nextId
              /\ \/ (Stays \/ StaysUp) /\ Len(mgr'.queue) <= Len(mgr.queue)
                 \/ Falls /\ Len(mgr'.queue) = Len(mgr.queue) - 1
    PROVE  Typed'
<1>1. PICK queue \in Seq(Item) : queue = mgr.queue
  BY DEF Typed, TypeOK, Manager
<1>2. PICK queue2 \in Seq(Item) : queue2 = mgr'.queue
  BY DEF Manager
<1>3. Len(queue) \in Nat /\ Len(queue2) \in Nat
  BY LenProperties
<1>4. /\ sleeping' \in BOOLEAN /\ contextFile' \in BOOLEAN
      /\ entered' \in Nat
      /\ (Stays \/ StaysUp) => entered' = entered
      /\ Falls => entered' <= entered + 1
  <2>1. entered \in Nat /\ sleeping \in BOOLEAN /\ contextFile \in BOOLEAN
    BY MaxItemsAssumption DEF Typed, TypeOK
  <2>2. CASE Stays
    BY <2>1, <2>2 DEF Stays, Falls, StaysUp, sleepVars
  <2>3. CASE StaysUp
    BY <2>1, <2>3 DEF Stays, Falls, StaysUp, sleepVars
  <2>4. CASE Falls
    <3>1. entered' = entered \/ entered' = entered + 1
      BY <2>4 DEF Falls
    <3>2. ~Stays /\ ~StaysUp
      BY <2>4 DEF Falls, Stays, StaysUp, Asleep
    <3> QED BY <2>1, <2>4, <3>1, <3>2 DEF Falls
  <2> QED BY <2>2, <2>3, <2>4
<1>5. /\ mgr'.nextId \in 1..(MaxItems + 1)
      /\ entered' + Len(queue2) < mgr'.nextId
  <2>1. entered + Len(queue) < mgr.nextId /\ entered \in Nat
        /\ mgr.nextId \in 1..(MaxItems + 1)
    BY <1>1, MaxItemsAssumption DEF Typed, TypeOK
  <2>2. \/ mgr'.nextId = mgr.nextId + 1 /\ mgr.nextId <= MaxItems
           /\ \/ entered' = entered /\ Len(queue2) = Len(queue) + 1
              \/ entered' <= entered + 1 /\ Len(queue2) = Len(queue)
        \/ /\ mgr'.nextId = mgr.nextId
           /\ \/ entered' = entered /\ Len(queue2) <= Len(queue)
              \/ entered' <= entered + 1 /\ Len(queue2) = Len(queue) - 1
    BY <1>1, <1>2, <1>4, <2>1
  <2> HIDE <1>1, <1>2
  <2> QED BY <1>3, <1>4, <2>1, <2>2, MaxItemsAssumption
<1>6. entered' \in 0..MaxItems
  BY <1>3, <1>4, <1>5, MaxItemsAssumption
<1>7. raced' \in BOOLEAN
  <2>1. CASE Falls
    BY <2>1, Zenon DEF Falls
  <2>2. CASE Stays \/ StaysUp
    BY <2>2 DEF Stays, StaysUp, sleepVars, Typed, TypeOK
  <2> QED BY <2>1, <2>2
<1> QED BY <1>2, <1>4, <1>5, <1>6, <1>7 DEF Typed, TypeOK

\* What the queue does to the records of the sleep.
LEMMA QueueStep ==
    ASSUME Agree, Typed', ~raced', Stays \/ Falls \/ StaysUp,
           UNCHANGED <<registry, framework, lost, unloader, waker>>
    PROVE  Agree'
<1>0. entered \in Nat
  BY DEF Agree, Typed, TypeOK
<1>1. CASE Stays
  <2>1. Asleep(mgr') = Asleep(mgr) /\ mgr'.sm = mgr.sm
    BY <1>1 DEF Stays, Asleep
  <2>2. Turns'
    BY <1>1, <2>1 DEF Agree, Turns, Waking, Stays, sleepVars
  <2>3. Records'
    BY <1>1, <2>1 DEF Agree, Records, Waking, Reloading, Stays, sleepVars
  <2>4. Holdings'
    BY <2>1 DEF Agree, Holdings, Handled, Reloading, Mod
  <2> QED BY <2>2, <2>3, <2>4 DEF Agree
<1>2. CASE Falls
  <2>1. ~Waking
    BY <1>2 DEF Falls
  <2>2. ~sleeping /\ entered = 0 /\ unloader = Rest
    BY <1>0, <1>2, <2>1 DEF Agree, Turns, Records, Falls
  <2>3. Turns'
    <3>1. Asleep(mgr') /\ entered' = 1 /\ ~Waking' /\ unloader' = Rest
      BY <1>2, <2>1, <2>2 DEF Falls, Waking
    <3>2. /\ \A t, u \in Wakers : waker'[t] # Rest /\ waker'[u] # Rest => t = u
          /\ \A t \in Wakers : waker'[t].at = "rest" <=> waker'[t] = Rest
          /\ unloader'.at = "rest" <=> unloader' = Rest
      BY DEF Agree, Turns
    <3> QED BY <3>1, <3>2 DEF Turns
  <2>4. Records'
    BY <1>2, <2>1, <2>2 DEF Agree, Turns, Records, Waking, Reloading, Falls, Rest
  <2>5. Holdings'
    BY <1>2 DEF Agree, Holdings, Handled, Reloading, Mod, Falls
  <2> QED BY <2>3, <2>4, <2>5 DEF Agree
<1>3. CASE StaysUp
  <2>1. ~Asleep(mgr') /\ entered' = entered /\ unloader = Rest /\ entered # 1
    BY <1>3 DEF Agree, Turns, StaysUp, sleepVars
  <2>2. Turns'
    BY <2>1 DEF Agree, Turns, Waking
  <2>3. Records'
    BY <1>3 DEF Agree, Records, Waking, Reloading, StaysUp, sleepVars
  <2>4. Holdings'
    BY <1>3 DEF Agree, Holdings, Handled, Reloading, Mod, StaysUp
  <2> QED BY <2>2, <2>3, <2>4 DEF Agree
<1> QED BY <1>1, <1>2, <1>3

\* The other operations that touch the queue leave the sleep's item alone.
LEMMA OtherQueueEffects ==
    ASSUME Typed
    PROVE  /\ ChatEnds => StaysUp
           /\ EndGS \/ MonitorGS => Stays
           /\ ChatEnds \/ EndGS \/ MonitorGS =>
                 /\ mgr' \in Manager /\ gs' \in BOOLEAN
                 /\ mgr'.queue = mgr.queue /\ mgr'.nextId = mgr.nextId
<1>0. mgr \in Manager /\ gs \in BOOLEAN
  BY DEF Typed, TypeOK
<1>1. PICK c \in Manager :
        /\ c = Complete(mgr) /\ c.queue = mgr.queue /\ c.nextId = mgr.nextId
        /\ c.currentItem = NoItem
  BY <1>0, CompleteFields
<1>2. PICK s \in Manager :
        /\ s = QueueStatus(mgr) /\ s.queue = mgr.queue /\ s.nextId = mgr.nextId
        /\ s.currentItem = mgr.currentItem /\ s.sm = mgr.sm
  BY <1>0, QueueStatusFields
<1>3. ASSUME ChatEnds
      PROVE  /\ StaysUp /\ mgr' \in Manager /\ gs' \in BOOLEAN
             /\ mgr'.queue = mgr.queue /\ mgr'.nextId = mgr.nextId
  BY <1>0, <1>1, <1>3 DEF ChatEnds, StaysUp, Asleep, NoItem
<1>4. ASSUME EndGS
      PROVE  /\ Stays /\ mgr' \in Manager /\ gs' \in BOOLEAN
             /\ mgr'.queue = mgr.queue /\ mgr'.nextId = mgr.nextId
  <2>1. mgr' = [s EXCEPT !.visited = FALSE] /\ gs' = FALSE
    BY <1>2, <1>4 DEF EndGS
  <2>2. mgr' \in Manager /\ mgr'.queue = s.queue /\ mgr'.nextId = s.nextId
        /\ mgr'.currentItem = s.currentItem /\ mgr'.sm = s.sm
    BY <2>1 DEF Manager
  <2> QED BY <1>2, <1>4, <2>1, <2>2 DEF EndGS, Stays
<1>5. ASSUME MonitorGS
      PROVE  /\ Stays /\ mgr' \in Manager /\ gs' \in BOOLEAN
             /\ mgr'.queue = mgr.queue /\ mgr'.nextId = mgr.nextId
  <2>1. gs' \in BOOLEAN
    BY <1>5, Zenon DEF MonitorGS
  <2>2. mgr' = s
    BY <1>2, <1>5 DEF MonitorGS
  <2> QED BY <1>2, <1>5, <2>1, <2>2 DEF MonitorGS, Stays
<1> QED BY <1>3, <1>4, <1>5

\* Indices into the modules' order.
LEMMA Indices ==
    /\ Len(ModuleOrder) \in Nat \ {0}
    /\ \A k \in 1..Len(ModuleOrder) : Mod(k) \in Modules
    /\ \A m \in Modules : \E k \in 1..Len(ModuleOrder) : m = Mod(k)
    /\ \A j, k \in 1..Len(ModuleOrder) : Mod(j) = Mod(k) => j = k
<1>1. ModuleOrder \in Seq(Modules) /\ ModuleOrder # <<>>
  BY ModuleOrderAssumption DEF Modules
<1>2. Len(ModuleOrder) \in Nat \ {0} /\ DOMAIN ModuleOrder = 1..Len(ModuleOrder)
  BY <1>1
<1>3. Modules = {ModuleOrder[k] : k \in 1..Len(ModuleOrder)}
  BY <1>2 DEF Modules, ToSet
<1>4. \A j, k \in 1..Len(ModuleOrder) : ModuleOrder[j] = ModuleOrder[k] => j = k
  BY <1>2, ModuleOrderAssumption DEF IsInjective
<1> QED BY <1>2, <1>3, <1>4 DEF Mod

Places == [at : {"rest", "unload", "forget"}, k : 1..Len(ModuleOrder)]
WakerPlaces == [at : WakerSteps, k : 1..Len(ModuleOrder)]

LEMMA Moves ==
    /\ Rest \in Places /\ Rest \in WakerPlaces
    /\ \A k \in 1..Len(ModuleOrder) : NextUnload(k) \in Places
    /\ \A p \in Places : [p EXCEPT !.at = "forget"] \in Places
    /\ \A p \in WakerPlaces, at \in WakerSteps : [p EXCEPT !.at = at] \in WakerPlaces
BY Indices DEF Rest, Places, WakerPlaces, WakerSteps, NextUnload

LEMMA Reloads ==
    ASSUME Typed, NEW t \in Wakers, NextReload(t)
    PROVE  waker' \in [Wakers -> WakerPlaces]
<1>1. waker \in [Wakers -> WakerPlaces] /\ waker[t].k \in 1..Len(ModuleOrder)
  BY DEF Typed, TypeOK, WakerPlaces
<1>2. CASE waker[t].k = Len(ModuleOrder)
  <2>1. [at |-> "complete", k |-> 1] \in WakerPlaces
    BY Indices DEF WakerPlaces, WakerSteps
  <2>2. waker' = [waker EXCEPT ![t] = [at |-> "complete", k |-> 1]]
    BY <1>2 DEF NextReload
  <2> QED BY <1>1, <2>1, <2>2
<1>3. CASE waker[t].k # Len(ModuleOrder)
  <2>1. waker[t].k + 1 \in 1..Len(ModuleOrder)
    BY <1>1, <1>3, Indices
  <2>2. [at |-> "look", k |-> waker[t].k + 1] \in WakerPlaces
    BY <2>1 DEF WakerPlaces, WakerSteps
  <2>3. waker' = [waker EXCEPT ![t] = [at |-> "look", k |-> waker[t].k + 1]]
    BY <1>3 DEF NextReload
  <2> QED BY <1>1, <2>2, <2>3
<1> QED BY <1>2, <1>3

-----------------------------------------------------------------------------
(* Types.                                                                  *)

\* The steps that touch the queue.
QueueOp == AddChat \/ Advance \/ ChatEnds \/ EndGS \/ MonitorGS \/ QueueSleep

LEMMA QueueOpTyped ==
    ASSUME Typed, QueueOp
    PROVE  Typed'
<1>0. /\ button' \in {"rest", "add"}
      /\ UNCHANGED <<registry, framework, lost, unloader, waker>>
  BY DEF QueueOp, AddChat, Advance, ChatEnds, EndGS, MonitorGS, QueueSleep, Typed,
         TypeOK
<1>1. PICK queue \in Seq(Item) : queue = mgr.queue
  BY DEF Typed, TypeOK, Manager
<1>2. CASE AddChat \/ (QueueSleep /\ mgr.nextId <= MaxItems)
  <2>1. mgr.nextId <= MaxItems /\ (Add("CHAT") \/ Add("SLEEP"))
    BY <1>2 DEF AddChat, QueueSleep
  <2> QED BY <1>0, <2>1, AddEffect, QueueTyped
<1>3. CASE Advance
  BY <1>0, <1>3, AdvanceEffect, QueueTyped
<1>4. CASE ChatEnds \/ EndGS \/ MonitorGS
  <2>1. Len(mgr'.queue) <= Len(mgr.queue)
    BY <1>1, <1>4, OtherQueueEffects, LenProperties
  <2> QED BY <1>0, <1>4, <2>1, OtherQueueEffects, QueueTyped
<1>5. CASE QueueSleep /\ ~(mgr.nextId <= MaxItems)
  BY <1>0, <1>5 DEF QueueSleep, coreVars, sleepVars, Typed, TypeOK
<1> QED BY <1>2, <1>3, <1>4, <1>5 DEF QueueOp

\* The threads keep to the modules.
LEMMA WakerTyped ==
    ASSUME Typed, NEW t \in Wakers, WakerStep(t)
    PROVE  Typed'
<1>1. waker \in [Wakers -> WakerPlaces] /\ waker[t].k \in 1..Len(ModuleOrder)
  BY DEF Typed, TypeOK, WakerPlaces
<1>2. ASSUME NEW at \in WakerSteps, Move(t, at)
      PROVE  waker' \in [Wakers -> WakerPlaces]
  <2>1. PICK p \in WakerPlaces : p = [waker[t] EXCEPT !.at = at]
    BY <1>1, Moves
  <2>2. waker' = [waker EXCEPT ![t] = p]
    BY <1>2, <2>1 DEF Move
  <2> QED BY <1>1, <2>2
<1>3. waker' \in [Wakers -> WakerPlaces]
  <2>1. ASSUME waker' = [waker EXCEPT ![t] = Rest]
        PROVE  waker' \in [Wakers -> WakerPlaces]
    BY <1>1, <2>1, Moves
  <2> HIDE DEF WakerPlaces
  <2> QED BY <1>1, <1>2, <2>1, Reloads
        DEF WakerStep, Look, Load, Register, CompleteSleep, PublishReady,
            ExitState, LeaveSleep, WakerSteps
<1>4. /\ registry' \subseteq Modules /\ framework' \subseteq Modules
      /\ lost' \subseteq Modules
  BY <1>1, Indices
     DEF WakerStep, Look, Load, Register, CompleteSleep, PublishReady,
         ExitState, LeaveSleep, coreVars, Typed, TypeOK, Mod
<1>5. /\ mgr' \in Manager /\ mgr'.queue = mgr.queue /\ mgr'.nextId = mgr.nextId
  <2>1. CASE CompleteSleep(t)
    BY <2>1, CompleteFields DEF CompleteSleep, Typed, TypeOK
  <2>2. CASE LeaveSleep(t)
    <3>1. mgr' = [mgr EXCEPT !.sm = "IDLE"] /\ mgr \in Manager
      BY <2>2 DEF LeaveSleep, Typed, TypeOK
    <3> QED BY <3>1 DEF Manager, States
  <2>3. CASE mgr' = mgr
    BY <2>3 DEF Typed, TypeOK
  <2> QED BY <2>1, <2>2, <2>3
        DEF WakerStep, Look, Load, Register, PublishReady, ExitState, coreVars
<1>6. /\ sleeping' \in BOOLEAN /\ contextFile' \in BOOLEAN
  <2>1. sleeping' \in {sleeping, FALSE} /\ contextFile' \in {contextFile, FALSE}
    BY DEF WakerStep, Look, Load, Register, CompleteSleep, PublishReady,
           ExitState, LeaveSleep, coreVars, sleepVars, WakeUp
  <2> QED BY <2>1 DEF Typed, TypeOK
<1>7. UNCHANGED <<gs, entered, raced, unloader, button>>
  BY DEF WakerStep, Look, Load, Register, CompleteSleep, PublishReady,
         ExitState, LeaveSleep, coreVars, sleepVars
<1> QED BY <1>3, <1>4, <1>5, <1>6, <1>7 DEF Typed, TypeOK, WakerPlaces

\* The bus thread and the button.
LEMMA OtherTyped ==
    ASSUME Typed, PressToSleep \/ PressToWake \/ BusStep
    PROVE  Typed'
<1>1. CASE PressToSleep
  BY <1>1 DEF PressToSleep, coreVars, sleepVars, Typed, TypeOK
<1>2. CASE PressToWake
  <2>1. PICK t \in Wakers : waker' = [waker EXCEPT ![t] = [at |-> "look", k |-> 1]]
    BY <1>2 DEF PressToWake
  <2>2. [at |-> "look", k |-> 1] \in WakerPlaces
    BY Indices DEF WakerPlaces, WakerSteps
  <2>3. waker' \in [Wakers -> WakerPlaces]
    BY <2>1, <2>2 DEF Typed, TypeOK, WakerPlaces
  <2>4. raced' \in BOOLEAN
    BY <1>2, Zenon DEF PressToWake
  <2> QED BY <1>2, <2>3, <2>4 DEF PressToWake, WakeUp, Typed, TypeOK, WakerPlaces
<1>3. CASE OnSleepEntered
  <2>1. [at |-> "unload", k |-> 1] \in Places
    BY Indices DEF Places
  <2>2. entered' \in 0..MaxItems /\ entered' = entered - 1
    BY <1>3, MaxItemsAssumption DEF OnSleepEntered, Typed, TypeOK
  <2>3. entered' + Len(mgr.queue) < mgr.nextId
    <3>1. PICK queue \in Seq(Item) : queue = mgr.queue
      BY DEF Typed, TypeOK, Manager
    <3>2. Len(queue) \in Nat
      BY LenProperties
    <3> QED BY <2>2, <3>1, <3>2, MaxItemsAssumption DEF Typed, TypeOK
  <2> QED BY <1>3, <2>1, <2>2, <2>3 DEF OnSleepEntered, Typed, TypeOK, Places
<1>4. CASE Unload \/ Forget
  <2>1. unloader \in Places /\ unloader.k \in 1..Len(ModuleOrder)
    BY DEF Typed, TypeOK, Places
  <2>2. unloader' \in Places
    BY <1>4, <2>1, Moves DEF Unload, Forget
  <2>3. registry' \subseteq registry /\ framework' \subseteq framework
    BY <1>4 DEF Unload, Forget
  <2> QED BY <1>4, <2>2, <2>3
        DEF Unload, Forget, coreVars, sleepVars, Typed, TypeOK, Places
<1> QED BY <1>1, <1>2, <1>3, <1>4 DEF BusStep

LEMMA TypedStep == Typed /\ [Next]_vars => Typed'
<1> SUFFICES ASSUME Typed, [Next]_vars PROVE Typed'
  OBVIOUS
<1>1. CASE QueueOp
  BY <1>1, QueueOpTyped
<1>2. CASE \E t \in Wakers : WakerStep(t)
  BY <1>2, WakerTyped
<1>3. CASE PressToSleep \/ PressToWake \/ BusStep
  BY <1>3, OtherTyped
<1>4. CASE Restart
  <2>1. /\ mgr' \in Manager /\ mgr'.queue = <<>> /\ mgr'.nextId = mgr.nextId
    BY <1>4, MaxItemsAssumption DEF Restart, FreshManager, Manager, States, Typed
  <2>2. entered' = 0 /\ 0 \in 0..MaxItems /\ Len(<<>>) = 0
    BY <1>4, MaxItemsAssumption DEF Restart
  <2>3. entered' + Len(mgr'.queue) < mgr'.nextId
    BY <2>1, <2>2, MaxItemsAssumption DEF Typed
  <2>4. unloader' \in Places /\ waker' \in [Wakers -> WakerPlaces]
    BY <1>4, Moves DEF Restart
  <2> QED BY <1>4, <2>1, <2>2, <2>3, <2>4
          DEF Restart, Typed, TypeOK, Places, WakerPlaces
<1>5. CASE UNCHANGED vars
  BY <1>5 DEF vars, Typed, TypeOK
<1> QED BY <1>1, <1>2, <1>3, <1>4, <1>5
        DEF Next, LoopStep, ButtonStep, QueueOp

LEMMA InitTyped == Init => Typed
<1> SUFFICES ASSUME Init PROVE Typed
  OBVIOUS
<1>1. /\ mgr \in Manager /\ mgr.queue = <<>> /\ mgr.nextId = 1
  BY DEF Init, FreshManager, Manager, States
<1>2. entered = 0 /\ 0 \in 0..MaxItems /\ Len(<<>>) = 0 /\ 1 \in 1..(MaxItems + 1)
  BY MaxItemsAssumption DEF Init
<1>3. entered + Len(mgr.queue) < mgr.nextId
  BY <1>1, <1>2
<1>4. unloader \in Places /\ waker \in [Wakers -> WakerPlaces]
  BY Moves DEF Init
<1> QED BY <1>1, <1>2, <1>3, <1>4 DEF Init, Typed, TypeOK, Places, WakerPlaces

\* Type correctness, whenever the user presses and for any number of reload threads:
\* the bus never has more sleeps to dispatch than items were queued.
THEOREM TypeCorrect == Spec => []TypeOK
<1>1. Typed => TypeOK
  BY DEF Typed
<1> QED BY <1>1, InitTyped, TypedStep, PTL DEF Spec

-----------------------------------------------------------------------------
(* The agreement of the records, until a sleep and a wake-up meet.         *)

\* The queue's own steps.
LEMMA QueueOpStep ==
    ASSUME Agree, Typed', ~raced', QueueOp
    PROVE  Agree'
<1>0. UNCHANGED <<registry, framework, lost, unloader, waker>> /\ Typed
  BY DEF QueueOp, AddChat, Advance, ChatEnds, EndGS, MonitorGS, QueueSleep, Agree
<1>1. CASE AddChat \/ (QueueSleep /\ mgr.nextId <= MaxItems)
  <2>1. Add("CHAT") \/ Add("SLEEP")
    BY <1>1 DEF AddChat, QueueSleep
  <2> QED BY <1>0, <2>1, AddEffect, QueueStep
<1>2. CASE Advance
  BY <1>0, <1>2, AdvanceEffect, QueueStep
<1>3. CASE ChatEnds \/ EndGS \/ MonitorGS
  BY <1>0, <1>3, OtherQueueEffects, QueueStep
<1>4. CASE QueueSleep /\ ~(mgr.nextId <= MaxItems)
  <2>1. Stays
    BY <1>4 DEF QueueSleep, coreVars, Stays
  <2> QED BY <1>0, <2>1, QueueStep
<1> QED BY <1>1, <1>2, <1>3, <1>4 DEF QueueOp

\* Nobody else is under way, so that only one reload thread matters.
LEMMA WakerAlone ==
    ASSUME Typed', NEW t \in Wakers,
           \A u \in Wakers \ {t} : waker'[u] = Rest,
           waker'[t].at = "rest" <=> waker'[t] = Rest,
           entered' = 0, unloader' = Rest,
           ~sleeping', ~contextFile',
           waker'[t].at \in {"look", "load", "register", "complete"} => Asleep(mgr'),
           waker'[t].at \in {"publish", "exit", "leave", "rest"} => ~Asleep(mgr'),
           framework' \cap lost' = {},
           waker'[t].at # "register" => framework' = registry',
           waker'[t].at = "register" =>
               /\ registry' = framework' \cup {Mod(waker'[t].k)}
               /\ Mod(waker'[t].k) \notin lost',
           waker'[t].at = "load" => Mod(waker'[t].k) \notin framework',
           waker'[t].at \in {"look", "load", "register"} =>
               \A i \in 1..(waker'[t].k - 1) : Mod(i) \in framework' \cup lost',
           waker'[t].at \notin {"look", "load", "register"} =>
               Modules \subseteq framework' \cup lost'
    PROVE  Agree'
<1>1. Rest.at = "rest" /\ waker'[t].at \in WakerSteps
  BY DEF Rest, Typed, TypeOK
<1>2. Turns'
  <2>1. \A u, v \in Wakers : waker'[u] # Rest /\ waker'[v] # Rest => u = v
    OBVIOUS
  <2>2. \A u \in Wakers : waker'[u].at = "rest" <=> waker'[u] = Rest
    BY <1>1
  <2> QED BY <1>1, <2>1, <2>2 DEF Turns, Waking
<1>3. Records'
  <2>1. ASSUME NEW u \in Wakers
        PROVE  /\ Reloading(u)' \/ waker'[u].at = "complete" => Asleep(mgr')
               /\ waker'[u].at \in {"publish", "exit", "leave"} => ~Asleep(mgr')
    BY <1>1 DEF Reloading
  <2>2. ~Asleep(mgr') \/ Waking'
    BY <1>1 DEF Waking, WakerSteps
  <2> QED BY <2>1, <2>2 DEF Records
<1>4. Holdings'
  <2>1. ASSUME NEW u \in Wakers
        PROVE  /\ waker'[u].at = "register" =>
                      /\ registry' = framework' \cup {Mod(waker'[u].k)}
                      /\ Mod(waker'[u].k) \notin lost'
               /\ waker'[u].at = "load" => Mod(waker'[u].k) \notin framework'
               /\ Reloading(u)' => Handled(waker[u].k)'
               /\ waker'[u] # Rest /\ ~Reloading(u)' => Modules \subseteq framework' \cup lost'
    BY <1>1 DEF Reloading, Handled
  <2>2. /\ (\A u \in Wakers : waker'[u].at # "register") => framework' = registry'
        /\ unloader'.at # "forget"
    BY <1>1
  <2>3. ~Asleep(mgr') => Modules \subseteq framework' \cup lost'
    BY <1>1
  <2> QED BY <2>1, <2>2, <2>3 DEF Holdings, Mod
<1> QED BY <1>2, <1>3, <1>4 DEF Agree

\* What is known of a reload thread that is under way.
LEMMA WakerKnown ==
    ASSUME Agree, NEW t \in Wakers, waker[t].at # "rest"
    PROVE  /\ \A u \in Wakers \ {t} : waker[u] = Rest
           /\ entered = 0 /\ unloader = Rest
           /\ ~sleeping /\ ~contextFile
           /\ waker[t].at \in {"look", "load", "register", "complete"} => Asleep(mgr)
           /\ waker[t].at \in {"publish", "exit", "leave"} => ~Asleep(mgr)
           /\ framework \cap lost = {}
           /\ waker[t].at # "register" => framework = registry
           /\ waker[t].at = "register" =>
                  /\ registry = framework \cup {Mod(waker[t].k)}
                  /\ Mod(waker[t].k) \notin lost
           /\ waker[t].at = "load" => Mod(waker[t].k) \notin framework
           /\ waker[t].at \in {"look", "load", "register"} =>
                  \A i \in 1..(waker[t].k - 1) : Mod(i) \in framework \cup lost
           /\ waker[t].at \notin {"look", "load", "register"} =>
                  Modules \subseteq framework \cup lost
<1>1. Rest.at = "rest" /\ waker[t] # Rest
  BY DEF Rest
<1>2. /\ \A u \in Wakers \ {t} : waker[u] = Rest
      /\ entered = 0 /\ unloader = Rest /\ Waking
  BY <1>1 DEF Agree, Turns, Waking
<1>3. /\ ~sleeping /\ ~contextFile
      /\ waker[t].at \in {"look", "load", "register", "complete"} => Asleep(mgr)
      /\ waker[t].at \in {"publish", "exit", "leave"} => ~Asleep(mgr)
  BY <1>2 DEF Agree, Records, Reloading
<1>4. waker[t].at # "register" => framework = registry
  BY <1>1, <1>2 DEF Agree, Holdings
<1> QED BY <1>1, <1>2, <1>3, <1>4 DEF Agree, Holdings, Reloading, Handled

\* The next module, or the end of the reload.
LEMMA ReloadGoesOn ==
    ASSUME Agree, Typed', NEW t \in Wakers, NextReload(t),
           \A i \in 1..waker[t].k : Mod(i) \in framework' \cup lost'
    PROVE  /\ \A u \in Wakers \ {t} : waker'[u] = waker[u]
           /\ waker'[t].at \in {"look", "complete"}
           /\ waker'[t].at = "look" =>
                 \A i \in 1..(waker'[t].k - 1) : Mod(i) \in framework' \cup lost'
           /\ waker'[t].at = "complete" => Modules \subseteq framework' \cup lost'
<1>1. /\ waker \in [Wakers -> WakerPlaces] /\ waker[t].k \in 1..Len(ModuleOrder)
  BY DEF Agree, Typed, TypeOK, WakerPlaces
<1>2. CASE waker[t].k = Len(ModuleOrder)
  <2>1. waker'[t] = [at |-> "complete", k |-> 1]
    BY <1>1, <1>2 DEF NextReload
  <2>2. Modules \subseteq framework' \cup lost'
    BY <1>2, Indices
  <2> QED BY <1>1, <2>1, <2>2 DEF NextReload
<1>3. CASE waker[t].k # Len(ModuleOrder)
  <2>1. waker'[t] = [at |-> "look", k |-> waker[t].k + 1]
    BY <1>1, <1>3 DEF NextReload
  <2>2. waker'[t].k - 1 = waker[t].k
    BY <1>1, <2>1, Indices
  <2> QED BY <1>1, <2>1, <2>2 DEF NextReload
<1> QED BY <1>2, <1>3

LEMMA WakerStepInv ==
    ASSUME Agree, Typed', NEW t \in Wakers, WakerStep(t)
    PROVE  Agree'
<1>0. /\ waker \in [Wakers -> WakerPlaces] /\ waker[t].k \in 1..Len(ModuleOrder)
      /\ mgr \in Manager
  BY DEF Agree, Typed, TypeOK, WakerPlaces
<1>1. waker[t].at # "rest"
  BY DEF WakerStep, Look, Load, Register, CompleteSleep, PublishReady,
         ExitState, LeaveSleep
<1>2. Rest.at = "rest" /\ waker'[t].at \in WakerSteps
  BY DEF Rest, Typed, TypeOK
<1>3. UNCHANGED <<entered, unloader, button>>
  BY DEF WakerStep, Look, Load, Register, CompleteSleep, PublishReady,
         ExitState, LeaveSleep, coreVars, sleepVars
<1>4. ASSUME NEW at \in WakerSteps, at # "rest", Move(t, at)
      PROVE  /\ \A u \in Wakers \ {t} : waker'[u] = waker[u]
             /\ waker'[t].at = at /\ waker'[t].k = waker[t].k
             /\ waker'[t].at = "rest" <=> waker'[t] = Rest
  BY <1>0, <1>2, <1>4 DEF Move, WakerPlaces
<1>5. \A i \in 1..waker[t].k : i \in 1..(waker[t].k - 1) \/ i = waker[t].k
  BY <1>0
<1>6. CASE Look(t)
  <2>1. /\ UNCHANGED coreVars /\ UNCHANGED <<registry, framework, lost>>
        /\ waker[t].at = "look"
    BY <1>6 DEF Look
  <2>2. CASE Mod(waker[t].k) \in framework
    <3>1. NextReload(t)
      BY <1>6, <2>2 DEF Look, Mod
    <3>2. \A i \in 1..waker[t].k : Mod(i) \in framework' \cup lost'
      BY <1>1, <1>5, <2>1, <2>2, WakerKnown
    <3>3. waker'[t].at = "rest" <=> waker'[t] = Rest
      BY <1>2, <3>1, <3>2, ReloadGoesOn
    <3> QED BY <1>1, <1>3, <2>1, <3>1, <3>2, <3>3, WakerKnown, ReloadGoesOn, WakerAlone
            DEF coreVars, sleepVars
  <2>3. CASE Mod(waker[t].k) \notin framework
    <3>1. Move(t, "load")
      BY <1>6, <2>3 DEF Look, Mod
    <3> QED BY <1>1, <1>3, <1>4, <2>1, <2>3, <3>1, WakerKnown, WakerAlone
            DEF coreVars, sleepVars, WakerSteps
  <2> QED BY <2>2, <2>3
<1>7. CASE Load(t)
  <2>1. UNCHANGED coreVars /\ framework' = framework /\ waker[t].at = "load"
    BY <1>7 DEF Load
  <2>2. Mod(waker[t].k) \notin framework /\ framework = registry
    BY <1>1, <2>1, WakerKnown
  <2>3. CASE /\ registry' = registry \cup {Mod(waker[t].k)}
             /\ lost' = lost \ {Mod(waker[t].k)} /\ Move(t, "register")
    <3>1. /\ waker'[t].at = "register" /\ waker'[t].k = waker[t].k
          /\ waker'[t] # Rest /\ \A u \in Wakers \ {t} : waker'[u] = Rest
      BY <1>1, <1>2, <1>4, <2>3, WakerKnown DEF WakerSteps
    <3>2. \A i \in 1..(waker[t].k - 1) : Mod(i) \in framework' \cup lost'
      <4>1. \A i \in 1..(waker[t].k - 1) : i \in 1..Len(ModuleOrder) /\ i # waker[t].k
        BY <1>0, Indices
      <4>2. \A i \in 1..(waker[t].k - 1) : Mod(i) # Mod(waker[t].k)
        BY <1>0, <4>1, Indices
      <4> QED BY <1>1, <2>1, <2>3, <4>2, WakerKnown
    <3>3. /\ registry' = framework' \cup {Mod(waker'[t].k)}
          /\ Mod(waker'[t].k) \notin lost' /\ framework' \cap lost' = {}
      BY <1>1, <2>1, <2>2, <2>3, <3>1, WakerKnown
    <3> QED BY <1>1, <1>3, <2>1, <3>1, <3>2, <3>3, WakerKnown, WakerAlone
            DEF coreVars, sleepVars
  <2>4. CASE /\ lost' = lost \cup {Mod(waker[t].k)} /\ registry' = registry
             /\ NextReload(t)
    <3>1. \A i \in 1..waker[t].k : Mod(i) \in framework' \cup lost'
      BY <1>1, <1>5, <2>1, <2>4, WakerKnown
    <3>2. waker'[t].at = "rest" <=> waker'[t] = Rest
      BY <1>2, <2>4, <3>1, ReloadGoesOn
    <3>3. framework' \cap lost' = {} /\ framework' = registry'
      BY <1>1, <2>1, <2>2, <2>4, WakerKnown
    <3> QED BY <1>1, <1>3, <2>1, <2>4, <3>1, <3>2, <3>3, WakerKnown, ReloadGoesOn,
               WakerAlone DEF coreVars, sleepVars
  <2> QED BY <1>7, <2>3, <2>4 DEF Load, Mod
<1>8. CASE Register(t)
  <2>1. /\ UNCHANGED coreVars /\ UNCHANGED <<registry, lost>>
        /\ waker[t].at = "register" /\ NextReload(t)
        /\ framework' = framework \cup {Mod(waker[t].k)}
    BY <1>8 DEF Register, Mod
  <2>2. \A i \in 1..waker[t].k : Mod(i) \in framework' \cup lost'
    BY <1>1, <1>5, <2>1, WakerKnown
  <2>3. waker'[t].at = "rest" <=> waker'[t] = Rest
    BY <1>2, <2>1, <2>2, ReloadGoesOn
  <2>4. framework' \cap lost' = {} /\ framework' = registry'
    BY <1>1, <2>1, WakerKnown
  <2> QED BY <1>1, <1>3, <2>1, <2>2, <2>3, <2>4, WakerKnown, ReloadGoesOn, WakerAlone
          DEF coreVars, sleepVars
<1>9. CASE CompleteSleep(t)
  <2>1. /\ UNCHANGED <<sleepVars, registry, framework, lost>>
        /\ waker[t].at = "complete" /\ Move(t, "publish") /\ Asleep(mgr)
    BY <1>1, <1>9, WakerKnown DEF CompleteSleep
  <2>2. ~Asleep(mgr')
    BY <1>0, <1>9, <2>1, CompleteFields DEF CompleteSleep, Asleep, NoItem
  <2> QED BY <1>1, <1>3, <1>4, <2>1, <2>2, WakerKnown, WakerAlone DEF WakerSteps, sleepVars
<1>10. CASE PublishReady(t)
  <2>1. /\ UNCHANGED coreVars /\ UNCHANGED <<registry, framework, lost>>
        /\ waker[t].at = "publish" /\ Move(t, "exit")
    BY <1>10 DEF PublishReady
  <2> QED BY <1>1, <1>3, <1>4, <2>1, WakerKnown, WakerAlone DEF WakerSteps, coreVars, sleepVars
<1>11. CASE ExitState(t)
  <2>1. /\ UNCHANGED <<mgr, gs, registry, framework, lost>>
        /\ waker[t].at = "exit" /\ UNCHANGED <<sleeping, contextFile>>
        /\ Move(t, "leave") \/ waker' = [waker EXCEPT ![t] = Rest]
    BY <1>1, <1>11, WakerKnown DEF ExitState
  <2>2. CASE Move(t, "leave")
    BY <1>1, <1>3, <1>4, <2>1, <2>2, WakerKnown, WakerAlone DEF WakerSteps
  <2>3. CASE waker' = [waker EXCEPT ![t] = Rest]
    <3>1. waker'[t] = Rest /\ \A u \in Wakers \ {t} : waker'[u] = waker[u]
      BY <1>0, <2>3
    <3> QED BY <1>1, <1>2, <1>3, <2>1, <3>1, WakerKnown, WakerAlone
  <2> QED BY <2>1, <2>2, <2>3
<1>12. CASE LeaveSleep(t)
  <2>1. /\ UNCHANGED <<sleepVars, registry, framework, lost>>
        /\ waker[t].at = "leave" /\ waker' = [waker EXCEPT ![t] = Rest]
        /\ mgr' = [mgr EXCEPT !.sm = "IDLE"]
    BY <1>12 DEF LeaveSleep
  <2>2. Asleep(mgr') = Asleep(mgr)
    BY <1>0, <2>1 DEF Manager, Asleep
  <2>3. waker'[t] = Rest /\ \A u \in Wakers \ {t} : waker'[u] = waker[u]
    BY <1>0, <2>1
  <2> QED BY <1>1, <1>2, <1>3, <2>1, <2>2, <2>3, WakerKnown, WakerAlone DEF sleepVars
<1> QED BY <1>6, <1>7, <1>8, <1>9, <1>10, <1>11, <1>12 DEF WakerStep

\* A press to wake finds a sleep; if nothing is still to be unloaded, the sleep
\* is complete, and the thread is the only one that reloads.
LEMMA PressToWakeInv ==
    ASSUME Agree, Typed', ~raced', PressToWake
    PROVE  Agree'
<1>1. /\ UNCHANGED <<mgr, gs, entered, registry, framework, lost, unloader, button>>
      /\ sleeping /\ ~sleeping' /\ ~contextFile'
      /\ ~(entered > 0) /\ unloader = Rest
  BY DEF PressToWake, WakeUp, Unloading
<1>2. PICK t \in Wakers : waker' = [waker EXCEPT ![t] = [at |-> "look", k |-> 1]]
  BY DEF PressToWake
<1>3. Asleep(mgr) /\ ~Waking /\ entered = 0
  BY <1>1 DEF Agree, Records, Typed, TypeOK
<1>4. /\ waker \in [Wakers -> WakerPlaces]
      /\ waker'[t] = [at |-> "look", k |-> 1]
      /\ \A u \in Wakers \ {t} : waker'[u] = Rest
  BY <1>2, <1>3 DEF Agree, Typed, TypeOK, WakerPlaces, Waking
<1>5. waker'[t].at = "look" /\ waker'[t].k = 1 /\ waker'[t] # Rest
  BY <1>4 DEF Rest
<1>6. unloader.at # "forget" /\ \A u \in Wakers : waker[u].at # "register"
  BY <1>1, <1>3 DEF Waking, Rest
<1>7. framework = registry /\ framework \cap lost = {}
  BY <1>6 DEF Agree, Holdings
<1>8. \A i \in 1..(waker'[t].k - 1) : Mod(i) \in framework' \cup lost'
  BY <1>5
<1> QED BY <1>1, <1>3, <1>4, <1>5, <1>7, <1>8, WakerAlone

\* The bus thread unloads while nobody reloads.
LEMMA BusInv ==
    ASSUME Agree, Typed', BusStep
    PROVE  Agree'
<1>0. /\ UNCHANGED <<mgr, sleeping, contextFile, lost, waker>>
      /\ entered \in Nat /\ unloader \in Places
  BY DEF BusStep, OnSleepEntered, Unload, Forget, coreVars, sleepVars, Agree, Typed,
         TypeOK, Places
<1>1. entered = 1 \/ unloader.at \in {"unload", "forget"}
  BY <1>0 DEF BusStep, OnSleepEntered, Unload, Forget, Agree, Turns
<1>2. Asleep(mgr) /\ ~Waking
  BY <1>1 DEF Agree, Turns, Rest
<1>3. \A t \in Wakers : waker[t] = Rest /\ waker[t].at = "rest"
  BY <1>2 DEF Waking, Rest
<1>4. Records'
  BY <1>0, <1>2 DEF Agree, Records, Waking, Reloading
<1>5. ASSUME NEW k \in 1..Len(ModuleOrder)
      PROVE  /\ NextUnload(k).at \in {"rest", "unload"}
             /\ NextUnload(k).at = "rest" <=> NextUnload(k) = Rest
  BY <1>5 DEF NextUnload, Rest
<1>6. unloader.k \in 1..Len(ModuleOrder)
  BY <1>0 DEF Places
<1>7. /\ entered' = 0
      /\ unloader'.at = "rest" <=> unloader' = Rest
  <2>1. CASE OnSleepEntered
    BY <1>0, <2>1 DEF OnSleepEntered, Rest, Agree, Turns
  <2>2. CASE Unload \/ Forget
    <3>1. entered' = 0
      BY <2>2 DEF Unload, Forget, coreVars, sleepVars, Agree, Turns, Rest
    <3>2. unloader' = NextUnload(unloader.k) \/ unloader'.at = "forget"
      BY <1>0, <2>2 DEF Unload, Forget, Places
    <3> QED BY <1>5, <1>6, <3>1, <3>2 DEF Rest
  <2> QED BY <2>1, <2>2 DEF BusStep
<1>8. Turns'
  BY <1>0, <1>2, <1>3, <1>7 DEF Turns, Waking
<1>9. /\ framework' \cap lost' = {}
      /\ unloader'.at # "forget" => framework' = registry'
      /\ unloader'.at = "forget" =>
            /\ framework' = registry' \cup {Mod(unloader'.k)}
            /\ Mod(unloader'.k) \notin registry'
  <2>1. /\ framework \cap lost = {}
        /\ unloader.at # "forget" => framework = registry
        /\ unloader.at = "forget" =>
              /\ framework = registry \cup {Mod(unloader.k)}
              /\ Mod(unloader.k) \notin registry
    BY <1>3 DEF Agree, Holdings
  <2>2. CASE OnSleepEntered
    <3>1. unloader.at # "forget" /\ unloader'.at = "unload"
      BY <2>2 DEF OnSleepEntered, Rest
    <3> QED BY <1>0, <2>1, <2>2, <3>1 DEF OnSleepEntered
  <2>3. CASE Unload
    <3>1. /\ unloader.at = "unload" /\ framework' = framework
          /\ \/ /\ registry' = registry \ {Mod(unloader.k)}
                /\ Mod(unloader.k) \in registry
                /\ unloader' = [unloader EXCEPT !.at = "forget"]
             \/ unloader' = NextUnload(unloader.k) /\ registry' = registry
      BY <2>3 DEF Unload, Mod
    <3>2. CASE unloader' = NextUnload(unloader.k) /\ registry' = registry
      BY <1>0, <1>5, <1>6, <2>1, <3>1, <3>2
    <3>3. CASE /\ registry' = registry \ {Mod(unloader.k)}
               /\ Mod(unloader.k) \in registry
               /\ unloader' = [unloader EXCEPT !.at = "forget"]
      <4>1. unloader'.at = "forget" /\ unloader'.k = unloader.k
        BY <1>0, <3>3 DEF Places
      <4> QED BY <1>0, <2>1, <3>1, <3>3, <4>1
    <3> QED BY <3>1, <3>2, <3>3
  <2>4. CASE Forget
    <3>1. /\ unloader.at = "forget" /\ framework' = framework \ {Mod(unloader.k)}
          /\ unloader' = NextUnload(unloader.k) /\ registry' = registry
      BY <2>4 DEF Forget, Mod
    <3> QED BY <1>0, <1>5, <1>6, <2>1, <3>1
  <2> QED BY <2>2, <2>3, <2>4 DEF BusStep
<1>10. Holdings'
  BY <1>0, <1>2, <1>3, <1>9 DEF Holdings, Reloading, Rest
<1> QED BY <1>4, <1>8, <1>10 DEF Agree

\* A start, the first one or one after a crash, finds everything in place.
Fresh ==
    /\ mgr.currentItem = NoItem
    /\ ~sleeping /\ ~contextFile /\ entered = 0 /\ unloader = Rest
    /\ waker = [t \in Wakers |-> Rest]
    /\ registry = Modules /\ framework = Modules /\ lost = {}

LEMMA FreshInv == Typed /\ Fresh => Agree
<1> SUFFICES ASSUME Typed, Fresh PROVE Agree
  OBVIOUS
<1>1. /\ \A t \in Wakers : waker[t] = Rest /\ waker[t].at = "rest"
      /\ unloader.at = "rest" /\ ~Waking /\ ~Asleep(mgr)
  BY DEF Fresh, Rest, Waking, Asleep, NoItem
<1>2. Turns
  BY <1>1 DEF Fresh, Turns
<1>3. Records
  BY <1>1 DEF Fresh, Records, Reloading
<1>4. Holdings
  BY <1>1 DEF Fresh, Holdings, Reloading
<1> QED BY <1>2, <1>3, <1>4 DEF Agree

\* Only a start forgets that a sleep and a wake-up have met.
LEMMA RacedKept == raced /\ [Next]_vars /\ ~Restart => raced'
BY DEF Next, vars, AddChat, Add, Enter, ChatEnds, MonitorGS, LoopStep, Advance, EndGS,
       ButtonStep, PressToSleep, QueueSleep, PressToWake, BusStep, OnSleepEntered, Unload,
       Forget, WakerStep, Look, Load, Register, CompleteSleep, PublishReady, ExitState,
       LeaveSleep, coreVars, sleepVars

LEMMA Inductive == IInv /\ [Next]_vars => IInv'
<1> SUFFICES ASSUME IInv, [Next]_vars, ~raced' PROVE Agree'
  BY TypedStep DEF IInv
<1>0. Typed /\ Typed'
  BY TypedStep DEF IInv
<1>1. CASE Restart
  <2>1. Fresh'
    BY <1>1 DEF Restart, FreshManager, Fresh
  <2> QED BY <1>0, <2>1, FreshInv, PTL
<1>2. CASE ~Restart
  <2>0. Agree
    BY <1>2, RacedKept DEF IInv
  <2>1. CASE QueueOp
    BY <1>0, <2>0, <2>1, QueueOpStep
  <2>2. CASE \E t \in Wakers : WakerStep(t)
    BY <1>0, <2>0, <2>2, WakerStepInv
  <2>3. CASE PressToWake
    BY <1>0, <2>0, <2>3, PressToWakeInv
  <2>4. CASE BusStep
    BY <1>0, <2>0, <2>4, BusInv
  <2>5. CASE UNCHANGED vars \/ PressToSleep
    <3>1. UNCHANGED <<coreVars, registry, framework, lost, unloader, waker>>
      BY <2>5 DEF vars, PressToSleep, coreVars, sleepVars
    <3> QED BY <1>0, <2>0, <3>1
            DEF Agree, Turns, Records, Holdings, Handled, Waking, Reloading, Mod,
                coreVars, sleepVars
  <2> QED BY <1>2, <2>1, <2>2, <2>3, <2>4, <2>5
          DEF Next, LoopStep, ButtonStep, QueueOp
<1> QED BY <1>1, <1>2

\* Whenever all threads have finished, the five records of the sleep agree, in
\* every behaviour in which no wake-up has begun before the modules were unloaded
\* and no sleep before they were reloaded since the program started: for any
\* modules, in any order, whether or not they fail to load, for presses, chats
\* and crashes at any moment.
THEOREM SleepConsistent == Spec => []SleepIsConsistent
<1>1. Init => IInv
  <2> SUFFICES ASSUME Init PROVE Typed /\ Agree
    BY DEF IInv
  <2>1. Fresh
    BY DEF Init, FreshManager, Fresh
  <2> QED BY <2>1, InitTyped, FreshInv
<1>2. IInv /\ [Next]_vars => IInv'
  BY Inductive
<1>3. IInv => SleepIsConsistent
  <2> SUFFICES ASSUME Agree, Quiet PROVE SleepIsConsistent
    BY DEF IInv, SleepIsConsistent
  <2>1. /\ ~Waking /\ unloader.at # "forget"
        /\ \A t \in Wakers : waker[t].at # "register"
    BY DEF Quiet, Waking, Rest
  <2>2. /\ sleeping \in BOOLEAN /\ contextFile \in BOOLEAN
        /\ framework \subseteq Modules /\ lost \subseteq Modules
    BY DEF Agree, Typed, TypeOK
  <2>3. /\ sleeping <=> Asleep(mgr)
        /\ contextFile <=> Asleep(mgr)
        /\ sleeping => mgr.sm = "SLEEP"
    BY <2>1 DEF Agree, Records
  <2>4. /\ framework = registry
        /\ ~Asleep(mgr) => framework = Modules \ lost
    BY <2>1, <2>2 DEF Agree, Holdings
  <2> QED BY <2>2, <2>3, <2>4 DEF SleepIsConsistent, Asleep
<1> QED BY <1>1, <1>2, <1>3, PTL DEF Spec
=============================================================================
