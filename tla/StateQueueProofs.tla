-------------------------- MODULE StateQueueProofs --------------------------
(***************************************************************************)
(* Proofs about StateQueue for any number of items and any custom          *)
(* priorities below that of an interruption.                               *)
(*                                                                         *)
(* The inductive invariant adds to the properties only that identities are *)
(* handed out in increasing order (IdsBelow): without it the insertion     *)
(* behind equals would not be known to keep older items first.             *)
(*                                                                         *)
(* The first two sections, on the operations of StateQueueOps, serve the   *)
(* proofs about SessionLifecycle and SleepWake as well.                    *)
(***************************************************************************)
EXTENDS StateQueue, TLAPS, SequenceTheorems, NaturalsInduction,
        WellFoundedInduction

\* Every identity in the queue is positive and below the next one.
IdsBelow(queue, next) ==
    \A i \in 1..Len(queue) : queue[i].id # 0 /\ queue[i].id < next

-----------------------------------------------------------------------------
(* The insertion point and the insertion.                                  *)

\* A non-empty set of natural numbers has a least element.
LEMMA LeastNatural ==
    ASSUME NEW S \in SUBSET Nat, S # {}
    PROVE  \E k \in S : \A i \in S : k <= i
<1>1. IsWellFoundedOn(OpToRel(<, Nat), Nat)
  BY NatLessThanWellFounded
<1>2. PICK k \in S : \A i \in S : ~(<<i, k>> \in OpToRel(<, Nat))
  BY <1>1, WFMin, Zenon
<1>3. \A i \in S : ~(i < k)
  BY <1>2 DEF OpToRel
<1> QED BY <1>3

\* The fields of an item.
LEMMA ItemTypes ==
    \A item \in Item : /\ item.id \in Nat
                       /\ item.prio \in Nat
                       /\ item.prio <= InterruptPriority
                       /\ item.state \in QueuedStates
                       /\ item # NoItem
BY DEF Item, InterruptPriority, NoItem, QueuedStates

\* What is in a queue is an item.
LEMMA ItemFields ==
    ASSUME NEW queue \in Seq(Item), NEW i \in 1..Len(queue)
    PROVE  /\ queue[i] \in Item
           /\ queue[i].id \in Nat
           /\ queue[i].prio \in Nat
           /\ queue[i].prio <= InterruptPriority
<1>1. queue[i] \in Item
  BY ElementOfSeq
<1> QED BY <1>1, ItemTypes

\* The loop of add_state always finds a place.
LEMMA InsertionPointExists ==
    ASSUME NEW queue \in Seq(Item), NEW prio \in Nat
    PROVE  \E k \in 1..(Len(queue) + 1) : IsInsertionPoint(queue, k, prio)
<1> DEFINE Lower == {i \in 1..Len(queue) : queue[i].prio < prio}
<1>0. \A i \in 1..Len(queue) : queue[i].prio \in Nat
  BY ItemFields
<1>1. CASE Lower = {}
  <2>1. IsInsertionPoint(queue, Len(queue) + 1, prio)
    BY <1>0, <1>1 DEF IsInsertionPoint
  <2> QED BY <2>1
<1>2. CASE Lower # {}
  <2>1. PICK k \in Lower : \A i \in Lower : k <= i
    <3>1. Lower \in SUBSET Nat
      OBVIOUS
    <3> HIDE DEF Lower
    <3> QED BY <1>2, <3>1, LeastNatural
  <2>2. IsInsertionPoint(queue, k, prio)
    BY <1>0, <2>1 DEF IsInsertionPoint
  <2> QED BY <2>1, <2>2
<1> QED BY <1>1, <1>2

\* What the chosen place is, once and for all.
LEMMA InsertionPointProperties ==
    ASSUME NEW queue \in Seq(Item), NEW prio \in Nat
    PROVE  /\ InsertionPoint(queue, prio) \in 1..(Len(queue) + 1)
           /\ IsInsertionPoint(queue, InsertionPoint(queue, prio), prio)
BY InsertionPointExists DEF InsertionPoint

\* InsertAt, index by index: q is queue with item put in at k.
Inserted(q, queue, k, item) ==
    /\ q \in Seq(Item)
    /\ Len(q) = Len(queue) + 1
    /\ \A i \in 1..(Len(queue) + 1) :
         q[i] = IF i < k THEN queue[i]
                ELSE IF i = k THEN item ELSE queue[i - 1]

LEMMA InsertAtProperties ==
    ASSUME NEW queue \in Seq(Item), NEW item \in Item,
           NEW k \in 1..(Len(queue) + 1)
    PROVE  Inserted(InsertAt(queue, k, item), queue, k, item)
<1> DEFINE front == SubSeq(queue, 1, k - 1)
           back  == SubSeq(queue, k, Len(queue))
<1>0. Len(queue) \in Nat /\ k \in Nat
  BY LenProperties
<1>1. /\ front \in Seq(Item) /\ Len(front) = k - 1
      /\ \A i \in 1..(k - 1) : front[i] = queue[i]
  OBVIOUS
<1>2. /\ back \in Seq(Item) /\ Len(back) = Len(queue) + 1 - k
      /\ \A i \in 1..(Len(queue) + 1 - k) : back[i] = queue[k + i - 1]
  OBVIOUS
<1> DEFINE mid == front \o <<item>>
<1> HIDE DEF front, back
<1>3. /\ mid \in Seq(Item) /\ Len(mid) = k
      /\ \A i \in 1..k : mid[i] = IF i < k THEN queue[i] ELSE item
  <2>1. <<item>> \in Seq(Item) /\ Len(<<item>>) = 1 /\ <<item>>[1] = item
    OBVIOUS
  <2> QED BY <1>1, <2>1, ConcatProperties
<1>4. InsertAt(queue, k, item) = mid \o back
  BY DEF InsertAt, front, back
<1> HIDE DEF mid
<1>5. /\ mid \o back \in Seq(Item)
      /\ Len(mid \o back) = Len(queue) + 1
      /\ \A i \in 1..(Len(queue) + 1) :
           (mid \o back)[i] = IF i <= k THEN mid[i] ELSE back[i - k]
  <2>1. /\ mid \o back \in Seq(Item)
        /\ Len(mid \o back) = Len(mid) + Len(back)
        /\ \A i \in 1..(Len(mid) + Len(back)) :
             (mid \o back)[i] = IF i <= Len(mid) THEN mid[i]
                               ELSE back[i - Len(mid)]
    BY <1>2, <1>3, ConcatProperties, Zenon
  <2>2. Len(queue) \in Nat /\ Len(mid) + Len(back) = Len(queue) + 1
    BY <1>2, <1>3, LenProperties
  <2> QED BY <1>3, <2>1, <2>2
<1>6. ASSUME NEW i \in 1..(Len(queue) + 1)
      PROVE  (mid \o back)[i] = IF i < k THEN queue[i]
                                ELSE IF i = k THEN item ELSE queue[i - 1]
  <2>1. CASE i <= k
    BY <1>3, <1>5, <2>1
  <2>2. CASE i > k
    <3>1. i - k \in 1..(Len(queue) + 1 - k) /\ k + (i - k) - 1 = i - 1
      BY <2>2, LenProperties
    <3>2. back[i - k] = queue[k + (i - k) - 1]
      BY <1>2, <3>1
    <3>3. (mid \o back)[i] = back[i - k]
      BY <1>5, <2>2
    <3>4. ~(i < k) /\ i # k
      BY <2>2
    <3> QED BY <3>1, <3>2, <3>3, <3>4
  <2>3. i <= k \/ i > k
    BY <1>0
  <2> QED BY <2>1, <2>2, <2>3, Zenon
<1>7. \A i \in 1..(Len(queue) + 1) :
         (mid \o back)[i] = IF i < k THEN queue[i]
                           ELSE IF i = k THEN item ELSE queue[i - 1]
  BY <1>6
<1> QED BY <1>4, <1>5, <1>7, Zenon DEF Inserted

-----------------------------------------------------------------------------
(* Identities and members.                                                 *)

\* An item younger than all others duplicates none of them.
LEMMA DistinctInsertion ==
    ASSUME NEW queue \in Seq(Item), NEW current \in Item \cup {NoItem},
           Distinct(queue, current), NEW item \in Item, item.id # 0,
           IdsBelow(queue, item.id), current.id < item.id,
           NEW k \in 1..(Len(queue) + 1)
    PROVE  /\ Distinct(InsertAt(queue, k, item), current)
           /\ IdsBelow(InsertAt(queue, k, item), item.id + 1)
<1> DEFINE q == InsertAt(queue, k, item)
<1>0. Len(queue) \in Nat /\ k \in Nat /\ item.id \in Nat
  BY LenProperties, ItemTypes
<1>1. /\ Len(q) = Len(queue) + 1
      /\ \A i \in 1..(Len(queue) + 1) :
           q[i] = IF i < k THEN queue[i]
                  ELSE IF i = k THEN item ELSE queue[i - 1]
  <2>1. Inserted(q, queue, k, item)
    BY InsertAtProperties
  <2> HIDE DEF q
  <2> QED BY <2>1 DEF Inserted
<1>2. \A i \in 1..Len(queue) : /\ queue[i].id \in Nat /\ queue[i].id # 0
                               /\ queue[i].id < item.id
  BY ItemFields DEF IdsBelow
<1>3. current.id \in Nat
  BY ItemTypes DEF NoItem
<1> HIDE DEF q
<1> DEFINE old(i) == IF i < k THEN i ELSE i - 1
<1>4. ASSUME NEW i \in 1..Len(q), i # k
      PROVE  /\ old(i) \in 1..Len(queue) /\ q[i] = queue[old(i)]
             /\ \A j \in 1..Len(q) : j # k /\ old(i) = old(j) => i = j
  BY <1>0, <1>1, <1>4
<1>5. ASSUME NEW i \in 1..Len(q), i = k
      PROVE  q[i] = item
  BY <1>0, <1>1, <1>5
<1> HIDE DEF old
<1>6. ASSUME NEW i \in 1..Len(q)
      PROVE  /\ q[i].id # current.id
             /\ q[i].id # 0 /\ q[i].id < item.id + 1
  <2>1. CASE i = k
    BY <1>0, <1>3, <1>5, <2>1
  <2>2. CASE i # k
    BY <1>0, <1>2, <1>3, <1>4, <2>2 DEF Distinct
  <2> QED BY <2>1, <2>2
<1>7. ASSUME NEW i \in 1..Len(q), NEW j \in 1..Len(q), q[i].id = q[j].id
      PROVE  i = j
  <2>1. CASE i = k /\ j = k
    BY <2>1
  <2>2. CASE i = k /\ j # k
    BY <1>0, <1>2, <1>4, <1>5, <1>7, <2>2
  <2>3. CASE i # k /\ j = k
    BY <1>0, <1>2, <1>4, <1>5, <1>7, <2>3
  <2>4. CASE i # k /\ j # k
    BY <1>4, <1>7, <2>4 DEF Distinct
  <2> QED BY <2>1, <2>2, <2>3, <2>4
<1> QED BY <1>6, <1>7 DEF Distinct, IdsBelow, q

\* The members of a queue, by index.
LEMMA Members ==
    ASSUME NEW queue \in Seq(Item)
    PROVE  /\ \A i \in 1..Len(queue) : queue[i] \in ToSet(queue)
           /\ \A j \in ToSet(queue) : \E i \in 1..Len(queue) : j = queue[i]
           /\ (queue = <<>>) => ToSet(queue) = {}
<1>1. DOMAIN queue = 1..Len(queue)
  OBVIOUS
<1> QED BY <1>1 DEF ToSet

\* An insertion adds the item and nothing else.
LEMMA InsertedSet ==
    ASSUME NEW queue \in Seq(Item), NEW item \in Item, NEW k \in 1..(Len(queue) + 1)
    PROVE  ToSet(InsertAt(queue, k, item)) = ToSet(queue) \cup {item}
<1> DEFINE q == InsertAt(queue, k, item)
<1>0. Len(queue) \in Nat /\ k \in Nat
  BY LenProperties
<1>1. /\ q \in Seq(Item) /\ Len(q) = Len(queue) + 1
      /\ \A i \in 1..(Len(queue) + 1) :
           q[i] = IF i < k THEN queue[i]
                  ELSE IF i = k THEN item ELSE queue[i - 1]
  <2>1. Inserted(q, queue, k, item)
    BY InsertAtProperties
  <2> HIDE DEF q
  <2> QED BY <2>1 DEF Inserted
<1> HIDE DEF q
<1>2. ASSUME NEW j \in ToSet(q) PROVE j \in ToSet(queue) \cup {item}
  <2>1. PICK i \in 1..Len(q) : j = q[i]
    BY <1>1, Members
  <2>2. CASE i = k
    BY <1>0, <1>1, <2>1, <2>2
  <2>3. CASE i < k
    <3>1. i \in 1..Len(queue) /\ j = queue[i]
      BY <1>0, <1>1, <2>1, <2>3
    <3> QED BY <3>1, Members
  <2>4. CASE i > k
    <3>1. i - 1 \in 1..Len(queue) /\ j = queue[i - 1]
      BY <1>0, <1>1, <2>1, <2>4
    <3> QED BY <3>1, Members
  <2> QED BY <1>0, <2>2, <2>3, <2>4
<1>3. ASSUME NEW j \in ToSet(queue) PROVE j \in ToSet(q)
  <2>1. PICK i \in 1..Len(queue) : j = queue[i]
    BY Members
  <2>2. CASE i < k
    <3>1. i \in 1..Len(q) /\ q[i] = j
      BY <1>0, <1>1, <2>1, <2>2
    <3> QED BY <1>1, <3>1, Members
  <2>3. CASE i >= k
    <3>1. i + 1 \in 1..Len(q) /\ q[i + 1] = j
      BY <1>0, <1>1, <2>1, <2>3
    <3> QED BY <1>1, <3>1, Members
  <2> QED BY <1>0, <2>2, <2>3
<1>4. item \in ToSet(q)
  <2>1. k \in 1..Len(q) /\ q[k] = item
    BY <1>0, <1>1
  <2> QED BY <1>1, <2>1, Members
<1> QED BY <1>2, <1>3, <1>4 DEF q

\* The priorities add_state can give are below that of an interruption.
LEMMA PrioritiesBelow ==
    ASSUME NEW state \in QueuedStates, NEW prio \in Priorities(state)
    PROVE  prio \in 0..(InterruptPriority - 1)
BY CustomPrioritiesAssumption
   DEF Priorities, ModePriority, DefaultPriority, WorkModes, QueuedStates,
       InterruptPriority

-----------------------------------------------------------------------------
(* What the operations do to the fields of a manager.                      *)

\* add_state's insertion: a new item somewhere in the queue, the rest as before.
LEMMA EnqueueFields ==
    ASSUME NEW m \in Manager, NEW state \in QueuedStates,
           NEW prio \in 0..InterruptPriority
    PROVE  \E n \in Manager, item \in Item, k \in 1..(Len(m.queue) + 1) :
              /\ n = Enqueue(m, state, prio)
              /\ item.id = m.nextId /\ item.state = state
              /\ n.queue = InsertAt(m.queue, k, item) /\ n.queue # <<>>
              /\ n.nextId = m.nextId + 1
              /\ n.currentItem = m.currentItem /\ n.currentState = m.currentState
              /\ n.sm = m.sm /\ n.visited = m.visited
<1>1. PICK queue \in Seq(Item) : queue = m.queue
  BY DEF Manager
<1>2. PICK next \in Nat : next = m.nextId
  BY DEF Manager
<1>3. PICK item \in Item : /\ item = NewItem(m, state, prio)
                           /\ item.id = next /\ item.state = state
  <2>1. NewItem(m, state, prio) \in Item
    BY <1>2 DEF NewItem, Item, InterruptPriority
  <2> QED BY <1>2, <2>1 DEF NewItem
<1>4. PICK k \in 1..(Len(queue) + 1) : k = InsertionPoint(queue, prio)
  <2>1. prio \in Nat
    BY DEF InterruptPriority
  <2> QED BY <2>1, InsertionPointProperties, Zenon
<1>5. PICK q \in Seq(Item) : q = InsertAt(queue, k, item) /\ q # <<>>
  <2>1. /\ InsertAt(queue, k, item) \in Seq(Item)
        /\ Len(InsertAt(queue, k, item)) = Len(queue) + 1
    BY InsertAtProperties DEF Inserted
  <2>2. Len(queue) \in Nat
    BY LenProperties
  <2> HIDE DEF InsertAt
  <2>3. InsertAt(queue, k, item) # <<>>
    BY <2>1, <2>2
  <2> QED BY <2>1, <2>3
<1>6. PICK n : n = [m EXCEPT !.queue = q, !.nextId = next + 1]
  OBVIOUS
<1>7. Enqueue(m, state, prio) = n
  BY <1>1, <1>2, <1>3, <1>4, <1>5, <1>6 DEF Enqueue
<1>8. next + 1 \in Nat
  OBVIOUS
<1>9. /\ n \in Manager /\ n.queue = q /\ n.nextId = next + 1
      /\ n.currentItem = m.currentItem /\ n.currentState = m.currentState
      /\ n.sm = m.sm /\ n.visited = m.visited
  BY <1>6, <1>8 DEF Manager
<1> QED BY <1>1, <1>2, <1>3, <1>4, <1>5, <1>7, <1>9

\* What is left when the head is taken.
LEMMA TailIndices ==
    ASSUME NEW queue \in Seq(Item), queue # <<>>
    PROVE  /\ Tail(queue) \in Seq(Item) /\ Head(queue) \in Item
           /\ Len(queue) \in Nat /\ Len(Tail(queue)) = Len(queue) - 1
           /\ \A i \in 1..Len(Tail(queue)) : /\ i + 1 \in 1..Len(queue)
                                             /\ Tail(queue)[i] = queue[i + 1]
           /\ Head(queue) = queue[1] /\ 1 \in 1..Len(queue)
<1>1. /\ Tail(queue) \in Seq(Item)
      /\ Len(queue) \in Nat /\ Len(Tail(queue)) = Len(queue) - 1
      /\ \A i \in 1..Len(Tail(queue)) : /\ i + 1 \in 1..Len(queue)
                                        /\ Tail(queue)[i] = queue[i + 1]
      /\ Head(queue) = queue[1] /\ 1 \in 1..Len(queue)
  OBVIOUS
<1> QED BY <1>1, ItemFields

\* Taking the head of the queue as the current item.
LEMMA PopHeadFields ==
    ASSUME NEW m \in Manager, m.queue # <<>>
    PROVE  \E n \in Manager :
              /\ n = PopHead(m)
              /\ n.queue = Tail(m.queue) /\ n.currentItem = Head(m.queue)
              /\ n.currentState = Head(m.queue).state
              /\ n.sm = m.sm /\ n.nextId = m.nextId /\ n.visited = m.visited
<1>1. PICK queue \in Seq(Item) : queue = m.queue
  BY DEF Manager
<1>2. PICK head \in Item : head = Head(queue)
  BY <1>1, TailIndices
<1>3. PICK rest \in Seq(Item) : rest = Tail(queue)
  BY <1>1, TailIndices
<1>4. PICK n : n = [m EXCEPT !.queue = rest, !.currentItem = head,
                             !.currentState = head.state]
  OBVIOUS
<1>5. PopHead(m) = n
  BY <1>1, <1>2, <1>3, <1>4 DEF PopHead
<1>6. head.state \in States
  BY ItemTypes DEF States
<1>7. /\ n \in Manager /\ n.queue = rest /\ n.currentItem = head
      /\ n.currentState = head.state
      /\ n.sm = m.sm /\ n.nextId = m.nextId /\ n.visited = m.visited
  BY <1>4, <1>6 DEF Manager
<1> QED BY <1>1, <1>2, <1>3, <1>5, <1>7

\* complete_current_state gives up the current item and touches no queue.
LEMMA CompleteFields ==
    ASSUME NEW m \in Manager
    PROVE  \E n \in Manager :
              /\ n = Complete(m)
              /\ n.queue = m.queue /\ n.nextId = m.nextId /\ n.visited = m.visited
              /\ n.currentItem = NoItem
              /\ m.currentItem = NoItem => n = m
              /\ n.sm \in {m.sm, "IDLE"}
<1>1. CASE m.currentItem = NoItem
  BY <1>1 DEF Complete
<1>2. CASE m.currentItem # NoItem /\ m.queue # <<>>
  <2>1. PICK n : n = [m EXCEPT !.currentItem = NoItem]
    OBVIOUS
  <2>2. Complete(m) = n
    BY <1>2, <2>1 DEF Complete
  <2>3. /\ n \in Manager /\ n.queue = m.queue /\ n.nextId = m.nextId
        /\ n.visited = m.visited /\ n.currentItem = NoItem /\ n.sm = m.sm
    BY <2>1 DEF Manager
  <2> QED BY <1>2, <2>2, <2>3
<1>3. CASE m.currentItem # NoItem /\ m.queue = <<>>
  <2>1. PICK sm \in States : sm = IF m.currentState = "IDLE" THEN m.sm ELSE "IDLE"
    BY DEF Manager, States
  <2>2. PICK n : n = [m EXCEPT !.currentItem = NoItem, !.currentState = "IDLE",
                               !.sm = sm]
    OBVIOUS
  <2>3. Complete(m) = n
    BY <1>3, <2>1, <2>2 DEF Complete
  <2>4. /\ n \in Manager /\ n.queue = m.queue /\ n.nextId = m.nextId
        /\ n.visited = m.visited /\ n.currentItem = NoItem /\ n.sm = sm
    BY <2>2 DEF Manager, States
  <2> QED BY <1>3, <2>1, <2>3, <2>4
<1> QED BY <1>1, <1>2, <1>3

\* get_queue_status corrects only current_state.
LEMMA QueueStatusFields ==
    ASSUME NEW m \in Manager
    PROVE  \E n \in Manager :
              /\ n = QueueStatus(m)
              /\ n.queue = m.queue /\ n.nextId = m.nextId /\ n.visited = m.visited
              /\ n.currentItem = m.currentItem /\ n.sm = m.sm
<1>1. CASE m.currentItem = NoItem
  <2>1. PICK n : n = [m EXCEPT !.currentState = "IDLE"]
    OBVIOUS
  <2>2. /\ n \in Manager /\ n.queue = m.queue /\ n.nextId = m.nextId
        /\ n.visited = m.visited /\ n.currentItem = m.currentItem /\ n.sm = m.sm
    BY <2>1 DEF Manager, States
  <2> QED BY <1>1, <2>1, <2>2 DEF QueueStatus
<1>2. CASE m.currentItem # NoItem
  BY <1>2 DEF QueueStatus
<1> QED BY <1>1, <1>2

\* So does going idle, which also idles StateManager.
LEMMA IdleFields ==
    ASSUME NEW m \in Manager
    PROVE  \E n \in Manager :
              /\ n = TransitionToIdle(m)
              /\ n.queue = m.queue /\ n.nextId = m.nextId
              /\ n.currentItem = NoItem /\ n.sm = "IDLE"
<1>1. PICK n : n = [m EXCEPT !.currentState = "IDLE", !.sm = "IDLE",
                             !.currentItem = NoItem]
  OBVIOUS
<1>2. /\ n \in Manager /\ n.queue = m.queue /\ n.nextId = m.nextId
      /\ n.currentItem = NoItem /\ n.sm = "IDLE"
  BY <1>1 DEF Manager, States
<1> QED BY <1>1, <1>2 DEF TransitionToIdle

-----------------------------------------------------------------------------
(* The inductive invariant.                                                *)

Good(m) ==
    /\ m \in Manager
    /\ Ordered(m.queue)
    /\ StateFollows(m)
    /\ Distinct(m.queue, m.currentItem)
    /\ IdsBelow(m.queue, m.nextId)
    /\ m.currentItem.id < m.nextId

QueueInv == Good(mgr)

\* Inserting the youngest item at the insertion point keeps the order.
LEMMA OrderedInsertion ==
    ASSUME NEW queue \in Seq(Item), Ordered(queue),
           NEW item \in Item, item.prio < InterruptPriority,
           IdsBelow(queue, item.id),
           NEW k \in 1..(Len(queue) + 1), IsInsertionPoint(queue, k, item.prio)
    PROVE  Ordered(InsertAt(queue, k, item))
<1> DEFINE q == InsertAt(queue, k, item)
<1>0. Len(queue) \in Nat /\ k \in Nat
  BY LenProperties
<1>1. /\ Len(q) = Len(queue) + 1
      /\ \A i \in 1..(Len(queue) + 1) :
           q[i] = IF i < k THEN queue[i]
                  ELSE IF i = k THEN item ELSE queue[i - 1]
  <2>1. Inserted(q, queue, k, item)
    BY InsertAtProperties
  <2> HIDE DEF q
  <2> QED BY <2>1 DEF Inserted
<1>2. \A i \in 1..Len(queue) : /\ queue[i].prio \in Nat /\ queue[i].id \in Nat
                               /\ queue[i].id < item.id
  BY ItemFields DEF IdsBelow
<1>3. item.prio \in Nat /\ item.id \in Nat
  BY ItemTypes
<1> HIDE DEF q
<1> SUFFICES ASSUME NEW i \in 1..Len(q), NEW j \in 1..Len(q), i < j
             PROVE  \/ q[i].prio > q[j].prio
                    \/ /\ q[i].prio = q[j].prio
                       /\ q[i].prio < InterruptPriority => q[i].id < q[j].id
  BY DEF Ordered, q
<1>4. CASE j < k
  <2>1. /\ i \in 1..Len(queue) /\ j \in 1..Len(queue)
        /\ q[i] = queue[i] /\ q[j] = queue[j]
    BY <1>0, <1>1, <1>4
  <2> QED BY <2>1 DEF Ordered
<1>5. CASE j = k
  <2>1. i \in 1..Len(queue) /\ q[i] = queue[i] /\ q[j] = item /\ i \in 1..(k - 1)
    BY <1>0, <1>1, <1>5
  <2> QED BY <1>2, <1>3, <2>1 DEF IsInsertionPoint
<1>6. CASE i < k /\ k < j
  <2>1. /\ i \in 1..Len(queue) /\ j - 1 \in 1..Len(queue) /\ i < j - 1
        /\ q[i] = queue[i] /\ q[j] = queue[j - 1]
    BY <1>0, <1>1, <1>6
  <2> QED BY <2>1 DEF Ordered
<1>7. CASE i = k
  <2>1. /\ k \in 1..Len(queue) /\ j - 1 \in 1..Len(queue) /\ k <= j - 1
        /\ q[i] = item /\ q[j] = queue[j - 1]
    BY <1>0, <1>1, <1>7
  <2>2. queue[k].prio < item.prio
    BY <2>1, <1>0 DEF IsInsertionPoint
  <2>3. queue[j - 1].prio <= queue[k].prio
    <3>1. CASE k = j - 1
      BY <1>2, <2>1, <3>1
    <3>2. CASE k < j - 1
      <4>1. queue[k].prio > queue[j - 1].prio \/ queue[k].prio = queue[j - 1].prio
        BY <2>1, <3>2 DEF Ordered
      <4> QED BY <1>2, <2>1, <4>1
    <3> QED BY <1>0, <2>1, <3>1, <3>2
  <2> QED BY <1>2, <1>3, <2>1, <2>2, <2>3
<1>8. CASE k < i
  <2>1. /\ i - 1 \in 1..Len(queue) /\ j - 1 \in 1..Len(queue) /\ i - 1 < j - 1
        /\ q[i] = queue[i - 1] /\ q[j] = queue[j - 1]
    BY <1>0, <1>1, <1>8
  <2> QED BY <2>1 DEF Ordered
<1> QED BY <1>0, <1>1, <1>4, <1>5, <1>6, <1>7, <1>8

-----------------------------------------------------------------------------
(* The operations keep a good manager good.                                *)

\* add_state's insertion.
LEMMA EnqueueGood ==
    ASSUME NEW m, Good(m), NEW state \in QueuedStates,
           NEW prio \in 0..(InterruptPriority - 1)
    PROVE  /\ Good(Enqueue(m, state, prio))
           /\ Enqueue(m, state, prio).queue # <<>>
           /\ Enqueue(m, state, prio).currentItem = m.currentItem
           /\ Enqueue(m, state, prio).currentState = m.currentState
<1>1. PICK queue \in Seq(Item) : queue = m.queue
  BY DEF Good, Manager
<1>2. PICK current \in Item \cup {NoItem} : current = m.currentItem
  BY DEF Good, Manager
<1>3. PICK next \in Nat : next = m.nextId
  BY DEF Good, Manager
<1>4. PICK item \in Item : /\ item = NewItem(m, state, prio)
                           /\ item.id = next /\ item.prio = prio
  <2>1. NewItem(m, state, prio) \in Item
    BY <1>3 DEF NewItem, Item, InterruptPriority
  <2> QED BY <1>3, <2>1 DEF NewItem
<1>5. PICK k \in 1..(Len(queue) + 1) :
        /\ k = InsertionPoint(queue, prio)
        /\ IsInsertionPoint(queue, k, prio)
  <2>1. prio \in Nat
    BY DEF InterruptPriority
  <2> QED BY <2>1, InsertionPointProperties, Zenon
<1>6. current.id \in Nat /\ current.id < next /\ next # 0
  BY <1>2, <1>3, ItemTypes DEF Good, NoItem
<1>7. PICK q \in Seq(Item) : q = InsertAt(queue, k, item)
  BY InsertAtProperties DEF Inserted
<1>8. Ordered(q)
  <2>1. Ordered(queue) /\ IdsBelow(queue, item.id)
    BY <1>1, <1>3, <1>4 DEF Good
  <2>2. item.prio < InterruptPriority
    BY <1>4 DEF InterruptPriority
  <2> QED BY <1>4, <1>5, <1>7, <2>1, <2>2, OrderedInsertion
<1>9. Distinct(q, current) /\ IdsBelow(q, next + 1)
  BY <1>1, <1>2, <1>3, <1>4, <1>6, <1>7, DistinctInsertion DEF Good
<1>10. q # <<>>
  <2>1. Inserted(q, queue, k, item)
    BY <1>7, InsertAtProperties
  <2>2. Len(q) = Len(queue) + 1 /\ Len(queue) \in Nat
    BY <2>1, LenProperties DEF Inserted
  <2> QED BY <2>2
<1>11. PICK n : n = [m EXCEPT !.queue = q, !.nextId = next + 1]
  OBVIOUS
<1>12. Enqueue(m, state, prio) = n
  BY <1>1, <1>3, <1>4, <1>5, <1>7, <1>11 DEF Enqueue
<1>13. next + 1 \in Nat /\ m \in Manager
  BY DEF Good
<1>14. /\ n \in Manager /\ n.queue = q /\ n.nextId = next + 1
       /\ n.currentItem = current /\ n.currentState = m.currentState
  BY <1>2, <1>11, <1>13 DEF Manager
<1>15. StateFollows(n)
  BY <1>2, <1>10, <1>14 DEF Good, StateFollows, Busy
<1> QED
  BY <1>2, <1>6, <1>8, <1>9, <1>10, <1>12, <1>14, <1>15 DEF Good

\* interrupt_chat_for_work's insertion.
LEMMA EnqueueFirstGood ==
    ASSUME NEW m, Good(m)
    PROVE  Good(EnqueueFirst(m)) /\ EnqueueFirst(m).queue # <<>>
<1>1. PICK queue \in Seq(Item) : queue = m.queue
  BY DEF Good, Manager
<1>2. PICK current \in Item \cup {NoItem} : current = m.currentItem
  BY DEF Good, Manager
<1>3. PICK next \in Nat : next = m.nextId
  BY DEF Good, Manager
<1>4. PICK item \in Item : /\ item = NewItem(m, "WORK", InterruptPriority)
                           /\ item.id = next /\ item.prio = InterruptPriority
  <2>1. NewItem(m, "WORK", InterruptPriority) \in Item
    BY <1>3 DEF NewItem, Item, InterruptPriority, QueuedStates
  <2> QED BY <1>3, <2>1 DEF NewItem
<1>5. current.id \in Nat /\ current.id < next /\ next # 0
  BY <1>2, <1>3, ItemTypes DEF Good, NoItem
<1>6. PICK q : q = <<item>> \o queue
  OBVIOUS
<1>7. /\ q \in Seq(Item) /\ Len(q) = Len(queue) + 1 /\ Len(queue) \in Nat
      /\ q[1] = item
      /\ \A i \in 1..Len(q) : i # 1 => /\ i - 1 \in 1..Len(queue)
                                       /\ q[i] = queue[i - 1]
  BY <1>6
<1>8. \A i \in 1..Len(queue) :
        /\ queue[i].prio \in Nat /\ queue[i].prio <= InterruptPriority
        /\ queue[i].id \in Nat /\ queue[i].id # 0 /\ queue[i].id < next
        /\ queue[i].id # current.id
  BY <1>1, <1>2, <1>3, ItemFields DEF Good, IdsBelow, Distinct
<1>9. Ordered(q)
  <2> SUFFICES ASSUME NEW i \in 1..Len(q), NEW j \in 1..Len(q), i < j
               PROVE  \/ q[i].prio > q[j].prio
                      \/ /\ q[i].prio = q[j].prio
                         /\ q[i].prio < InterruptPriority => q[i].id < q[j].id
    BY DEF Ordered
  <2>1. j # 1 /\ j - 1 \in 1..Len(queue) /\ q[j] = queue[j - 1]
    BY <1>7
  <2>2. CASE i = 1
    BY <1>4, <1>7, <1>8, <2>1, <2>2 DEF InterruptPriority
  <2>3. CASE i # 1
    <3>1. i - 1 \in 1..Len(queue) /\ q[i] = queue[i - 1] /\ i - 1 < j - 1
      BY <1>7, <2>3
    <3> QED BY <1>1, <2>1, <3>1 DEF Good, Ordered
  <2> QED BY <2>2, <2>3
<1>10. \A i, j \in 1..Len(q) : q[i].id = q[j].id => i = j
  <2> SUFFICES ASSUME NEW i \in 1..Len(q), NEW j \in 1..Len(q),
                      q[i].id = q[j].id
               PROVE  i = j
    OBVIOUS
  <2>1. CASE i = 1 /\ j = 1
    BY <2>1
  <2>2. CASE i = 1 /\ j # 1
    <3>1. q[i].id = next /\ j - 1 \in 1..Len(queue) /\ q[j] = queue[j - 1]
      BY <1>4, <1>7, <2>2
    <3>2. queue[j - 1].id < next /\ queue[j - 1].id \in Nat
      BY <1>8, <3>1
    <3>3. queue[j - 1].id # next
      BY <3>2
    <3> QED BY <3>1, <3>3
  <2>3. CASE i # 1 /\ j = 1
    <3>1. q[j].id = next /\ i - 1 \in 1..Len(queue) /\ q[i] = queue[i - 1]
      BY <1>4, <1>7, <2>3
    <3>2. queue[i - 1].id < next /\ queue[i - 1].id \in Nat
      BY <1>8, <3>1
    <3>3. queue[i - 1].id # next
      BY <3>2
    <3> QED BY <3>1, <3>3
  <2>4. CASE i # 1 /\ j # 1
    <3>1. Distinct(queue, current)
      BY <1>1, <1>2 DEF Good
    <3>2. /\ i - 1 \in 1..Len(queue) /\ q[i] = queue[i - 1]
          /\ j - 1 \in 1..Len(queue) /\ q[j] = queue[j - 1]
      BY <1>7, <2>4
    <3>3. i - 1 = j - 1
      BY <3>1, <3>2 DEF Distinct
    <3> QED BY <1>7, <3>3
  <2> QED BY <2>1, <2>2, <2>3, <2>4
<1>11. \A i \in 1..Len(q) : /\ q[i].id # current.id
                            /\ q[i].id # 0 /\ q[i].id < next + 1
  <2> SUFFICES ASSUME NEW i \in 1..Len(q)
               PROVE  /\ q[i].id # current.id
                      /\ q[i].id # 0 /\ q[i].id < next + 1
    OBVIOUS
  <2>1. CASE i = 1
    BY <1>4, <1>5, <1>7, <2>1
  <2>2. CASE i # 1
    <3>1. i - 1 \in 1..Len(queue) /\ q[i] = queue[i - 1]
      BY <1>7, <2>2
    <3> QED BY <1>8, <3>1
  <2> QED BY <2>1, <2>2
<1>12. PICK n : n = [m EXCEPT !.queue = q, !.nextId = next + 1]
  OBVIOUS
<1>13. EnqueueFirst(m) = n
  BY <1>1, <1>3, <1>4, <1>6, <1>12 DEF EnqueueFirst
<1>14. next + 1 \in Nat /\ m \in Manager
  BY DEF Good
<1>15. /\ n \in Manager /\ n.queue = q /\ n.nextId = next + 1
       /\ n.currentItem = current /\ n.currentState = m.currentState
  BY <1>2, <1>7, <1>12, <1>14 DEF Manager
<1>16. n.queue # <<>>
  BY <1>7, <1>15
<1>17. StateFollows(n)
  BY <1>2, <1>15, <1>16 DEF Good, StateFollows, Busy
<1>18. Distinct(n.queue, n.currentItem)
  BY <1>10, <1>11, <1>15 DEF Distinct
<1>19. IdsBelow(n.queue, n.nextId)
  BY <1>11, <1>15 DEF IdsBelow
<1>20. n.currentItem.id < n.nextId
  BY <1>5, <1>15
<1>21. Good(n)
  BY <1>9, <1>15, <1>17, <1>18, <1>19, <1>20 DEF Good
<1> QED BY <1>13, <1>16, <1>21

\* A queue stays distinct and ordered when the current item is cleared.
LEMMA CleanGood ==
    ASSUME NEW m, Good(m), NEW n \in Manager,
           n.queue = m.queue, n.nextId = m.nextId, n.currentItem = NoItem,
           StateFollows(n)
    PROVE  Good(n)
<1>1. NoItem.id = 0 /\ m.nextId \in Nat /\ m.currentItem.id \in Nat
  BY ItemTypes DEF NoItem, Good, Manager
<1>2. n.currentItem.id < n.nextId
  BY <1>1 DEF Good
<1>3. \A i \in 1..Len(n.queue) : n.queue[i].id # n.currentItem.id
  BY <1>1 DEF Good, IdsBelow
<1> QED BY <1>2, <1>3 DEF Good, Distinct

\* complete_current_state.
LEMMA CompleteGood ==
    ASSUME NEW m, Good(m)
    PROVE  Good(Complete(m))
<1>1. CASE m.currentItem = NoItem
  BY <1>1 DEF Complete
<1>2. CASE m.currentItem # NoItem /\ m.queue # <<>>
  <2>1. PICK n : n = [m EXCEPT !.currentItem = NoItem]
    OBVIOUS
  <2>2. Complete(m) = n
    BY <1>2, <2>1 DEF Complete
  <2>3. /\ n \in Manager /\ n.queue = m.queue /\ n.nextId = m.nextId
        /\ n.currentItem = NoItem
    BY <2>1 DEF Good, Manager
  <2> QED BY <1>2, <2>2, <2>3, CleanGood DEF Good, StateFollows, Busy
<1>3. CASE m.currentItem # NoItem /\ m.queue = <<>>
  <2>1. PICK n : n = [m EXCEPT !.currentItem = NoItem, !.currentState = "IDLE",
                         !.sm = IF m.currentState = "IDLE" THEN m.sm ELSE "IDLE"]
    OBVIOUS
  <2>2. Complete(m) = n
    BY <1>3, <2>1 DEF Complete
  <2>3. /\ n \in Manager /\ n.queue = m.queue /\ n.nextId = m.nextId
        /\ n.currentItem = NoItem /\ n.currentState = "IDLE"
    BY <2>1 DEF Good, Manager, States
  <2> QED BY <2>2, <2>3, CleanGood DEF Good, StateFollows
<1> QED BY <1>1, <1>2, <1>3

\* Setting what the queue does not depend on: StateManager's state, the
\* history, the record of announcements.
LEMMA BystanderGood ==
    ASSUME NEW m, Good(m), NEW n \in Manager,
           n.queue = m.queue, n.currentItem = m.currentItem,
           n.currentState = m.currentState, n.nextId = m.nextId
    PROVE  Good(n)
BY DEF Good, StateFollows, Busy

\* Taking the head of the queue as the current item.
LEMMA PopHeadGood ==
    ASSUME NEW m, Good(m), m.queue # <<>>
    PROVE  /\ Good(PopHead(m))
           /\ PopHead(m).currentState \in QueuedStates
           /\ PopHead(m).currentItem # NoItem
<1>1. PICK queue \in Seq(Item) : queue = m.queue
  BY DEF Good, Manager
<1>2. /\ queue # <<>> /\ Tail(queue) \in Seq(Item)
      /\ Len(queue) \in Nat /\ Len(Tail(queue)) = Len(queue) - 1
      /\ \A i \in 1..Len(Tail(queue)) : /\ i + 1 \in 1..Len(queue)
                                        /\ Tail(queue)[i] = queue[i + 1]
      /\ Head(queue) = queue[1] /\ 1 \in 1..Len(queue)
  BY <1>1
<1>3. PICK head \in Item : head = queue[1]
  BY <1>2, ItemFields
<1>4. PICK n : n = [m EXCEPT !.queue = Tail(queue), !.currentItem = head,
                             !.currentState = head.state]
  OBVIOUS
<1>5. PopHead(m) = n
  BY <1>1, <1>2, <1>3, <1>4 DEF PopHead
<1>6. head.state \in QueuedStates /\ head.state \in States /\ head # NoItem
  BY ItemTypes DEF States
<1>7. /\ n \in Manager /\ n.queue = Tail(queue) /\ n.nextId = m.nextId
      /\ n.currentItem = head /\ n.currentState = head.state
  BY <1>2, <1>4, <1>6 DEF Good, Manager
<1>8. Ordered(queue) /\ Distinct(queue, m.currentItem) /\ IdsBelow(queue, m.nextId)
  BY <1>1 DEF Good
<1> DEFINE rest == Tail(queue)
<1>9. /\ \A i, j \in 1..Len(rest) : i < j => /\ i + 1 < j + 1
                                             /\ rest[i] = queue[i + 1]
                                             /\ rest[j] = queue[j + 1]
      /\ \A i, j \in 1..Len(rest) : i + 1 = j + 1 => i = j
      /\ \A i \in 1..Len(rest) : i + 1 # 1
  BY <1>2
<1> HIDE DEF rest
<1>10. Ordered(rest)
  BY <1>2, <1>8, <1>9 DEF Ordered, rest
<1>11. Distinct(rest, head)
  BY <1>2, <1>3, <1>8, <1>9 DEF Distinct, rest
<1>12. IdsBelow(rest, m.nextId) /\ head.id < m.nextId
  BY <1>2, <1>3, <1>8 DEF IdsBelow, rest
<1>13. StateFollows(n)
  BY <1>6, <1>7 DEF StateFollows, Busy
<1> QED
  BY <1>5, <1>6, <1>7, <1>10, <1>11, <1>12, <1>13 DEF Good, rest

\* A handler may be given any manager whose current item was just started.
LEMMA HandleGood ==
    ASSUME NEW m, Good(m), m.currentState \in QueuedStates,
           NEW outcome \in {"entered", "refused", "reported", "finished", "pending"}
    PROVE  Good(Handle(m, outcome))
<1>1. /\ m \in Manager /\ m.currentState \in States /\ "IDLE" \in States
      /\ "MISCHIEF" \in States /\ "MISCHIEF" \in QueuedStates
      /\ DefaultPriority("MISCHIEF") \in 0..(InterruptPriority - 1)
  BY DEF Good, States, QueuedStates, DefaultPriority, InterruptPriority
<1>2. ASSUME NEW s \in States
      PROVE  Good([m EXCEPT !.sm = s])
  <2>1. PICK n : n = [m EXCEPT !.sm = s]
    OBVIOUS
  <2>2. /\ n \in Manager /\ n.queue = m.queue /\ n.currentItem = m.currentItem
        /\ n.currentState = m.currentState /\ n.nextId = m.nextId
    BY <1>1, <2>1 DEF Manager
  <2> QED BY <2>1, <2>2, BystanderGood
<1>3. CASE outcome \in {"entered", "refused"}
  BY <1>1, <1>2, <1>3 DEF Handle
<1>4. CASE outcome = "reported"
  BY <1>1, <1>2, <1>4, CompleteGood DEF Handle
<1>5. CASE outcome = "finished"
  BY <1>1, <1>2, <1>5, CompleteGood DEF Handle
<1>6. CASE outcome = "pending"
  BY <1>1, <1>2, <1>6, CompleteGood, EnqueueGood DEF Handle
<1> QED BY <1>3, <1>4, <1>5, <1>6

\* Only outcomes the handlers know are offered.
LEMMA OutcomesKnown ==
    ASSUME NEW m, Good(m), m.queue # <<>>, NEW outcome \in Outcomes(m)
    PROVE  outcome \in {"entered", "refused", "reported", "finished", "pending"}
<1>1. Head(m.queue).state \in QueuedStates
  <2>1. m.queue \in Seq(Item) /\ m.queue # <<>>
    BY DEF Good, Manager
  <2>2. Head(m.queue) \in Item
    BY <2>1, HeadTailProperties
  <2> QED BY <2>2, ItemTypes
<1> QED BY <1>1 DEF Outcomes, QueuedStates

\* process_next_state and start_next_state.
LEMMA StartGood ==
    ASSUME NEW m, Good(m), m.queue # <<>>, NEW outcome \in Outcomes(m)
    PROVE  Good(ProcessNext(m, outcome)) /\ Good(StartNext(m, outcome))
<1>1. PICK p : p = PopHead(m)
  OBVIOUS
<1>2. Good(p) /\ p \in Manager /\ p.currentState \in QueuedStates
  BY <1>1, PopHeadGood DEF Good
<1>3. /\ Good([p EXCEPT !.visited = TRUE])
      /\ [p EXCEPT !.visited = TRUE].currentState = p.currentState
  <2>1. PICK n : n = [p EXCEPT !.visited = TRUE]
    OBVIOUS
  <2>2. /\ n \in Manager /\ n.queue = p.queue /\ n.currentItem = p.currentItem
        /\ n.currentState = p.currentState /\ n.nextId = p.nextId
    BY <1>2, <2>1 DEF Manager
  <2> QED BY <1>2, <2>1, <2>2, BystanderGood
<1>4. ProcessNext(m, outcome) = Handle([p EXCEPT !.visited = TRUE], outcome)
  BY <1>1 DEF ProcessNext
<1>5. StartNext(m, outcome) = Handle(p, outcome)
  BY <1>1 DEF StartNext
<1> QED BY <1>2, <1>3, <1>4, <1>5, HandleGood, OutcomesKnown

-----------------------------------------------------------------------------
(* The specification.                                                      *)

\* A fresh manager is good.
LEMMA FreshGood ==
    ASSUME NEW n \in Nat \ {0}
    PROVE  Good(FreshManager(n)) /\ ~Busy(FreshManager(n))
<1>1. PICK f : f = FreshManager(n)
  OBVIOUS
<1>2. /\ f.queue = <<>> /\ f.currentItem = NoItem /\ f.currentState = "IDLE"
      /\ f.nextId = n
  BY <1>1 DEF FreshManager
<1>3. f \in Manager
  BY <1>1 DEF FreshManager, Manager, States
<1>4. Len(f.queue) = 0 /\ NoItem.id = 0
  BY <1>2 DEF NoItem
<1>5. /\ Ordered(f.queue) /\ Distinct(f.queue, f.currentItem)
      /\ IdsBelow(f.queue, f.nextId)
  BY <1>4 DEF Ordered, Distinct, IdsBelow
<1>6. StateFollows(f) /\ ~Busy(f)
  BY <1>2 DEF StateFollows, Busy
<1> QED BY <1>1, <1>2, <1>3, <1>4, <1>5, <1>6 DEF Good

\* No operation leaves the inductive invariant.
LEMMA NextGood ==
    ASSUME QueueInv, QueueNext
    PROVE  QueueInv'
<1> SUFFICES Good(mgr')
  BY DEF QueueInv
<1>0. /\ Good(mgr) /\ mgr \in Manager /\ "IDLE" \in States
      /\ "MISCHIEF" \in States /\ mgr.nextId \in Nat \ {0}
  BY DEF QueueInv, Good, Manager, States, QueuedStates, NoItem, Item
<1>1. ASSUME NEW state \in QueuedStates, NEW prio \in Priorities(state),
             AddState(state, prio)
      PROVE  Good(mgr')
  <2>1. PICK m : m = Enqueue(mgr, state, prio)
    OBVIOUS
  <2>2. Good(m) /\ m.queue # <<>>
    BY <1>0, <2>1, PrioritiesBelow, EnqueueGood
  <2>3. CASE m.currentState = "IDLE" /\ m.currentItem = NoItem
    <3>1. PICK outcome \in Outcomes(m) : mgr' = ProcessNext(m, outcome)
      BY <1>1, <2>1, <2>3 DEF AddState
    <3> QED BY <2>2, <3>1, StartGood
  <2>4. CASE ~(m.currentState = "IDLE" /\ m.currentItem = NoItem)
    BY <1>1, <2>1, <2>2, <2>4 DEF AddState
  <2> QED BY <2>3, <2>4
<1>2. CASE CheckAndAdvance
  <2>1. CASE mgr.queue # <<>>
    <3>1. PICK outcome \in Outcomes(mgr) : mgr' = StartNext(mgr, outcome)
      BY <1>2, <2>1 DEF CheckAndAdvance
    <3> QED BY <1>0, <2>1, <3>1, StartGood
  <2>2. CASE mgr.queue = <<>>
    BY <1>0, <1>2, <2>2 DEF CheckAndAdvance, Good, StateFollows, Busy
  <2> QED BY <2>1, <2>2
<1>3. CASE CompleteCurrentState
  BY <1>0, <1>3, CompleteGood DEF CompleteCurrentState
<1>4. CASE GetQueueStatus
  <2>1. PICK n : n = [mgr EXCEPT !.currentState = "IDLE"]
    OBVIOUS
  <2>2. mgr' = n /\ mgr.currentItem = NoItem
    BY <1>4, <2>1 DEF GetQueueStatus, QueueStatus
  <2>3. /\ n \in Manager /\ n.queue = mgr.queue /\ n.nextId = mgr.nextId
        /\ n.currentItem = NoItem /\ n.currentState = "IDLE"
    BY <1>0, <2>1, <2>2 DEF Manager
  <2>4. StateFollows(n)
    BY <2>3 DEF StateFollows
  <2> QED BY <1>0, <2>2, <2>3, <2>4, CleanGood
<1>5. ASSUME NEW sm \in States, mgr' = [mgr EXCEPT !.sm = sm]
      PROVE  Good(mgr')
  <2>1. /\ mgr' \in Manager /\ mgr'.queue = mgr.queue
        /\ mgr'.currentItem = mgr.currentItem
        /\ mgr'.currentState = mgr.currentState /\ mgr'.nextId = mgr.nextId
    BY <1>0, <1>5 DEF Manager
  <2> QED BY <1>0, <2>1, BystanderGood
<1>6. CASE CheckSpecialState
  <2>1. PICK sm \in States : mgr' = [mgr EXCEPT !.sm = sm]
    BY <1>0, <1>6 DEF CheckSpecialState
  <2> QED BY <1>5, <2>1
<1>7. CASE ExitSpecialState
  BY <1>0, <1>5, <1>7 DEF ExitSpecialState
<1>8. CASE ClearStateHistory
  <2>1. /\ mgr' \in Manager /\ mgr'.queue = mgr.queue
        /\ mgr'.currentItem = mgr.currentItem
        /\ mgr'.currentState = mgr.currentState /\ mgr'.nextId = mgr.nextId
    BY <1>0, <1>8 DEF ClearStateHistory, Manager
  <2> QED BY <1>0, <2>1, BystanderGood
<1>9. CASE RestartManager
  BY <1>0, <1>9, FreshGood DEF RestartManager
<1>10. CASE InterruptChatForWork
  BY <1>0, <1>10, EnqueueFirstGood DEF InterruptChatForWork
<1> QED
  BY <1>1, <1>2, <1>3, <1>4, <1>6, <1>7, <1>8, <1>9, <1>10
     DEF QueueNext, ProductionNext, QueueInv

\* The manager is good in every reachable state, for any number of items.
THEOREM QueueInductive == QueueSpec => []QueueInv
<1>1. QueueInit => QueueInv
  BY FreshGood DEF QueueInit, QueueInv
<1>2. QueueInv /\ [QueueNext]_mgr => QueueInv'
  <2> SUFFICES ASSUME QueueInv, [QueueNext]_mgr
               PROVE  QueueInv'
    OBVIOUS
  <2>1. CASE QueueNext
    BY <2>1, NextGood
  <2>2. CASE UNCHANGED mgr
    BY <2>2 DEF QueueInv, Good
  <2> QED BY <2>1, <2>2
<1> QED BY <1>1, <1>2, PTL DEF QueueSpec

\* Type correctness of the queue manager.
THEOREM QueueTypeCorrect == QueueSpec => []QueueTypeOK
<1>1. QueueInv => QueueTypeOK
  BY DEF QueueInv, Good, QueueTypeOK
<1> QED BY <1>1, QueueInductive, PTL

\* The queue is always in service order.
THEOREM QueueAlwaysOrdered == QueueSpec => []QueueOrdered
<1>1. QueueInv => QueueOrdered
  BY DEF QueueInv, Good, QueueOrdered
<1> QED BY <1>1, QueueInductive, PTL

\* No identity is at two places.
THEOREM NeverDuplicated == QueueSpec => []NoDuplicates
<1>1. QueueInv => NoDuplicates
  BY DEF QueueInv, Good, NoDuplicates
<1> QED BY <1>1, QueueInductive, PTL

\* current_state is never stale once the manager has drained.
THEOREM StateAlwaysFollowsItem == QueueSpec => []StateFollowsItem
<1>1. QueueInv => StateFollowsItem
  BY DEF QueueInv, Good, StateFollowsItem
<1> QED BY <1>1, QueueInductive, PTL

-----------------------------------------------------------------------------
(* Draining.  Only complete_current_state can leave the manager with        *)
(* nothing to do, wherever it is called from.                              *)

\* A completion that drains the manager idles StateManager.
LEMMA CompleteDrains ==
    ASSUME NEW m, Good(m), Busy(m), ~Busy(Complete(m))
    PROVE  Complete(m).sm = "IDLE"
<1>1. m \in Manager /\ StateFollows(m)
  BY DEF Good
<1>2. CASE m.currentItem = NoItem
  BY <1>2 DEF Complete
<1>3. CASE m.currentItem # NoItem /\ m.queue # <<>>
  <2>1. PICK n : n = [m EXCEPT !.currentItem = NoItem]
    OBVIOUS
  <2>2. Complete(m) = n
    BY <1>3, <2>1 DEF Complete
  <2>3. n.queue = m.queue
    BY <1>1, <2>1 DEF Manager
  <2> QED BY <1>3, <2>2, <2>3 DEF Busy
<1>4. CASE m.currentItem # NoItem /\ m.queue = <<>>
  <2>1. m.currentState # "IDLE"
    BY <1>1, <1>4, ItemTypes DEF StateFollows, QueuedStates, Manager
  <2>2. PICK n : n = [m EXCEPT !.currentItem = NoItem,
                              !.currentState = "IDLE", !.sm = "IDLE"]
    OBVIOUS
  <2>3. Complete(m) = n
    BY <1>4, <2>1, <2>2 DEF Complete
  <2>4. n.sm = "IDLE"
    BY <1>1, <2>2 DEF Manager
  <2> QED BY <2>3, <2>4
<1> QED BY <1>2, <1>3, <1>4

\* Nor does a handler that completes its own item.
LEMMA HandleDrains ==
    ASSUME NEW m, Good(m), m.currentState \in QueuedStates,
           m.currentItem # NoItem,
           NEW outcome \in {"entered", "refused", "reported", "finished", "pending"},
           ~Busy(Handle(m, outcome))
    PROVE  Handle(m, outcome).sm = "IDLE"
<1>1. /\ m \in Manager /\ m.currentState \in States /\ "IDLE" \in States
      /\ "MISCHIEF" \in States /\ "MISCHIEF" \in QueuedStates
      /\ DefaultPriority("MISCHIEF") \in 0..(InterruptPriority - 1)
  BY DEF Good, States, QueuedStates, DefaultPriority, InterruptPriority
<1>2. ASSUME NEW s \in States
      PROVE  Good([m EXCEPT !.sm = s]) /\ Busy([m EXCEPT !.sm = s])
  <2>1. PICK n : n = [m EXCEPT !.sm = s]
    OBVIOUS
  <2>2. /\ n \in Manager /\ n.queue = m.queue /\ n.currentItem = m.currentItem
        /\ n.currentState = m.currentState /\ n.nextId = m.nextId
    BY <1>1, <2>1 DEF Manager
  <2> QED BY <2>1, <2>2, BystanderGood DEF Busy
<1>3. CASE outcome \in {"entered", "refused"}
  BY <1>1, <1>2, <1>3 DEF Handle, Busy
<1>4. CASE outcome = "reported"
  BY <1>1, <1>2, <1>4, CompleteDrains DEF Handle
<1>5. CASE outcome = "finished"
  BY <1>1, <1>2, <1>5, CompleteDrains DEF Handle
<1>6. CASE outcome = "pending"
  <2>1. PICK n : n = Enqueue([m EXCEPT !.sm = "MISCHIEF"], "MISCHIEF",
                             DefaultPriority("MISCHIEF"))
    OBVIOUS
  <2>2. Good(n) /\ Busy(n)
    BY <1>1, <1>2, <2>1, EnqueueGood DEF Busy
  <2>3. Handle(m, outcome) = Complete(n)
    BY <1>6, <2>1 DEF Handle
  <2> QED BY <2>2, <2>3, CompleteDrains
<1> QED BY <1>3, <1>4, <1>5, <1>6

\* Starting the head of the queue.
LEMMA StartDrains ==
    ASSUME NEW m, Good(m), m.queue # <<>>, NEW outcome \in Outcomes(m)
    PROVE  /\ ~Busy(ProcessNext(m, outcome)) => ProcessNext(m, outcome).sm = "IDLE"
           /\ ~Busy(StartNext(m, outcome)) => StartNext(m, outcome).sm = "IDLE"
<1>1. PICK p : p = PopHead(m)
  OBVIOUS
<1>2. /\ Good(p) /\ p \in Manager /\ p.currentState \in QueuedStates
      /\ p.currentItem # NoItem
  BY <1>1, PopHeadGood DEF Good
<1>3. PICK v : v = [p EXCEPT !.visited = TRUE]
  OBVIOUS
<1>4. /\ v \in Manager /\ v.queue = p.queue /\ v.currentItem = p.currentItem
      /\ v.currentState = p.currentState /\ v.nextId = p.nextId
  BY <1>2, <1>3 DEF Manager
<1>5. /\ ProcessNext(m, outcome) = Handle(v, outcome)
      /\ StartNext(m, outcome) = Handle(p, outcome)
  BY <1>1, <1>3 DEF ProcessNext, StartNext
<1>6. Good(v)
  BY <1>2, <1>4, BystanderGood
<1>7. outcome \in {"entered", "refused", "reported", "finished", "pending"}
  BY OutcomesKnown
<1> QED BY <1>2, <1>4, <1>5, <1>6, <1>7, HandleDrains

\* Whatever empties the queue leaves StateManager in IDLE.
THEOREM DrainingIdles == QueueSpec => DrainingIdlesStateManager
<1>1. QueueInv /\ [QueueNext]_mgr => [Busy(mgr) /\ ~Busy(mgr') => mgr'.sm = "IDLE"]_mgr
  <2> SUFFICES ASSUME QueueInv, QueueNext, Busy(mgr), ~Busy(mgr')
               PROVE  mgr'.sm = "IDLE"
    OBVIOUS
  <2>0. /\ Good(mgr) /\ mgr \in Manager /\ mgr.nextId \in Nat \ {0}
    BY DEF QueueInv, Good, Manager, NoItem, Item
  <2>1. ASSUME NEW state \in QueuedStates, NEW prio \in Priorities(state),
               AddState(state, prio)
        PROVE  mgr'.sm = "IDLE"
    <3>1. PICK m : m = Enqueue(mgr, state, prio)
      OBVIOUS
    <3>2. Good(m) /\ m.queue # <<>>
      BY <2>0, <3>1, PrioritiesBelow, EnqueueGood
    <3>3. CASE m.currentState = "IDLE" /\ m.currentItem = NoItem
      <4>1. PICK outcome \in Outcomes(m) : mgr' = ProcessNext(m, outcome)
        BY <2>1, <3>1, <3>3 DEF AddState
      <4> QED BY <3>2, <4>1, StartDrains
    <3>4. CASE ~(m.currentState = "IDLE" /\ m.currentItem = NoItem)
      BY <2>1, <3>1, <3>2, <3>4 DEF AddState, Busy
    <3> QED BY <3>3, <3>4
  <2>2. CASE CheckAndAdvance
    <3>1. mgr.queue # <<>>
      BY <2>2 DEF CheckAndAdvance, Busy
    <3>2. PICK outcome \in Outcomes(mgr) : mgr' = StartNext(mgr, outcome)
      BY <2>2, <3>1 DEF CheckAndAdvance
    <3> QED BY <2>0, <3>1, <3>2, StartDrains
  <2>3. CASE CompleteCurrentState
    BY <2>0, <2>3, CompleteDrains DEF CompleteCurrentState
  <2>4. CASE GetQueueStatus
    <3>1. mgr' = [mgr EXCEPT !.currentState = "IDLE"]
      BY <2>4 DEF GetQueueStatus, QueueStatus
    <3>2. mgr'.queue = mgr.queue /\ mgr'.currentItem = mgr.currentItem
      BY <2>0, <3>1 DEF Manager
    <3> QED BY <3>2 DEF Busy
  <2>5. ASSUME NEW sm, mgr' = [mgr EXCEPT !.sm = sm]
        PROVE  FALSE
    <3>1. mgr'.queue = mgr.queue /\ mgr'.currentItem = mgr.currentItem
      BY <2>0, <2>5 DEF Manager
    <3> QED BY <3>1 DEF Busy
  <2>6. CASE CheckSpecialState
    BY <2>5, <2>6 DEF CheckSpecialState
  <2>7. CASE ExitSpecialState
    BY <2>5, <2>7 DEF ExitSpecialState
  <2>8. CASE ClearStateHistory
    <3>1. mgr'.queue = mgr.queue /\ mgr'.currentItem = mgr.currentItem
      BY <2>0, <2>8 DEF ClearStateHistory, Manager
    <3> QED BY <3>1 DEF Busy
  <2>9. CASE RestartManager
    BY <2>9 DEF RestartManager, FreshManager
  <2>10. CASE InterruptChatForWork
    BY <2>0, <2>10, EnqueueFirstGood DEF InterruptChatForWork, Busy
  <2> QED
    BY <2>1, <2>2, <2>3, <2>4, <2>6, <2>7, <2>8, <2>9, <2>10
       DEF QueueNext, ProductionNext
<1> QED BY <1>1, QueueInductive, PTL DEF QueueSpec, DrainingIdlesStateManager

-----------------------------------------------------------------------------
(* The refinement.  The queue implements PriorityServer: each operation,   *)
(* with the handler it calls and what that calls back, is at most one step *)
(* of the server.                                                          *)
(*                                                                         *)
(* A manager is seen as three sets: what waits, what is served, what has   *)
(* retired.  The lemmas say what the operations do to the first two and to *)
(* nextId; the third follows (Fates).                                      *)

\* What the server's view adds to a good manager: its items are jobs.
Fit(m) ==
    /\ Good(m)
    /\ m.nextId <= MaxItems + 1
    /\ Waiting(m) \subseteq Jobs /\ Serving(m) \subseteq Jobs

-----------------------------------------------------------------------------
(* A manager as sets. *)

LEMMA JobTypes ==
    \A j \in Jobs : j.id \in 1..MaxItems /\ j.prio \in Nat /\ j # NoItem
<1> DEFINE P == (UNION {Priorities(s) : s \in QueuedStates}) \cup {InterruptPriority}
<1>1. P \subseteq Nat
  <2> SUFFICES ASSUME NEW p \in P PROVE p \in Nat
    OBVIOUS
  <2>1. CASE p = InterruptPriority
    BY <2>1 DEF InterruptPriority
  <2>2. CASE p # InterruptPriority
    <3>1. PICK s \in QueuedStates : p \in Priorities(s)
      BY <2>2
    <3> QED BY <3>1, PrioritiesBelow DEF InterruptPriority
  <2> QED BY <2>1, <2>2
<1>2. Jobs = [id : 1..MaxItems, state : QueuedStates, prio : P]
  BY DEF Jobs
<1> HIDE DEF P
<1>3. ASSUME NEW j \in Jobs PROVE j.id \in 1..MaxItems /\ j.prio \in Nat
  BY <1>1, <1>2
<1>4. NoItem.id = 0
  BY DEF NoItem
<1> QED BY <1>3, <1>4, MaxItemsAssumption

LEMMA Sets ==
    ASSUME NEW m, Good(m)
    PROVE  /\ m.queue \in Seq(Item) /\ m.nextId \in Nat \ {0}
           /\ \A j \in Waiting(m) : j \in Item /\ j.id \in Nat /\ j.id # 0
                                    /\ j.id < m.nextId /\ j.id # m.currentItem.id
           /\ \A j, k \in Waiting(m) : j.id = k.id => j = k
           /\ m.currentItem = NoItem => Serving(m) = {}
           /\ m.currentItem # NoItem => Serving(m) = {m.currentItem}
           /\ \A j \in Serving(m) : j.id \in Nat /\ j.id < m.nextId
<1>1. /\ m.queue \in Seq(Item) /\ m.nextId \in Nat /\ m.currentItem \in Item \cup {NoItem}
  BY DEF Good, Manager
<1>2. m.nextId # 0
  BY <1>1, ItemTypes DEF Good, NoItem
<1>3. ASSUME NEW j \in Waiting(m)
      PROVE  j \in Item /\ j.id \in Nat /\ j.id # 0
             /\ j.id < m.nextId /\ j.id # m.currentItem.id
  <2>1. PICK i \in 1..Len(m.queue) : j = m.queue[i]
    BY <1>1, Members DEF Waiting
  <2> QED BY <1>1, <2>1, ItemFields DEF Good, IdsBelow, Distinct
<1>4. ASSUME NEW j \in Waiting(m), NEW k \in Waiting(m), j.id = k.id PROVE j = k
  <2>1. PICK i \in 1..Len(m.queue) : j = m.queue[i]
    BY <1>1, Members DEF Waiting
  <2>2. PICK l \in 1..Len(m.queue) : k = m.queue[l]
    BY <1>1, Members DEF Waiting
  <2> QED BY <1>4, <2>1, <2>2 DEF Good, Distinct
<1>5. \A j \in Serving(m) : j.id \in Nat /\ j.id < m.nextId
  BY <1>1, ItemTypes DEF Serving, Good
<1> QED BY <1>1, <1>2, <1>3, <1>4, <1>5 DEF Serving

\* Whatever was handed out waits, is served or has retired.
LEMMA Fates ==
    ASSUME NEW m, Fit(m)
    PROVE  /\ Retired(m) = {k \in 1..(m.nextId - 1) :
                               k \notin Server!Ids(Waiting(m)) \cup Server!Ids(Serving(m))}
           /\ Server!Ids(Waiting(m)) \cup Server!Ids(Serving(m)) \cup Retired(m)
                = 1..(m.nextId - 1)
<1>1. m.nextId \in Nat \ {0} /\ m.nextId <= MaxItems + 1 /\ MaxItems \in Nat
  BY Sets, MaxItemsAssumption DEF Fit
<1>2. ItemIds(m) = Server!Ids(Waiting(m)) \cup {m.currentItem.id}
  <2>1. m.queue \in Seq(Item)
    BY Sets DEF Fit
  <2> QED BY <2>1, Members DEF ItemIds, Server!Ids, Waiting
<1>3. \A k \in 1..MaxItems : k \in ItemIds(m) <=>
           k \in Server!Ids(Waiting(m)) \cup Server!Ids(Serving(m))
  <2>1. CASE m.currentItem = NoItem
    <3>1. m.currentItem.id = 0 /\ Server!Ids(Serving(m)) = {}
      BY <2>1 DEF NoItem, Serving, Server!Ids
    <3> QED BY <1>2, <3>1
  <2>2. CASE m.currentItem # NoItem
    <3>1. Server!Ids(Serving(m)) = {m.currentItem.id}
      BY <2>2 DEF Serving, Server!Ids
    <3> QED BY <1>2, <3>1
  <2> QED BY <2>1, <2>2
<1>4. \A k \in Server!Ids(Waiting(m)) \cup Server!Ids(Serving(m)) : k \in 1..(m.nextId - 1)
  <2>1. \A j \in Waiting(m) \cup Serving(m) : j.id \in 1..MaxItems /\ j.id < m.nextId
    BY Sets, JobTypes DEF Fit
  <2> QED BY <1>1, <2>1 DEF Server!Ids
<1>5. Retired(m) = {k \in 1..(m.nextId - 1) :
                        k \notin Server!Ids(Waiting(m)) \cup Server!Ids(Serving(m))}
  BY <1>1, <1>3 DEF Retired
<1> QED BY <1>4, <1>5

\* The next identities are unknown to the server.
LEMMA Newcomers ==
    ASSUME Fit(mgr)
    PROVE  /\ {} \in Server!Arrivals
           /\ \A j \in Jobs : j.id >= mgr.nextId => {j} \in Server!Arrivals
<1>1. Server!Known = 1..(mgr.nextId - 1)
  BY Fates DEF Server!Known
<1>2. mgr.nextId \in Nat
  BY Sets DEF Fit
<1>3. \A j \in Jobs : j.id >= mgr.nextId => j.id \notin Server!Known
  BY <1>1, <1>2, JobTypes
<1> QED BY <1>3 DEF Server!Arrivals
-----------------------------------------------------------------------------
(* What the operations do to the sets. *)

LEMMA NewJob ==
    ASSUME NEW m, Fit(m), m.nextId <= MaxItems,
           NEW state \in QueuedStates, NEW prio \in Priorities(state) \cup {InterruptPriority}
    PROVE  NewItem(m, state, prio) \in Jobs /\ NewItem(m, state, prio).id = m.nextId
<1>1. m.nextId \in 1..MaxItems
  BY Sets, MaxItemsAssumption DEF Fit
<1>2. prio \in (UNION {Priorities(s) : s \in QueuedStates}) \cup {InterruptPriority}
  BY Zenon
<1> HIDE DEF Priorities
<1> QED BY <1>1, <1>2 DEF NewItem, Jobs

LEMMA EnqueueSets ==
    ASSUME NEW m, Fit(m), m.nextId <= MaxItems,
           NEW state \in QueuedStates, NEW prio \in Priorities(state)
    PROVE  LET n == Enqueue(m, state, prio)
               j == NewItem(m, state, prio)
           IN  /\ Fit(n) /\ j \in Jobs /\ j.id = m.nextId
               /\ Waiting(n) = Waiting(m) \cup {j} /\ n.queue # <<>>
               /\ n.currentItem = m.currentItem /\ n.currentState = m.currentState
               /\ n.nextId = m.nextId + 1
<1> DEFINE n == Enqueue(m, state, prio)
           j == NewItem(m, state, prio)
<1>0. prio \in 0..(InterruptPriority - 1) /\ prio \in Nat
  BY PrioritiesBelow DEF InterruptPriority
<1>1. /\ Good(n) /\ n.queue # <<>>
      /\ n.currentItem = m.currentItem /\ n.currentState = m.currentState
  BY <1>0, EnqueueGood DEF Fit
<1>2. j \in Jobs /\ j.id = m.nextId
  BY NewJob
<1>3. m.queue \in Seq(Item) /\ m.nextId \in Nat \ {0}
  BY Sets DEF Fit
<1>4. m \in Manager
  BY DEF Fit, Good
<1>5. j \in Item
  BY <1>0, <1>3 DEF NewItem, Item, InterruptPriority
<1>6. InsertionPoint(m.queue, prio) \in 1..(Len(m.queue) + 1)
  BY <1>0, <1>3, InsertionPointProperties
<1>7. n.queue = InsertAt(m.queue, InsertionPoint(m.queue, prio), j) /\ n.nextId = m.nextId + 1
  BY <1>4 DEF Enqueue, Manager
<1>8. Waiting(n) = Waiting(m) \cup {j}
  BY <1>3, <1>5, <1>6, <1>7, InsertedSet DEF Waiting
<1> HIDE DEF n, j
<1>9. Fit(n)
  BY <1>1, <1>2, <1>3, <1>7, <1>8, MaxItemsAssumption DEF Fit, Serving
<1> QED BY <1>1, <1>2, <1>7, <1>8, <1>9 DEF n, j

LEMMA EnqueueFirstSets ==
    ASSUME NEW m, Fit(m), m.nextId <= MaxItems
    PROVE  LET n == EnqueueFirst(m)
               j == NewItem(m, "WORK", InterruptPriority)
           IN  /\ Fit(n) /\ j \in Jobs /\ j.id = m.nextId
               /\ Waiting(n) = Waiting(m) \cup {j}
               /\ n.currentItem = m.currentItem /\ n.nextId = m.nextId + 1
<1> DEFINE n == EnqueueFirst(m)
           j == NewItem(m, "WORK", InterruptPriority)
<1>1. Good(n)
  BY EnqueueFirstGood DEF Fit
<1>2. j \in Jobs /\ j.id = m.nextId
  BY NewJob DEF QueuedStates
<1>3. m.queue \in Seq(Item) /\ m.nextId \in Nat \ {0}
  BY Sets DEF Fit
<1>4. m \in Manager
  BY DEF Fit, Good
<1>5. j \in Item
  BY <1>3 DEF NewItem, Item, InterruptPriority, QueuedStates
<1>6. n.queue = <<j>> \o m.queue /\ n.nextId = m.nextId + 1 /\ n.currentItem = m.currentItem
  BY <1>4 DEF EnqueueFirst, Manager
<1>7. Waiting(n) = Waiting(m) \cup {j}
  <2>1. ToSet(<<j>> \o m.queue) = ToSet(m.queue) \cup {j}
    <3> HIDE DEF j
    <3> DEFINE q == <<j>> \o m.queue
    <3>1. /\ q \in Seq(Item) /\ Len(q) = Len(m.queue) + 1 /\ q[1] = j
          /\ \A i \in 1..Len(m.queue) : i + 1 \in 1..Len(q) /\ q[i + 1] = m.queue[i]
          /\ \A i \in 1..Len(q) : i # 1 => i - 1 \in 1..Len(m.queue) /\ q[i] = m.queue[i - 1]
          /\ 1 \in 1..Len(q)
      BY <1>3, <1>5
    <3> HIDE DEF q
    <3>2. ASSUME NEW x \in ToSet(q) PROVE x \in ToSet(m.queue) \cup {j}
      <4>1. PICK i \in 1..Len(q) : x = q[i]
        BY <3>1, Members
      <4>2. CASE i = 1
        BY <3>1, <4>1, <4>2
      <4>3. CASE i # 1
        BY <1>3, <3>1, <4>1, <4>3, Members
      <4> QED BY <4>2, <4>3
    <3>3. ASSUME NEW x \in ToSet(m.queue) PROVE x \in ToSet(q)
      <4>1. PICK i \in 1..Len(m.queue) : x = m.queue[i]
        BY <1>3, Members
      <4>2. i + 1 \in 1..Len(q) /\ x = q[i + 1]
        BY <3>1, <4>1
      <4> QED BY <3>1, <4>2, Members
    <3>4. j \in ToSet(q)
      BY <3>1, Members
    <3> QED BY <3>2, <3>3, <3>4 DEF q
  <2> QED BY <1>6, <2>1 DEF Waiting
<1> HIDE DEF n, j
<1>8. Fit(n)
  BY <1>1, <1>2, <1>3, <1>6, <1>7, MaxItemsAssumption DEF Fit, Serving
<1> QED BY <1>2, <1>6, <1>7, <1>8 DEF n, j

\* The head of the queue is as urgent as anything in it.
LEMMA PopHeadSets ==
    ASSUME NEW m, Fit(m), m.queue # <<>>
    PROVE  LET n == PopHead(m)
               j == Head(m.queue)
           IN  /\ Fit(n) /\ j \in Waiting(m) /\ n.currentItem = j /\ n.currentItem # NoItem
               /\ \A k \in Waiting(m) : k.prio <= j.prio
               /\ Waiting(n) = Waiting(m) \ {j}
               /\ n.currentState \in QueuedStates /\ n.nextId = m.nextId
<1> DEFINE n == PopHead(m)
           j == Head(m.queue)
<1>1. Good(n) /\ n.currentState \in QueuedStates /\ n.currentItem # NoItem
  BY PopHeadGood DEF Fit
<1>2. m.queue \in Seq(Item) /\ m \in Manager
  BY Sets DEF Fit, Good
<1>3. n.queue = Tail(m.queue) /\ n.currentItem = j /\ n.nextId = m.nextId
  BY <1>2 DEF PopHead, Manager
<1>4. /\ 1 \in 1..Len(m.queue) /\ j = m.queue[1]
      /\ Tail(m.queue) \in Seq(Item) /\ Len(Tail(m.queue)) = Len(m.queue) - 1
      /\ \A i \in 1..Len(Tail(m.queue)) : i + 1 \in 1..Len(m.queue) /\ i + 1 # 1
                                          /\ Tail(m.queue)[i] = m.queue[i + 1]
      /\ \A i \in 1..Len(m.queue) : i # 1 => i - 1 \in 1..Len(Tail(m.queue))
                                             /\ m.queue[i] = Tail(m.queue)[i - 1]
  BY <1>2
<1>5. j \in Waiting(m)
  BY <1>2, <1>4, Members DEF Waiting
<1>6. ASSUME NEW k \in Waiting(m) PROVE k.prio <= j.prio
  <2>1. PICK i \in 1..Len(m.queue) : k = m.queue[i]
    BY <1>2, Members DEF Waiting
  <2>2. k.prio \in Nat /\ j.prio \in Nat
    BY <1>2, <1>4, <2>1, ItemFields
  <2>3. CASE i = 1
    BY <1>4, <2>1, <2>2, <2>3
  <2>4. CASE i # 1
    <3>1. 1 < i
      BY <2>4
    <3>2. j.prio > k.prio \/ j.prio = k.prio
      BY <1>4, <2>1, <3>1 DEF Fit, Good, Ordered
    <3> QED BY <2>2, <3>2
  <2> QED BY <2>3, <2>4
<1>7. Waiting(n) = Waiting(m) \ {j}
  <2>1. \A i \in 1..Len(m.queue) : m.queue[i] = j => i = 1
    BY <1>4 DEF Fit, Good, Distinct
  <2>2. ASSUME NEW k \in ToSet(Tail(m.queue)) PROVE k \in ToSet(m.queue) \ {j}
    <3>1. PICK i \in 1..Len(Tail(m.queue)) : k = Tail(m.queue)[i]
      BY <1>4, Members
    <3>2. i + 1 \in 1..Len(m.queue) /\ i + 1 # 1 /\ k = m.queue[i + 1]
      BY <1>4, <3>1
    <3> QED BY <1>2, <2>1, <3>2, Members
  <2>3. ASSUME NEW k \in ToSet(m.queue) \ {j} PROVE k \in ToSet(Tail(m.queue))
    <3>1. PICK i \in 1..Len(m.queue) : k = m.queue[i]
      BY <1>2, Members
    <3>2. i # 1
      BY <1>4, <3>1
    <3> QED BY <1>4, <3>1, <3>2, Members
  <2> QED BY <1>3, <2>2, <2>3 DEF Waiting
<1> HIDE DEF n, j
<1>8. Fit(n)
  BY <1>1, <1>3, <1>5, <1>7 DEF Fit, Serving
<1> QED BY <1>1, <1>3, <1>5, <1>6, <1>7, <1>8 DEF n, j

LEMMA CompleteSets ==
    ASSUME NEW m, Fit(m)
    PROVE  /\ Fit(Complete(m)) /\ Waiting(Complete(m)) = Waiting(m)
           /\ Serving(Complete(m)) = {} /\ Complete(m).nextId = m.nextId
<1>1. Good(Complete(m)) /\ m \in Manager
  BY CompleteGood DEF Fit, Good
<1>2. /\ Complete(m).queue = m.queue /\ Complete(m).currentItem = NoItem
      /\ Complete(m).nextId = m.nextId
  BY <1>1 DEF Complete, Manager
<1> QED BY <1>1, <1>2 DEF Fit, Waiting, Serving

\* Setting StateManager's state or the history is invisible.
LEMMA BystanderSets ==
    ASSUME NEW m, Fit(m), NEW n, n \in Manager, n.queue = m.queue, n.nextId = m.nextId,
           n.currentItem = m.currentItem, n.currentState = m.currentState
    PROVE  Fit(n) /\ Waiting(n) = Waiting(m) /\ Serving(n) = Serving(m)
<1>1. Good(n)
  BY BystanderGood DEF Fit
<1> QED BY <1>1 DEF Fit, Waiting, Serving
\* What is left of a started item when its handler returns: it runs on, it is
\* over, or it is over and has left one new job behind.
After(m, n, j) ==
    /\ Fit(n) /\ j \in Waiting(m)
    /\ \A k \in Waiting(m) : k.prio <= j.prio
    /\ \/ /\ Waiting(n) = Waiting(m) \ {j} /\ Serving(n) = {j} /\ n.nextId = m.nextId
       \/ /\ Waiting(n) = Waiting(m) \ {j} /\ Serving(n) = {} /\ n.nextId = m.nextId
       \/ \E s \in Jobs : /\ s.id = m.nextId /\ n.nextId = m.nextId + 1
                          /\ Waiting(n) = (Waiting(m) \ {j}) \cup {s} /\ Serving(n) = {}

LEMMA HandleSets ==
    ASSUME NEW m, Fit(m), m.currentState \in QueuedStates, m.currentItem # NoItem,
           NEW outcome \in {"entered", "refused", "reported", "finished", "pending"},
           outcome = "pending" => m.nextId <= MaxItems
    PROVE  LET n == Handle(m, outcome) IN
           /\ Fit(n)
           /\ \/ /\ Waiting(n) = Waiting(m) /\ Serving(n) = {m.currentItem}
                 /\ n.nextId = m.nextId
              \/ /\ Waiting(n) = Waiting(m) /\ Serving(n) = {} /\ n.nextId = m.nextId
              \/ \E s \in Jobs : /\ s.id = m.nextId /\ n.nextId = m.nextId + 1
                                 /\ Waiting(n) = Waiting(m) \cup {s} /\ Serving(n) = {}
<1>1. /\ m \in Manager /\ m.currentState \in States /\ "IDLE" \in States
      /\ "MISCHIEF" \in States /\ "MISCHIEF" \in QueuedStates
      /\ DefaultPriority("MISCHIEF") \in Priorities("MISCHIEF")
  <2>1. ModePriority("MISCHIEF", "none") = DefaultPriority("MISCHIEF")
    BY DEF ModePriority
  <2>2. DefaultPriority("MISCHIEF") \in Priorities("MISCHIEF")
    BY <2>1 DEF Priorities, WorkModes
  <2> QED BY <2>2 DEF Fit, Good, States, QueuedStates
<1>2. ASSUME NEW s \in States
      PROVE  LET n == [m EXCEPT !.sm = s] IN
             /\ Fit(n) /\ Waiting(n) = Waiting(m) /\ Serving(n) = Serving(m)
             /\ n.nextId = m.nextId /\ n.currentItem = m.currentItem
  <2>1. PICK n : n = [m EXCEPT !.sm = s]
    OBVIOUS
  <2>2. /\ n \in Manager /\ n.queue = m.queue /\ n.currentItem = m.currentItem
        /\ n.currentState = m.currentState /\ n.nextId = m.nextId
    BY <1>1, <2>1 DEF Manager
  <2> QED BY <2>1, <2>2, BystanderSets
<1>3. Serving(m) = {m.currentItem}
  BY DEF Serving
<1>4. CASE outcome = "refused"
  BY <1>3, <1>4 DEF Handle
<1>5. CASE outcome = "entered"
  BY <1>1, <1>2, <1>3, <1>5 DEF Handle
<1>6. CASE outcome = "reported"
  <2>1. PICK n : n = [m EXCEPT !.sm = m.currentState]
    OBVIOUS
  <2>2. Fit(n) /\ Waiting(n) = Waiting(m) /\ n.nextId = m.nextId
    BY <1>1, <1>2, <2>1
  <2>3. Handle(m, outcome) = Complete(n)
    BY <1>6, <2>1 DEF Handle
  <2> QED BY <2>2, <2>3, CompleteSets
<1>7. CASE outcome = "finished"
  <2>1. PICK n : n = [m EXCEPT !.sm = "IDLE"]
    OBVIOUS
  <2>2. Fit(n) /\ Waiting(n) = Waiting(m) /\ n.nextId = m.nextId
    BY <1>1, <1>2, <2>1
  <2>3. Handle(m, outcome) = Complete(n)
    BY <1>7, <2>1 DEF Handle
  <2> QED BY <2>2, <2>3, CompleteSets
<1>8. CASE outcome = "pending"
  <2>1. PICK n : n = [m EXCEPT !.sm = "MISCHIEF"]
    OBVIOUS
  <2>2. Fit(n) /\ Waiting(n) = Waiting(m) /\ n.nextId = m.nextId
    BY <1>1, <1>2, <2>1
  <2>3. PICK e : e = Enqueue(n, "MISCHIEF", DefaultPriority("MISCHIEF"))
    OBVIOUS
  <2>4. PICK s : s = NewItem(n, "MISCHIEF", DefaultPriority("MISCHIEF"))
    OBVIOUS
  <2>5. /\ Fit(e) /\ s \in Jobs /\ s.id = m.nextId /\ e.nextId = m.nextId + 1
        /\ Waiting(e) = Waiting(m) \cup {s}
    <3>1. n.nextId <= MaxItems
      BY <1>8, <2>2
    <3> QED BY <1>1, <2>2, <2>3, <2>4, <3>1, EnqueueSets
  <2>6. Handle(m, outcome) = Complete(e)
    BY <1>8, <2>1, <2>3 DEF Handle
  <2> QED BY <2>5, <2>6, CompleteSets
<1> QED BY <1>4, <1>5, <1>6, <1>7, <1>8

LEMMA StartSets ==
    ASSUME NEW m, Fit(m), m.queue # <<>>, NEW outcome \in Outcomes(m)
    PROVE  /\ After(m, ProcessNext(m, outcome), Head(m.queue))
           /\ After(m, StartNext(m, outcome), Head(m.queue))
<1>1. outcome \in {"entered", "refused", "reported", "finished", "pending"}
  BY OutcomesKnown DEF Fit
<1>2. outcome = "pending" => m.nextId <= MaxItems
  <2>1. Head(m.queue).state \in QueuedStates
    BY PopHeadSets, Sets, ItemTypes DEF Fit
  <2> QED BY <2>1 DEF Outcomes, QueuedStates
<1>3. PICK j : j = Head(m.queue)
  OBVIOUS
<1>4. PICK p : p = PopHead(m)
  OBVIOUS
<1>5. /\ Fit(p) /\ j \in Waiting(m) /\ p.currentItem = j /\ j # NoItem
      /\ \A k \in Waiting(m) : k.prio <= j.prio
      /\ Waiting(p) = Waiting(m) \ {j}
      /\ p.currentState \in QueuedStates /\ p.nextId = m.nextId
  BY <1>3, <1>4, PopHeadSets
<1>6. ASSUME NEW v, Fit(v), Waiting(v) = Waiting(p), v.currentItem = j,
             v.currentState = p.currentState, v.nextId = p.nextId
      PROVE  After(m, Handle(v, outcome), j)
  <2>1. PICK n : n = Handle(v, outcome)
    OBVIOUS
  <2>2. /\ Fit(n)
        /\ \/ Waiting(n) = Waiting(v) /\ Serving(n) = {j} /\ n.nextId = v.nextId
           \/ Waiting(n) = Waiting(v) /\ Serving(n) = {} /\ n.nextId = v.nextId
           \/ \E s \in Jobs : /\ s.id = v.nextId /\ n.nextId = v.nextId + 1
                              /\ Waiting(n) = Waiting(v) \cup {s} /\ Serving(n) = {}
    BY <1>1, <1>2, <1>5, <1>6, <2>1, HandleSets
  <2> QED BY <1>5, <1>6, <2>1, <2>2 DEF After
<1>7. After(m, StartNext(m, outcome), j)
  BY <1>4, <1>5, <1>6 DEF StartNext
<1>8. After(m, ProcessNext(m, outcome), j)
  <2>1. PICK v : v = [p EXCEPT !.visited = TRUE]
    OBVIOUS
  <2>2. /\ v \in Manager /\ v.queue = p.queue /\ v.currentItem = p.currentItem
        /\ v.currentState = p.currentState /\ v.nextId = p.nextId
    BY <1>5, <2>1 DEF Fit, Good, Manager
  <2>3. Fit(v) /\ Waiting(v) = Waiting(p)
    BY <1>5, <2>2, BystanderSets
  <2>4. ProcessNext(m, outcome) = Handle(v, outcome)
    BY <1>4, <2>1 DEF ProcessNext
  <2> QED BY <1>5, <1>6, <2>2, <2>3, <2>4
<1> QED BY <1>3, <1>7, <1>8

-----------------------------------------------------------------------------
(* The steps. *)

\* Identities of the sets that a step makes.
LEMMA IdsOf ==
    /\ Server!Ids({}) = {}
    /\ \A j : Server!Ids({j}) = {j.id}
    /\ \A A, B : Server!Ids(A \cup B) = Server!Ids(A) \cup Server!Ids(B)
BY DEF Server!Ids

\* One arrival, perhaps none.
LEMMA ArriveStep ==
    ASSUME Fit(mgr), Fit(mgr'), NEW new, new \in Server!Arrivals,
           Waiting(mgr') = Waiting(mgr) \cup new, Serving(mgr') = Serving(mgr),
           \/ new = {} /\ mgr'.nextId = mgr.nextId
           \/ \E j \in Jobs : new = {j} /\ j.id = mgr.nextId /\ mgr'.nextId = mgr.nextId + 1
    PROVE  Server!Arrive
<1>1. Retired(mgr') = Retired(mgr)
  <2> DEFINE busy == Server!Ids(Waiting(mgr)) \cup Server!Ids(Serving(mgr))
             busy1 == Server!Ids(Waiting(mgr')) \cup Server!Ids(Serving(mgr'))
  <2>1. /\ Retired(mgr) = {k \in 1..(mgr.nextId - 1) : k \notin busy}
        /\ Retired(mgr') = {k \in 1..(mgr'.nextId - 1) : k \notin busy1}
        /\ mgr.nextId \in Nat \ {0}
    BY Fates, Sets DEF Fit
  <2>2. busy1 = busy \cup Server!Ids(new)
    BY IdsOf
  <2> HIDE DEF busy, busy1
  <2>3. CASE new = {} /\ mgr'.nextId = mgr.nextId
    BY <2>1, <2>2, <2>3, IdsOf
  <2>4. ASSUME NEW j \in Jobs, new = {j}, j.id = mgr.nextId, mgr'.nextId = mgr.nextId + 1
        PROVE  Retired(mgr') = Retired(mgr)
    <3>1. busy1 = busy \cup {mgr.nextId}
      BY <2>2, <2>4, IdsOf
    <3> QED BY <2>1, <2>4, <3>1
  <2> QED BY <2>3, <2>4
<1> QED BY <1>1 DEF Server!Arrive
\* A job is started, perhaps one that has just arrived.
LEMMA StartStep ==
    ASSUME Fit(mgr), mgr.currentItem = NoItem,
           NEW m, Fit(m), NEW j, After(m, mgr', j),
           NEW new, new \in Server!Arrivals, Waiting(m) = Waiting(mgr) \cup new,
           \/ new = {} /\ m.nextId = mgr.nextId
           \/ \E k \in Jobs : new = {k} /\ k.id = mgr.nextId /\ m.nextId = mgr.nextId + 1
    PROVE  Server!Begin \/ Server!ServeAtOnce
<1> DEFINE old == Server!Ids(Waiting(mgr))
           mid == Server!Ids(Waiting(m))
           left == Server!Ids(Waiting(m) \ {j})
<1>0. /\ Serving(mgr) = {} /\ Fit(mgr') /\ mgr.nextId \in Nat \ {0}
      /\ m.nextId \in Nat \ {0} /\ m.nextId >= mgr.nextId
  BY Sets DEF Fit, After, Serving
<1>1. j \in Server!MostUrgent(Waiting(mgr) \cup new) /\ j \in Waiting(m)
  BY DEF After, Server!MostUrgent
<1>2. /\ left = mid \ {j.id} /\ j.id \in mid /\ j.id \in 1..(m.nextId - 1)
      /\ \A k \in mid : k \in 1..(m.nextId - 1)
  <2>1. \A a, b \in Waiting(m) : a.id = b.id => a = b
    BY Sets DEF Fit
  <2>2. \A a \in Waiting(m) : a.id \in 1..(m.nextId - 1)
    BY <1>0, Sets DEF Fit
  <2> QED BY <1>1, <2>1, <2>2 DEF Server!Ids
<1>3. \/ mid = old /\ m.nextId = mgr.nextId /\ Server!Ids(new) = {}
      \/ /\ mid = old \cup {mgr.nextId} /\ m.nextId = mgr.nextId + 1
         /\ Server!Ids(new) = {mgr.nextId}
  <2>1. mid = old \cup Server!Ids(new)
    BY IdsOf
  <2>2. CASE new = {} /\ m.nextId = mgr.nextId
    <3>1. Server!Ids(new) = {}
      BY <2>2, IdsOf
    <3> QED BY <2>1, <2>2, <3>1
  <2>3. ASSUME NEW k \in Jobs, new = {k}, k.id = mgr.nextId, m.nextId = mgr.nextId + 1
        PROVE  /\ mid = old \cup {mgr.nextId} /\ m.nextId = mgr.nextId + 1
               /\ Server!Ids(new) = {mgr.nextId}
    <3>1. Server!Ids(new) = {mgr.nextId}
      BY <2>3, IdsOf
    <3> QED BY <2>1, <2>3, <3>1
  <2> QED BY <2>2, <2>3
<1>4. /\ Retired(mgr) = {k \in 1..(mgr.nextId - 1) : k \notin old}
      /\ Retired(mgr') = {k \in 1..(mgr'.nextId - 1) :
              k \notin Server!Ids(Waiting(mgr')) \cup Server!Ids(Serving(mgr'))}
  BY <1>0, Fates, IdsOf
<1> HIDE DEF old, mid, left
<1>5. Retired(mgr) = {k \in 1..(m.nextId - 1) : k \notin mid}
  BY <1>0, <1>2, <1>3, <1>4
<1>6. CASE Waiting(mgr') = Waiting(m) \ {j} /\ Serving(mgr') = {j} /\ mgr'.nextId = m.nextId
  <2>1. Server!Ids(Waiting(mgr')) = left /\ Server!Ids(Serving(mgr')) = {j.id}
    BY <1>6, IdsOf DEF left
  <2>2. Retired(mgr') = Retired(mgr)
    <3>1. Retired(mgr') = {k \in 1..(m.nextId - 1) : k \notin left \cup {j.id}}
      BY <1>4, <1>6, <2>1
    <3> QED BY <1>2, <1>5, <3>1
  <2> QED BY <1>0, <1>1, <1>6, <2>2 DEF Server!Begin
<1>7. CASE Waiting(mgr') = Waiting(m) \ {j} /\ Serving(mgr') = {} /\ mgr'.nextId = m.nextId
  <2>1. Server!Ids(Waiting(mgr')) = left /\ Server!Ids(Serving(mgr')) = {}
    BY <1>7, IdsOf DEF left
  <2>2. Retired(mgr') = Retired(mgr) \cup {j.id}
    <3>1. Retired(mgr') = {k \in 1..(m.nextId - 1) : k \notin left}
      BY <1>4, <1>7, <2>1
    <3> QED BY <1>2, <1>5, <3>1
  <2>3. Waiting(mgr') = ((Waiting(mgr) \cup new) \ {j}) \cup {}
    BY <1>7
  <2>4. {} \in Server!Arrivals /\ Server!Ids({}) \cap Server!Ids(new) = {}
    BY Newcomers, IdsOf
  <2> QED BY <1>0, <1>1, <1>7, <2>2, <2>3, <2>4 DEF Server!ServeAtOnce
<1>8. ASSUME NEW s \in Jobs, s.id = m.nextId, mgr'.nextId = m.nextId + 1,
             Waiting(mgr') = (Waiting(m) \ {j}) \cup {s}, Serving(mgr') = {}
      PROVE  Server!ServeAtOnce
  <2>1. /\ Server!Ids(Waiting(mgr')) = left \cup {m.nextId}
        /\ Server!Ids(Serving(mgr')) = {}
    <3>1. Server!Ids({s}) = {m.nextId}
      BY <1>8, IdsOf
    <3> QED BY <1>8, <3>1, IdsOf DEF left
  <2>2. Retired(mgr') = Retired(mgr) \cup {j.id}
    <3>1. Retired(mgr') = {k \in 1..m.nextId : k \notin left \cup {m.nextId}}
      <4>1. 1..(mgr'.nextId - 1) = 1..m.nextId
        BY <1>0, <1>8
      <4>2. Server!Ids(Waiting(mgr')) \cup Server!Ids(Serving(mgr')) = left \cup {m.nextId}
        BY <2>1
      <4> QED BY <1>4, <4>1, <4>2
    <3> QED BY <1>0, <1>2, <1>5, <3>1
  <2>3. {s} \in Server!Arrivals
    BY <1>0, <1>8, Newcomers
  <2>4. Server!Ids({s}) \cap Server!Ids(new) = {}
    BY <1>0, <1>3, <1>8, IdsOf
  <2>5. Waiting(mgr') = ((Waiting(mgr) \cup new) \ {j}) \cup {s}
    BY <1>8
  <2> QED BY <1>0, <1>1, <1>8, <2>2, <2>3, <2>4, <2>5 DEF Server!ServeAtOnce
<1> QED BY <1>6, <1>7, <1>8 DEF After

\* Nothing the server could see.
LEMMA Unseen ==
    ASSUME Fit(mgr), mgr' \in Manager, mgr'.queue = mgr.queue,
           mgr'.nextId = mgr.nextId, mgr'.currentItem = mgr.currentItem
    PROVE  UNCHANGED Server!jobVars
BY DEF Server!jobVars, Waiting, Serving, Retired, ItemIds

LEMMA NextRefines ==
    ASSUME Fit(mgr), QueueNext, QueueInv'
    PROVE  Fit(mgr') /\ [Server!PSNext]_(Server!jobVars)
<1>0. /\ Good(mgr) /\ mgr \in Manager /\ mgr.nextId \in Nat \ {0} /\ Good(mgr')
      /\ mgr' \in Manager /\ "WORK" \in QueuedStates
  BY Sets DEF Fit, Good, QueueInv, QueuedStates
<1>1. ASSUME mgr'.queue = mgr.queue, mgr'.nextId = mgr.nextId,
             mgr'.currentItem = mgr.currentItem
      PROVE  Fit(mgr') /\ [Server!PSNext]_(Server!jobVars)
  <2>1. Fit(mgr')
    BY <1>0, <1>1 DEF Fit, Waiting, Serving
  <2> QED BY <1>0, <1>1, <2>1, Unseen
<1>2. ASSUME NEW state \in QueuedStates, NEW prio \in Priorities(state),
             AddState(state, prio)
      PROVE  Fit(mgr') /\ [Server!PSNext]_(Server!jobVars)
  <2>1. PICK m : m = Enqueue(mgr, state, prio)
    OBVIOUS
  <2>2. PICK k : k = NewItem(mgr, state, prio)
    OBVIOUS
  <2>3. mgr.nextId <= MaxItems
    BY <1>2 DEF AddState
  <2>4. /\ Fit(m) /\ k \in Jobs /\ k.id = mgr.nextId /\ m.queue # <<>>
        /\ Waiting(m) = Waiting(mgr) \cup {k} /\ m.nextId = mgr.nextId + 1
        /\ m.currentItem = mgr.currentItem
    BY <2>1, <2>2, <2>3, EnqueueSets
  <2>5. {k} \in Server!Arrivals
    BY <1>0, <2>4, Newcomers
  <2>6. CASE m.currentState = "IDLE" /\ m.currentItem = NoItem
    <3>1. PICK outcome \in Outcomes(m) : mgr' = ProcessNext(m, outcome)
      BY <1>2, <2>1, <2>6 DEF AddState
    <3>2. After(m, mgr', Head(m.queue))
      BY <2>4, <3>1, StartSets
    <3>3. Server!Begin \/ Server!ServeAtOnce
      BY <2>4, <2>5, <2>6, <3>2, StartStep
    <3> QED BY <3>2, <3>3 DEF After, Server!PSNext
  <2>7. CASE ~(m.currentState = "IDLE" /\ m.currentItem = NoItem)
    <3>1. mgr' = m
      BY <1>2, <2>1, <2>7 DEF AddState
    <3>2. Serving(mgr') = Serving(mgr)
      BY <2>4, <3>1 DEF Serving
    <3>3. Server!Arrive
      BY <2>4, <2>5, <3>1, <3>2, ArriveStep
    <3> QED BY <2>4, <3>1, <3>3 DEF Server!PSNext
  <2> QED BY <2>6, <2>7
<1>3. CASE InterruptChatForWork
  <2>1. PICK k : k = NewItem(mgr, "WORK", InterruptPriority)
    OBVIOUS
  <2>2. mgr.nextId <= MaxItems /\ mgr' = EnqueueFirst(mgr)
    BY <1>3 DEF InterruptChatForWork
  <2>3. /\ Fit(mgr') /\ k \in Jobs /\ k.id = mgr.nextId
        /\ Waiting(mgr') = Waiting(mgr) \cup {k} /\ mgr'.nextId = mgr.nextId + 1
        /\ mgr'.currentItem = mgr.currentItem
    BY <2>1, <2>2, EnqueueFirstSets
  <2>4. {k} \in Server!Arrivals
    BY <1>0, <2>3, Newcomers
  <2>5. Serving(mgr') = Serving(mgr)
    BY <2>3 DEF Serving
  <2>6. Server!Arrive
    BY <2>3, <2>4, <2>5, ArriveStep
  <2> QED BY <2>3, <2>6 DEF Server!PSNext
<1>4. CASE CheckAndAdvance
  <2>1. CASE mgr.queue # <<>>
    <3>1. PICK outcome \in Outcomes(mgr) : mgr' = StartNext(mgr, outcome)
      BY <1>4, <2>1 DEF CheckAndAdvance
    <3>2. After(mgr, mgr', Head(mgr.queue))
      BY <2>1, <3>1, StartSets
    <3>3. mgr.currentItem = NoItem
      BY <1>4 DEF CheckAndAdvance
    <3>4. Server!Begin \/ Server!ServeAtOnce
      BY <3>2, <3>3, Newcomers, StartStep
    <3> QED BY <3>2, <3>4 DEF After, Server!PSNext
  <2>2. CASE mgr.queue = <<>>
    <3>1. mgr' = TransitionToIdle(mgr) /\ mgr.currentItem = NoItem
      BY <1>4, <2>2 DEF CheckAndAdvance
    <3>2. /\ mgr'.queue = mgr.queue /\ mgr'.nextId = mgr.nextId
          /\ mgr'.currentItem = mgr.currentItem
      BY <1>0, <3>1 DEF TransitionToIdle, Manager
    <3> QED BY <1>1, <3>2
  <2> QED BY <2>1, <2>2
<1>5. CASE CompleteCurrentState
  <2>1. mgr' = Complete(mgr) /\ mgr.currentItem # NoItem
    BY <1>5 DEF CompleteCurrentState
  <2>2. /\ Fit(mgr') /\ Waiting(mgr') = Waiting(mgr) /\ Serving(mgr') = {}
        /\ mgr'.nextId = mgr.nextId
    BY <2>1, CompleteSets
  <2>3. Serving(mgr) = {mgr.currentItem}
    BY <2>1 DEF Serving
  <2>4. mgr.currentItem.id \in 1..(mgr.nextId - 1)
        /\ mgr.currentItem.id \notin Server!Ids(Waiting(mgr))
    <3>1. mgr.currentItem \in Jobs /\ mgr.currentItem.id < mgr.nextId
      BY <2>3, Sets DEF Fit
    <3>2. \A j \in Waiting(mgr) : j.id # mgr.currentItem.id
      BY Sets DEF Fit
    <3> QED BY <1>0, <3>1, <3>2, JobTypes DEF Server!Ids
  <2>5. Retired(mgr') = Retired(mgr) \cup Server!Ids(Serving(mgr))
    <3>1. /\ Retired(mgr) = {k \in 1..(mgr.nextId - 1) :
                k \notin Server!Ids(Waiting(mgr)) \cup {mgr.currentItem.id}}
          /\ Retired(mgr') = {k \in 1..(mgr.nextId - 1) :
                k \notin Server!Ids(Waiting(mgr))}
      BY <2>2, <2>3, Fates, IdsOf
    <3>2. Server!Ids(Serving(mgr)) = {mgr.currentItem.id}
      BY <2>3, IdsOf
    <3> QED BY <2>4, <3>1, <3>2
  <2>6. Server!Finish
    BY <2>2, <2>3, <2>5 DEF Server!Finish
  <2> QED BY <2>2, <2>6 DEF Server!PSNext
<1>6. CASE GetQueueStatus \/ CheckSpecialState \/ ExitSpecialState \/ ClearStateHistory
  <2>1. /\ mgr'.queue = mgr.queue /\ mgr'.nextId = mgr.nextId
        /\ mgr'.currentItem = mgr.currentItem
    BY <1>0, <1>6 DEF GetQueueStatus, QueueStatus, CheckSpecialState, ExitSpecialState,
                      ClearStateHistory, Manager
  <2> QED BY <1>1, <2>1
<1>7. CASE RestartManager
  <2>1. /\ mgr'.queue = <<>> /\ mgr'.nextId = mgr.nextId /\ mgr'.currentItem = NoItem
    BY <1>7 DEF RestartManager, FreshManager
  <2>2. Waiting(mgr') = {} /\ Serving(mgr') = {}
    <3>1. <<>> \in Seq(Item)
      OBVIOUS
    <3>2. ToSet(<<>>) = {}
      BY <3>1, Members
    <3> QED BY <2>1, <3>2 DEF Waiting, Serving
  <2>3. Fit(mgr')
    BY <1>0, <2>1, <2>2 DEF Fit
  <2>4. Retired(mgr') = 1..(mgr.nextId - 1)
    BY <2>1, <2>2, <2>3, Fates, IdsOf
  <2>5. Server!Known = 1..(mgr.nextId - 1)
    BY Fates DEF Server!Known
  <2>6. Server!Crash
    BY <2>2, <2>4, <2>5 DEF Server!Crash
  <2> QED BY <2>3, <2>6 DEF Server!PSNext
<1> QED
  BY <1>2, <1>3, <1>4, <1>5, <1>6, <1>7 DEF QueueNext, ProductionNext

\* The queue with its handlers is a single server that never serves a job while
\* a more urgent one waits, never two at once, and never one twice: each
\* operation of state_queue.py is at most one step of PriorityServer.
THEOREM QueueIsServer == QueueSpec => ImplementsServer
<1>1. QueueInit => Fit(mgr) /\ Server!PSInit
  <2> SUFFICES ASSUME QueueInit PROVE Fit(mgr) /\ Server!PSInit
    OBVIOUS
  <2>1. Good(mgr) /\ mgr.queue = <<>> /\ mgr.nextId = 1 /\ mgr.currentItem = NoItem
    BY FreshGood DEF QueueInit, FreshManager
  <2>2. Waiting(mgr) = {} /\ Serving(mgr) = {}
    <3>1. <<>> \in Seq(Item)
      OBVIOUS
    <3>2. ToSet(<<>>) = {}
      BY <3>1, Members
    <3> QED BY <2>1, <3>2 DEF Waiting, Serving
  <2>3. Fit(mgr)
    BY <2>1, <2>2, MaxItemsAssumption DEF Fit
  <2>4. Retired(mgr) = {}
    BY <2>1, MaxItemsAssumption DEF Retired
  <2> QED BY <2>2, <2>3, <2>4 DEF Server!PSInit
<1>2. Fit(mgr) /\ [QueueNext]_mgr /\ QueueInv' => Fit(mgr)' /\ [Server!PSNext]_(Server!jobVars)
  <2> SUFFICES ASSUME Fit(mgr), [QueueNext]_mgr, QueueInv'
               PROVE  Fit(mgr') /\ [Server!PSNext]_(Server!jobVars)
    OBVIOUS
  <2>1. CASE UNCHANGED mgr
    BY <2>1 DEF Fit, Good, Server!jobVars, Waiting, Serving, Retired, ItemIds
  <2> QED BY <2>1, NextRefines
<1> QED BY <1>1, <1>2, QueueInductive, PTL DEF QueueSpec, ImplementsServer, Server!PSSpec
=============================================================================
