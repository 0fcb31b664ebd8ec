-------------------------- MODULE SessionLifecycle --------------------------
(***************************************************************************)
(* How states get sessions and lose them again: the state queue together   *)
(* with the sessions, the event bus and the five threads that work on them *)
(* without a lock.                                                         *)
(*                                                                         *)
(*   input     text or speech input, which runs the NLP module: Hear,      *)
(*             Pause, Add, PublishInput                                    *)
(*   bus       the event bus's thread, which runs the handlers of          *)
(*             StateManager, ModuleCoordinator and SystemLoop:             *)
(*             OnSessionEnded, OnInput, OnStateAdvanced, OnProcessing,     *)
(*             OnOutput, OnCycleCompleted                                  *)
(*   loop      SystemLoop's thread: Advance, Track, Look                   *)
(*   monitor   Controller's thread: MonitorGS, Expire                      *)
(*   output    the thread of one response: Speak, OutputFails, Ask         *)
(*                                                                         *)
(* A general session (GS) is the roof over chatting sessions (CS, for CHAT)*)
(* and workflow sessions (WS, for WORK).  An item is started in steps      *)
(* (SetState, MakeGS, Attach, Create) and a cycle boundary is worked off in*)
(* steps (Collect, EndOne, Judge, EndGS, ClearHistory), because other      *)
(* threads do run between them.  Each single call of the queue is one step.*)
(*                                                                         *)
(* The LLM's decisions, what the user says and whether speech synthesis    *)
(* works are choices.  Sleep, mischief and notifications are left out.     *)
(***************************************************************************)
EXTENDS StateQueueOps, Integers

CONSTANTS
    MaxGS,       \* bound: general sessions created
    MaxTurns,    \* bound: inputs heard
    Serial       \* TRUE: a thread starts an operation only while no other
                 \* thread is inside one

ASSUME SessionLifecycleAssumption ==
    /\ MaxGS \in Nat
    /\ MaxTurns \in Nat
    /\ Serial \in BOOLEAN

VARIABLES
    gs,         \* the current general session, 0 for None
    gsCount,    \* general sessions created so far
    session,    \* the CS or WS of each item
    bus,        \* the event bus's queue
    asked,      \* ModuleCoordinator._pending_session_end: <<>> or <<its GS>>
    seen,       \* ModuleCoordinator._layer_dedupe_keys
    cycle,      \* SystemLoop.cycle_index
    owed,       \* SystemLoop._cycle_layer_tracking of this cycle: for each GS,
                \* the responses counted and not yet spoken
    tracking,   \* SystemLoop.cycle_tracking: how far the loop saw the cycle come
    monitored,  \* SystemLoop._last_monitored_cycle
    previous,   \* SystemLoop._previous_state
    shown,      \* working_context's current_gs_id and current_cycle_index
    output,     \* the output thread
    thread,     \* where each other thread is, with its locals
    turns       \* inputs heard so far

sessionVars == <<gs, gsCount, session>>
coordinatorVars == <<asked, seen, output>>
cycleVars == <<cycle, owed>>
lookVars == <<monitored, previous>>
vars == <<mgr, sessionVars, bus, coordinatorVars, cycleVars, tracking, lookVars,
          shown, thread, turns>>

Thread == {"input", "bus", "loop", "monitor"}
Session == [status : {"none", "active", "paused", "completed", "failed"},
            kind : {"CHAT", "WORK"}, gs : 0..MaxGS, pending : BOOLEAN]
NoSession == [status |-> "none", kind |-> "CHAT", gs |-> 0, pending |-> FALSE]

\* item: the item being started; state: StateManager's state, before that or as
\* the loop saw it; mine: the GS seen; todo: what is still to add or to end;
\* rounds: boundaries to do; closing: the first of them closes a cycle; next:
\* where the thread goes after them; quiet: the loop saw nothing to do.
At(pc) == [pc |-> pc, item |-> NoItem, state |-> "IDLE", mine |-> 0, todo |-> <<>>,
           control |-> FALSE, rounds |-> 0, closing |-> FALSE, next |-> "idle",
           quiet |-> FALSE]

Silent == [pc |-> "idle", gs |-> 0, ends |-> FALSE]

Init ==
    /\ mgr = FreshManager(1)
    /\ gs = 0 /\ gsCount = 0
    /\ session = [i \in 1..MaxItems |-> NoSession]
    /\ bus = <<>>
    /\ asked = <<>> /\ seen = {}
    /\ cycle = 0 /\ owed = [g \in 0..MaxGS |-> 0]
    /\ tracking = "none" /\ monitored = -1 /\ previous = "IDLE"
    /\ shown = [gs |-> 0, cycle |-> 0]
    /\ output = Silent
    /\ thread = [t \in Thread |-> At("idle")]
    /\ turns = 0

Active(kind) == {i \in 1..MaxItems : session[i].status = "active" /\ session[i].kind = kind}
AllActive == Active("CHAT") \cup Active("WORK")

MarkPending(ids) == [i \in 1..MaxItems |->
    IF i \in ids THEN [session[i] EXCEPT !.pending = TRUE] ELSE session[i]]

Free(t) ==
    /\ thread[t].pc = "idle"
    /\ Serial => \A u \in Thread : thread[u].pc = "idle"

-----------------------------------------------------------------------------
(* The input thread: what the NLP module makes of what the user said.      *)

Chat == [state |-> "CHAT", prio |-> 50]
DirectWork == [state |-> "WORK", prio |-> 100]
BackgroundWork == [state |-> "WORK", prio |-> 30]
Resume == [state |-> "CHAT", prio |-> 10]

\* With a WS everything is a response to the workflow; with a CS only work is
\* queued, and it interrupts; otherwise chat and work are queued, work first.
Plans ==
    IF Active("WORK") # {} THEN {<<>>}
    ELSE IF Active("CHAT") # {} THEN {<<>>, <<DirectWork>>, <<BackgroundWork, Resume>>}
    ELSE {<<>>, <<Chat>>, <<DirectWork>>, <<BackgroundWork>>,
          <<DirectWork, Chat>>, <<BackgroundWork, Chat>>}

Hear ==
    /\ Free("input")
    /\ turns < MaxTurns
    /\ turns' = turns + 1
    /\ \E plan \in Plans :
          /\ mgr.nextId + Len(plan) <= MaxItems + 1
          /\ LET interrupts == AllActive # {} /\ plan # <<>> IN
             thread' = [thread EXCEPT !["input"] =
                 [At(IF interrupts THEN "pause" ELSE "add") EXCEPT
                     !.todo = plan, !.control = interrupts]]
    /\ UNCHANGED <<mgr, sessionVars, bus, coordinatorVars, cycleVars, tracking,
                   lookVars, shown>>

\* Mutant: the interrupted chat goes on.
PauseNothing ==
    /\ thread["input"].pc = "pause"
    /\ thread' = [thread EXCEPT !["input"].pc = "add"]
    /\ UNCHANGED <<mgr, sessionVars, bus, coordinatorVars, cycleVars, tracking,
                   lookVars, shown, turns>>

\* The chatting sessions found active are paused.
Pause ==
    /\ thread["input"].pc = "pause"
    /\ session' = [i \in 1..MaxItems |->
          IF i \in Active("CHAT") THEN [session[i] EXCEPT !.status = "paused"]
                                  ELSE session[i]]
    /\ thread' = [thread EXCEPT !["input"].pc = "add"]
    /\ UNCHANGED <<mgr, gs, gsCount, bus, coordinatorVars, cycleVars, tracking,
                   lookVars, shown, turns>>

\* add_state; the head of the queue is started when the manager is idle.
Add ==
    /\ thread["input"].pc = "add"
    /\ thread["input"].todo # <<>>
    /\ LET wish == Head(thread["input"].todo)
           m == Enqueue(mgr, wish.state, wish.prio)
           rest == [thread["input"] EXCEPT !.todo = Tail(@)] IN
       IF m.currentState = "IDLE" /\ m.currentItem = NoItem
       THEN /\ mgr' = [PopHead(m) EXCEPT !.visited = TRUE]
            /\ thread' = [thread EXCEPT !["input"] =
                 [rest EXCEPT !.pc = "setState", !.item = Head(m.queue)]]
       ELSE /\ mgr' = m
            /\ thread' = [thread EXCEPT !["input"] = rest]
    /\ UNCHANGED <<sessionVars, bus, coordinatorVars, cycleVars, tracking, lookVars,
                   shown, turns>>

PublishInput ==
    /\ thread["input"].pc = "add"
    /\ thread["input"].todo = <<>>
    /\ bus' = Append(bus, [type |-> "INPUT", key |-> shown,
                           control |-> thread["input"].control])
    /\ thread' = [thread EXCEPT !["input"] = At("idle")]
    /\ UNCHANGED <<mgr, sessionVars, coordinatorVars, cycleVars, tracking, lookVars,
                   shown, turns>>

-----------------------------------------------------------------------------
(* Starting an item: StateManager takes its state and gets it a session    *)
(* under the current GS.                                                   *)

SetState(t) ==
    /\ thread[t].pc = "setState"
    /\ mgr' = [mgr EXCEPT !.sm = thread[t].item.state]
    /\ thread' = [thread EXCEPT ![t].pc = IF gs = 0 THEN "makeGS" ELSE "attach",
                                ![t].state = mgr.sm]
    /\ UNCHANGED <<sessionVars, bus, coordinatorVars, cycleVars, tracking, lookVars,
                   shown, turns>>

\* Starting a GS ends the current one, if there is one by now.
MakeGS(t) ==
    /\ thread[t].pc = "makeGS"
    /\ gsCount < MaxGS
    /\ gs' = gsCount + 1
    /\ gsCount' = gsCount + 1
    /\ shown' = [gs |-> gs', cycle |-> 0]
    /\ thread' = [thread EXCEPT ![t] = IF t = "monitor" THEN At("idle")
                                       ELSE [@ EXCEPT !.pc = "attach"]]
    /\ UNCHANGED <<mgr, session, bus, coordinatorVars, cycleVars, tracking, lookVars,
                   turns>>

\* The steps that follow a start in its thread.
Started(t) == [At(IF t = "loop" THEN "track" ELSE "add") EXCEPT
                  !.todo = thread[t].todo, !.control = thread[t].control]

\* RuntimeError: set_state takes the state back and returns FALSE, which the
\* queue's handler ignores.
Refuse(t) ==
    /\ mgr' = [mgr EXCEPT !.sm = thread[t].state]
    /\ session' = [session EXCEPT ![thread[t].item.id].status = "failed"]
    /\ thread' = [thread EXCEPT ![t] = Started(t)]

Attach(t) ==
    /\ thread[t].pc = "attach"
    /\ \/ gs = 0 /\ Refuse(t)
       \/ /\ gs # 0
          /\ thread' = [thread EXCEPT ![t].pc = "create", ![t].mine = gs]
          /\ UNCHANGED <<mgr, session>>
    /\ UNCHANGED <<gs, gsCount, bus, coordinatorVars, cycleVars, tracking, lookVars,
                   shown, turns>>

\* Another GS than the one seen is a ValueError, which is only logged.
Create(t) ==
    /\ thread[t].pc = "create"
    /\ \/ gs = 0 /\ Refuse(t)
       \/ /\ gs # 0
          /\ session' = [session EXCEPT ![thread[t].item.id] =
                [status |-> IF gs = thread[t].mine THEN "active" ELSE "failed",
                 kind |-> thread[t].item.state, gs |-> gs, pending |-> FALSE]]
          /\ thread' = [thread EXCEPT ![t] = Started(t)]
          /\ UNCHANGED mgr
    /\ UNCHANGED <<gs, gsCount, bus, coordinatorVars, cycleVars, tracking, lookVars,
                   shown, turns>>

-----------------------------------------------------------------------------
(* SystemLoop's thread: one iteration is Advance, a start, Track, Look.    *)

\* STATE_ADVANCED is published before the state is set.
Advance ==
    /\ Free("loop")
    /\ IF mgr.currentItem = NoItem /\ mgr.queue # <<>>
       THEN LET item == Head(mgr.queue) IN
            /\ mgr' = PopHead(mgr)
            /\ bus' = Append(bus, [type |-> "ADVANCED", key |-> shown])
            /\ thread' = [thread EXCEPT !["loop"].pc = "setState", !["loop"].item = item]
       ELSE /\ mgr' = IF mgr.currentItem = NoItem /\ mgr.currentState # "IDLE"
                      THEN TransitionToIdle(mgr) ELSE mgr
            /\ thread' = [thread EXCEPT !["loop"].pc = "track"]
            /\ UNCHANGED bus
    /\ UNCHANGED <<sessionVars, coordinatorVars, cycleVars, tracking, lookVars, shown,
                   turns>>

\* _complete_cycle in thread t: CYCLE_COMPLETED, the next index, then boundaries,
\* after the first of which the tracking starts anew.
CompleteCycle(t, queued, boundaries) ==
    /\ bus' = Append(queued, [type |-> "CYCLE", key |-> [gs |-> gs, cycle |-> cycle]])
    /\ cycle' = cycle + 1
    /\ owed' = [g \in 0..MaxGS |-> 0]
    /\ shown' = [gs |-> gs, cycle |-> cycle + 1]
    /\ thread' = [thread EXCEPT ![t] =
          [boundaries EXCEPT !.pc = "collect", !.closing = TRUE]]

Quiet == mgr.sm = "IDLE" /\ mgr.queue = <<>>

\* _track_processing_cycle: the loop follows a cycle that began with items
\* waiting, and completes it itself once everything is idle again.
Track ==
    /\ thread["loop"].pc = "track"
    /\ LET saw == [At("look") EXCEPT !.state = mgr.sm, !.quiet = Quiet]
           begins == tracking = "none" /\ mgr.queue # <<>> IN
       \/ /\ tracking = "processing" /\ Quiet
          /\ CompleteCycle("loop", bus, [saw EXCEPT !.rounds = 1, !.next = "look"])
          /\ UNCHANGED tracking
       \/ /\ ~(tracking = "processing" /\ Quiet)
          /\ tracking' = CASE begins -> "input"
                           [] tracking = "input" /\ mgr.sm # "IDLE" -> "processing"
                           [] OTHER -> tracking
          /\ shown' = IF begins THEN [gs |-> gs, cycle |-> cycle] ELSE shown
          /\ thread' = [thread EXCEPT !["loop"] = saw]
          /\ UNCHANGED <<bus, cycleVars>>
    /\ UNCHANGED <<mgr, sessionVars, coordinatorVars, lookVars, turns>>

\* Mutant: the boundary is worked off only after a new cycle.
LookAtCycleOnly ==
    /\ thread["loop"].pc = "look"
    /\ previous' = thread["loop"].state
    /\ IF thread["loop"].quiet /\ monitored < shown.cycle
       THEN /\ thread' = [thread EXCEPT !["loop"] = [At("collect") EXCEPT !.rounds = 1]]
            /\ monitored' = shown.cycle
       ELSE /\ thread' = [thread EXCEPT !["loop"] = At("idle")]
            /\ UNCHANGED monitored
    /\ UNCHANGED <<mgr, sessionVars, bus, coordinatorVars, cycleVars, tracking, shown,
                   turns>>

\* Back in IDLE, or after a cycle, the loop works off a cycle boundary.
Look ==
    /\ thread["loop"].pc = "look"
    /\ previous' = thread["loop"].state
    /\ IF thread["loop"].quiet /\ (previous # "IDLE" \/ monitored < shown.cycle)
       THEN /\ thread' = [thread EXCEPT !["loop"] = [At("collect") EXCEPT !.rounds = 1]]
            /\ monitored' = shown.cycle
       ELSE /\ thread' = [thread EXCEPT !["loop"] = At("idle")]
            /\ UNCHANGED monitored
    /\ UNCHANGED <<mgr, sessionVars, bus, coordinatorVars, cycleVars, tracking, shown,
                   turns>>

-----------------------------------------------------------------------------
(* The cycle boundary: Controller.check_gs_end_conditions, in the loop or, *)
(* after an output, in the bus's thread.                                   *)

Pending(kind) == {i \in Active(kind) : session[i].pending}

\* Mutant: the marked workflows are forgotten.
CollectChats(t) ==
    /\ thread[t].pc = "collect"
    /\ thread' = [thread EXCEPT ![t].pc = "end", ![t].todo = SetToSeq(Pending("CHAT"))]
    /\ UNCHANGED <<mgr, sessionVars, bus, coordinatorVars, cycleVars, tracking,
                   lookVars, shown, turns>>

Collect(t) ==
    /\ thread[t].pc = "collect"
    /\ thread' = [thread EXCEPT ![t].pc = "end",
                    ![t].todo = SetToSeq(Pending("CHAT")) \o SetToSeq(Pending("WORK"))]
    /\ UNCHANGED <<mgr, sessionVars, bus, coordinatorVars, cycleVars, tracking,
                   lookVars, shown, turns>>

Ended(i) == [session EXCEPT ![i].status = "completed"]

\* Mutant: session and manager each publish the end.
EndOneTwice(t) ==
    /\ thread[t].pc = "end"
    /\ thread[t].todo # <<>>
    /\ session' = Ended(Head(thread[t].todo))
    /\ bus' = bus \o <<[type |-> "ENDED"], [type |-> "ENDED"]>>
    /\ thread' = [thread EXCEPT ![t].todo = Tail(@)]
    /\ UNCHANGED <<mgr, gs, gsCount, coordinatorVars, cycleVars, tracking, lookVars,
                   shown, turns>>

\* end() does not ask whether the session has ended already.
EndOne(t) ==
    /\ thread[t].pc = "end"
    /\ thread[t].todo # <<>>
    /\ session' = Ended(Head(thread[t].todo))
    /\ bus' = Append(bus, [type |-> "ENDED"])
    /\ thread' = [thread EXCEPT ![t].todo = Tail(@)]
    /\ UNCHANGED <<mgr, gs, gsCount, coordinatorVars, cycleVars, tracking, lookVars,
                   shown, turns>>

BoundaryDone(t) ==
    /\ thread' = [thread EXCEPT ![t] =
          IF @.rounds > 1
          THEN [At("collect") EXCEPT !.rounds = thread[t].rounds - 1]
          ELSE [At(@.next) EXCEPT !.state = thread[t].state, !.quiet = thread[t].quiet]]
    /\ tracking' = IF thread[t].closing THEN "none" ELSE tracking

\* Mutant: sessions that are still active do not keep the GS.
EndsGSByQueue(m) == m.queue = <<>> /\ m.visited

EndsGS(m) ==
    /\ m.currentState = "IDLE" /\ m.queue = <<>> /\ m.visited
    /\ AllActive = {}

\* The GS ends when the queue is idle and empty, no session is active and some
\* state was visited; asking for the queue's status may correct its state.
Judge(t) ==
    /\ thread[t].pc = "end"
    /\ thread[t].todo = <<>>
    /\ mgr' = IF gs = 0 THEN mgr ELSE QueueStatus(mgr)
    /\ IF gs # 0 /\ EndsGS(mgr')
       THEN thread' = [thread EXCEPT ![t].pc = "endGS"] /\ UNCHANGED tracking
       ELSE BoundaryDone(t)
    /\ UNCHANGED <<sessionVars, bus, coordinatorVars, cycleVars, lookVars, shown, turns>>

EndGS(t) ==
    /\ thread[t].pc = "endGS"
    /\ gs' = 0
    /\ IF gs = 0 THEN BoundaryDone(t)
       ELSE thread' = [thread EXCEPT ![t].pc = "clear"] /\ UNCHANGED tracking
    /\ UNCHANGED <<mgr, gsCount, session, bus, coordinatorVars, cycleVars, lookVars,
                   shown, turns>>

ClearHistory(t) ==
    /\ thread[t].pc = "clear"
    /\ mgr' = [mgr EXCEPT !.visited = FALSE]
    /\ shown' = [gs |-> 0, cycle |-> 0]
    /\ BoundaryDone(t)
    /\ UNCHANGED <<sessionVars, bus, coordinatorVars, cycleVars, lookVars, turns>>

-----------------------------------------------------------------------------
(* The bus's thread, one event at a time.                                  *)

Taken(type) ==
    /\ Free("bus")
    /\ bus # <<>>
    /\ Head(bus).type = type

\* StateManager completes the current item, whosever session it was.
OnSessionEnded ==
    /\ Taken("ENDED")
    /\ bus' = Tail(bus)
    /\ mgr' = Complete(mgr)
    /\ UNCHANGED <<sessionVars, coordinatorVars, cycleVars, tracking, lookVars, shown,
                   thread, turns>>

\* The processing layer: the LLM may itself mark a workflow that is done, may
\* answer, and may ask in its answer for the end of the session.
Process(key) ==
    /\ output.pc # "speaking"      \* ModuleCoordinator._invocation_lock
    /\ \E done \in SUBSET Active("WORK") : session' = MarkPending(done)
    /\ \/ bus' = Tail(bus)
       \/ \E ends \in BOOLEAN :
             bus' = Append(Tail(bus), [type |-> "PROCESSING", ends |-> ends,
                              key |-> [gs |-> shown.gs, cycle |-> key.cycle]])
    /\ UNCHANGED <<mgr, cycleVars, shown, thread>>

\* In IDLE there is no module to call, and the cycle is over.
EnterProcessing(key) ==
    \/ /\ mgr.sm = "IDLE"
       /\ CompleteCycle("bus", Tail(bus), [At("collect") EXCEPT !.rounds = 1])
       /\ UNCHANGED <<mgr, session>>
    \/ mgr.sm # "IDLE" /\ Process(key)

DedupeKey(layer, key) == [layer |-> layer, gs |-> key.gs, cycle |-> key.cycle]

\* Dropped when an input of the same GS and cycle was handled before.
OnInput ==
    /\ Taken("INPUT")
    /\ LET key == Head(bus).key IN
       \/ /\ DedupeKey("INPUT", key) \in seen
          /\ bus' = Tail(bus)
          /\ UNCHANGED <<mgr, session, seen, cycleVars, shown, thread>>
       \/ /\ DedupeKey("INPUT", key) \notin seen
          /\ seen' = seen \cup {DedupeKey("INPUT", key)}
          /\ \/ /\ Head(bus).control
                /\ session' = MarkPending(AllActive)
                /\ mgr' = Complete(mgr)
                /\ bus' = Tail(bus)
                /\ UNCHANGED <<cycleVars, shown, thread>>
             \/ ~Head(bus).control /\ EnterProcessing(key)
    /\ UNCHANGED <<gs, gsCount, asked, output, tracking, lookVars, turns>>

OnStateAdvanced ==
    /\ Taken("ADVANCED")
    /\ EnterProcessing(Head(bus).key)
    /\ UNCHANGED <<gs, gsCount, coordinatorVars, tracking, lookVars, turns>>

\* SystemLoop counts every answer; ModuleCoordinator has it spoken unless one
\* of the same GS and cycle was spoken before.
OnProcessing ==
    /\ Taken("PROCESSING")
    /\ output.pc = "idle"      \* bound: one response at a time
    /\ bus' = Tail(bus)
    /\ owed' = [owed EXCEPT ![gs] = @ + 1]
    /\ LET key == DedupeKey("PROCESSING", Head(bus).key) IN
       \/ key \in seen /\ UNCHANGED <<seen, output>>
       \/ /\ key \notin seen
          /\ seen' = seen \cup {key}
          /\ output' = [pc |-> "speaking", gs |-> key.gs, ends |-> Head(bus).ends]
    /\ UNCHANGED <<mgr, sessionVars, asked, cycle, tracking, lookVars, shown, thread,
                   turns>>

\* Mutant: an output is counted for whatever GS is current by now.
SpokenUnchecked(g) == [owed EXCEPT ![g] = @ - 1]

\* The response of an earlier GS or cycle is not counted again.
Spoken(g) == IF owed[g] > 0 THEN [owed EXCEPT ![g] = @ - 1] ELSE owed

\* A cycle is over when every response counted for it was spoken.
OnOutput ==
    /\ Taken("OUTPUT")
    /\ \/ /\ owed[gs] = 1
          /\ CompleteCycle("bus", Tail(bus), [At("collect") EXCEPT !.rounds = 2])
       \/ /\ owed[gs] # 1
          /\ bus' = Tail(bus)
          /\ owed' = Spoken(gs)
          /\ thread' = [thread EXCEPT !["bus"] = [At("collect") EXCEPT !.rounds = 1]]
          /\ UNCHANGED <<cycle, shown>>
    /\ UNCHANGED <<mgr, sessionVars, coordinatorVars, tracking, lookVars, turns>>

\* Only the keys of the event's own GS and cycle are forgotten.
OnCycleCompleted ==
    /\ Taken("CYCLE")
    /\ bus' = Tail(bus)
    /\ seen' = {k \in seen : [gs |-> k.gs, cycle |-> k.cycle] # Head(bus).key}
    /\ IF asked = <<Head(bus).key.gs>>
       THEN session' = MarkPending(AllActive) /\ asked' = <<>>
       ELSE UNCHANGED <<session, asked>>
    /\ UNCHANGED <<mgr, gs, gsCount, output, cycleVars, tracking, lookVars, shown,
                   thread, turns>>

-----------------------------------------------------------------------------
(* The output thread and the monitor.                                      *)

\* Speech synthesis publishes its completion before the call returns ...  It takes
\* longer than an iteration of the loop, which has seen the state by then.
Speak ==
    /\ output.pc = "speaking"
    /\ previous = mgr.sm
    /\ bus' = Append(bus, [type |-> "OUTPUT"])
    /\ output' = [output EXCEPT !.pc = "asking"]
    /\ UNCHANGED <<mgr, sessionVars, asked, seen, cycleVars, tracking, lookVars, shown,
                   thread, turns>>

OutputFails ==
    /\ output.pc = "speaking"
    /\ output' = Silent
    /\ UNCHANGED <<mgr, sessionVars, bus, asked, seen, cycleVars, tracking, lookVars,
                   shown, thread, turns>>

\* ... and only then is the LLM's wish to end the session noted.
Ask ==
    /\ output.pc = "asking"
    /\ output' = Silent
    /\ IF output.ends
       THEN asked' = <<output.gs>> /\ session' = MarkPending(Active("WORK"))
       ELSE UNCHANGED <<asked, session>>
    /\ UNCHANGED <<mgr, gs, gsCount, bus, seen, cycleVars, tracking, lookVars, shown,
                   thread, turns>>

\* Once a second: a GS for whatever has none.
MonitorGS ==
    /\ Free("monitor")
    /\ mgr' = QueueStatus(mgr)
    /\ IF gs = 0 /\ (mgr.queue # <<>> \/ mgr.sm # "IDLE")
       THEN thread' = [thread EXCEPT !["monitor"].pc = "makeGS"]
       ELSE mgr' # mgr /\ UNCHANGED thread
    /\ UNCHANGED <<sessionVars, bus, coordinatorVars, cycleVars, tracking, lookVars,
                   shown, turns>>

\* A session without activity for a day is ended: all that was under way has come
\* to rest by then.
Expire(i) ==
    /\ Free("monitor")
    /\ i \in AllActive
    /\ bus = <<>> /\ output.pc = "idle" /\ previous = mgr.sm
    /\ session' = Ended(i)
    /\ bus' = Append(bus, [type |-> "ENDED"])
    /\ UNCHANGED <<mgr, gs, gsCount, coordinatorVars, cycleVars, tracking, lookVars,
                   shown, thread, turns>>

-----------------------------------------------------------------------------
Start(t) == SetState(t) \/ MakeGS(t) \/ Attach(t) \/ Create(t)
Boundary(t) == Collect(t) \/ EndOne(t) \/ Judge(t) \/ EndGS(t) \/ ClearHistory(t)

InputStep == Pause \/ Add \/ PublishInput \/ Start("input")
LoopStep == Advance \/ Track \/ Look \/ Start("loop") \/ Boundary("loop")
BusStep ==
    \/ OnSessionEnded \/ OnInput \/ OnStateAdvanced \/ OnProcessing \/ OnOutput
    \/ OnCycleCompleted \/ Boundary("bus")
OutputStep == Speak \/ OutputFails \/ Ask
MonitorStep == MonitorGS \/ MakeGS("monitor")

Next ==
    \/ Hear
    \/ InputStep \/ LoopStep \/ BusStep \/ OutputStep \/ MonitorStep
    \/ \E i \in 1..MaxItems : Expire(i)

Spec == Init /\ [][Next]_vars

\* Every thread goes on with what it has begun, the loop keeps iterating and
\* the bus keeps taking events.  Strong fairness because of Serial: another
\* thread's operation disables the next one again and again, for a while.
\* Nobody has to speak, and no session has to expire.
FairSpec ==
    /\ Spec
    /\ WF_vars(InputStep) /\ WF_vars(OutputStep)
    /\ SF_vars(LoopStep) /\ SF_vars(BusStep) /\ SF_vars(MonitorStep)

-----------------------------------------------------------------------------
(* Properties.                                                             *)

Key == [gs : 0..MaxGS, cycle : Nat]
BusEvent ==
    [type : {"ENDED", "OUTPUT"}] \cup [type : {"CYCLE", "ADVANCED"}, key : Key]
    \cup [type : {"INPUT"}, key : Key, control : BOOLEAN]
    \cup [type : {"PROCESSING"}, key : Key, ends : BOOLEAN]

\* The variables keep their types.
TypeOK ==
    /\ mgr \in Manager
    /\ gs \in 0..gsCount /\ gsCount \in 0..MaxGS
    /\ session \in [1..MaxItems -> Session]
    /\ \A k \in 1..Len(bus) : bus[k] \in BusEvent
    /\ asked \in {<<>>} \cup {<<g>> : g \in 0..MaxGS}
    /\ \A k \in seen : k \in [layer : {"INPUT", "PROCESSING"}, gs : 0..MaxGS, cycle : Nat]
    /\ cycle \in Nat /\ owed \in [0..MaxGS -> Nat]
    /\ tracking \in {"none", "input", "processing"}
    /\ monitored \in -1..cycle /\ previous \in States /\ shown \in Key
    /\ output.pc \in {"idle", "speaking", "asking"}
    /\ \A t \in Thread : thread[t].pc \in
          {"idle", "pause", "add", "setState", "makeGS", "attach", "create", "track", "look",
           "collect", "end", "endGS", "clear"}

\* An item is completed by the end of its own session, or by the interruption
\* that paused it, never while its session is active or still to be created:
\* the handlers leave the item to the session's completion.
OwnSessionCompletes ==
    [][\A i \in 1..MaxItems :
          mgr.currentItem.id = i /\ mgr'.currentItem.id # i =>
              session[i].status \in {"paused", "completed", "failed"}]_vars

\* Whatever the threads do in between, an item is started by one thread only,
\* and neither while it still waits nor when its session has ended.
Starts(t) == thread[t].pc \in {"setState", "makeGS", "attach", "create"} /\ t # "monitor"
StartedOnce ==
    \A t \in Thread : Starts(t) =>
        /\ \A u \in Thread \ {t} : Starts(u) => thread[u].item # thread[t].item
        /\ thread[t].item \notin Range(mgr.queue)
        /\ session[thread[t].item.id].status = "none"

\* A GS with nothing left to do ends: neither a waiting or running item, nor an
\* active session, nor an input on its way.
NothingToDo ==
    /\ mgr.currentItem = NoItem /\ mgr.queue = <<>>
    /\ AllActive = {}
    /\ thread["input"].pc = "idle"
QuietGSEnds == \A g \in 1..MaxGS : (gs = g /\ NothingToDo) ~> (gs # g \/ ~NothingToDo)

\* What is marked when a boundary begins is ended by it.
BoundaryEndsPending ==
    \A i \in 1..MaxItems :
        (thread["bus"].pc = "collect" /\ i \in AllActive /\ session[i].pending)
            ~> (i \notin AllActive)

\* An input is no duplicate when nothing is under way that its cycle could wait
\* for: a cycle without an answer, or whose answer could not be spoken, was
\* completed by the loop, as handle_output_completion says.
InputIsHeard ==
    /\ thread["input"].pc = "add" /\ thread["input"].todo = <<>>
    /\ bus = <<>> /\ output.pc = "idle" /\ mgr.sm # "IDLE"
    => DedupeKey("INPUT", shown) \notin seen

\* A cycle is completed only after every response counted for it was spoken, as
\* handle_output_completion says of CYCLE_COMPLETED; the coordinator completes it
\* for an input that meets IDLE, whatever is being spoken.
CompletedWhenSpoken ==
    [][cycle' # cycle => ~(output.pc = "speaking" /\ owed[gs] > 0)]_vars
=============================================================================
