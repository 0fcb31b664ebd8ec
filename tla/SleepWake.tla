----------------------------- MODULE SleepWake -----------------------------
(***************************************************************************)
(* Going to sleep and waking up: the one place where the state queue, the  *)
(* state manager, the sleep manager, the framework, the registry and four  *)
(* threads meet.                                                           *)
(*                                                                         *)
(*   UI thread      the sleep button (access_widget.py) queues a SLEEP     *)
(*                  item, or calls wake_up_system, which wakes the sleep   *)
(*                  manager and spawns a reload thread                     *)
(*   loop           starts queued items (StateQueueOps)                    *)
(*   bus thread     on SLEEP_ENTERED unloads the modules one by one, from  *)
(*                  the registry first and from the framework second       *)
(*   reload thread  loads what the framework lacks, completes the SLEEP    *)
(*                  item, publishes WAKE_READY and leaves the SLEEP state  *)
(*   monitor        Controller's thread: corrects the queue's state and    *)
(*                  creates a general session when it sees work            *)
(*                                                                         *)
(* Two states of the queue are enough here, CHAT and SLEEP.  Bounds:       *)
(* MaxItems items, MaxWakers reload threads at a time.                     *)
(***************************************************************************)
EXTENDS StateQueueOps, FiniteSets

CONSTANTS
    ModuleOrder,     \* the modules, in the order both threads visit them
    MaxWakers,       \* bound: reload threads alive at a time
    LoadsFail        \* may a module fail to load, or to shut down?

ASSUME ModuleOrderAssumption ==
    /\ ModuleOrder \in Seq(ToSet(ModuleOrder)) /\ ModuleOrder # <<>>
    /\ IsInjective(ModuleOrder)
ASSUME MaxWakersAssumption == MaxWakers \in Nat \ {0}
ASSUME FlagsAssumption == LoadsFail \in BOOLEAN

Modules == ToSet(ModuleOrder)
Wakers == 1..MaxWakers

VARIABLES
    gs,           \* is a general session current?
    sleeping,     \* SleepManager._is_sleeping
    contextFile,  \* does memory/sleep_context.json exist?
    entered,      \* SLEEP_ENTERED events the bus has not dispatched yet
    registry,     \* keys of registry._loaded_modules
    framework,    \* keys of core_framework.modules
    lost,         \* modules whose last reload failed
    unloader,     \* the bus thread in _handle_sleep_entry: step and index
    waker,        \* the reload threads: step and index
    button,       \* the button's handler, between its check and add_state
    raced         \* for the properties: has a sleep met a wake-up?

vars == <<mgr, gs, sleeping, contextFile, entered, registry, framework, lost,
          unloader, waker, button, raced>>
sleepVars == <<sleeping, contextFile, entered, raced>>
coreVars == <<mgr, gs, sleepVars>>

Rest == [at |-> "rest", k |-> 1]
WakerSteps == {"rest", "look", "load", "register", "complete", "publish",
               "exit", "leave"}

Init ==
    /\ mgr = FreshManager(1)
    /\ gs = FALSE /\ sleeping = FALSE /\ contextFile = FALSE /\ entered = 0
    /\ registry = Modules /\ framework = Modules /\ lost = {}
    /\ unloader = Rest
    /\ waker = [t \in Wakers |-> Rest]
    /\ button = "rest"
    /\ raced = FALSE

Quiet == /\ entered = 0 /\ unloader = Rest /\ button = "rest"
         /\ \A t \in Wakers : waker[t] = Rest

Asleep(m) == m.currentItem.state = "SLEEP"

\* The user may press the button at any moment, and nothing but the order of
\* the threads keeps the two apart: a wake-up begins while the bus has yet to
\* unload modules, or a sleep begins while a thread reloads them.
Unloading == entered > 0 \/ unloader # Rest
Waking == \E t \in Wakers : waker[t] # Rest

-----------------------------------------------------------------------------
(* Starting and completing items.                                          *)

\* What set_state does besides setting the state: a chat session and the
\* general session above it, or SleepManager.enter_sleep, which refuses when
\* it sleeps already.  The SLEEP handler tries to end a general session with
\* an argument end_general_session does not take, and swallows the error.
Enter(m) ==
    /\ mgr' = m
    /\ IF Asleep(m)
       THEN /\ sleeping' = TRUE /\ contextFile' = TRUE
            /\ entered' = IF sleeping THEN entered ELSE entered + 1
            /\ gs' = gs
            /\ raced' = (raced \/ Waking)
       ELSE /\ gs' = TRUE
            /\ UNCHANGED sleepVars

\* add_state, which starts the head of the queue when the manager is idle.
Add(state) ==
    LET m == Enqueue(mgr, state, DefaultPriority(state)) IN
    IF m.currentState = "IDLE" /\ m.currentItem = NoItem
    THEN Enter(ProcessNext(m, "entered"))
    ELSE mgr' = m /\ UNCHANGED <<gs, sleepVars>>

\* NLP queues a chat, also one whose input was under way when sleep began.
AddChat ==
    /\ mgr.nextId <= MaxItems
    /\ Add("CHAT")
    /\ UNCHANGED <<registry, framework, lost, unloader, waker, button>>

\* SystemLoop calls check_and_advance_state.
Advance ==
    /\ mgr.currentItem = NoItem
    /\ IF mgr.queue = <<>>
       THEN /\ mgr.currentState # "IDLE"
            /\ mgr' = TransitionToIdle(mgr)
            /\ UNCHANGED <<gs, sleepVars>>
       ELSE Enter(StartNext(mgr, "entered"))
    /\ UNCHANGED <<registry, framework, lost, unloader, waker, button>>

\* The chat's session ends and completes the item.
ChatEnds ==
    /\ mgr.currentItem.state = "CHAT"
    /\ mgr' = Complete(mgr)
    /\ UNCHANGED <<gs, sleepVars, registry, framework, lost, unloader, waker, button>>

\* check_gs_end_conditions, at the boundary of a cycle.
EndGS ==
    /\ gs /\ mgr.currentItem.state # "CHAT" /\ mgr.visited
    /\ QueueStatus(mgr).currentState = "IDLE" /\ mgr.queue = <<>>
    /\ gs' = FALSE
    /\ mgr' = [QueueStatus(mgr) EXCEPT !.visited = FALSE]
    /\ UNCHANGED <<sleepVars, registry, framework, lost, unloader, waker, button>>

\* _monitor_gs_lifecycle, every second.
MonitorGS ==
    LET makes == ~gs /\ mgr.sm # "SLEEP" /\ (mgr.queue # <<>> \/ mgr.sm # "IDLE") IN
    /\ makes \/ QueueStatus(mgr) # mgr
    /\ mgr' = QueueStatus(mgr)
    /\ gs' = (gs \/ makes)
    /\ UNCHANGED <<sleepVars, registry, framework, lost, unloader, waker, button>>

-----------------------------------------------------------------------------
(* The button.                                                             *)

\* Outside SLEEP the handler looks for a general session ...
PressToSleep ==
    /\ button = "rest" /\ mgr.sm # "SLEEP" /\ ~gs
    /\ mgr.nextId <= MaxItems
    /\ button' = "add"
    /\ UNCHANGED <<coreVars, registry, framework, lost, unloader, waker>>

\* ... and then queues the item, whatever has happened since.
QueueSleep ==
    /\ button = "add"
    /\ button' = "rest"
    /\ IF mgr.nextId <= MaxItems THEN Add("SLEEP") ELSE UNCHANGED coreVars
    /\ UNCHANGED <<registry, framework, lost, unloader, waker>>

\* SleepManager.wake_up, which refuses when nothing sleeps.
WakeUp == sleeping' = FALSE /\ contextFile' = FALSE

\* wake_up_system: only in SLEEP, and only if the sleep manager agrees.
PressToWake ==
    /\ button = "rest" /\ mgr.sm = "SLEEP" /\ sleeping
    /\ \E t \in Wakers :
          /\ waker[t] = Rest
          /\ waker' = [waker EXCEPT ![t] = [at |-> "look", k |-> 1]]
    /\ WakeUp
    /\ raced' = (raced \/ Unloading)
    /\ UNCHANGED <<mgr, gs, entered, registry, framework, lost, unloader, button>>

-----------------------------------------------------------------------------
(* The bus thread unloads.                                                 *)

\* Mutant: the loop runs once too often.
NextUnloadTooLong(k) ==
    IF k > Len(ModuleOrder) THEN Rest ELSE [at |-> "unload", k |-> k + 1]

NextUnload(k) ==
    IF k = Len(ModuleOrder) THEN Rest ELSE [at |-> "unload", k |-> k + 1]

OnSleepEntered ==
    /\ entered > 0 /\ unloader = Rest
    /\ entered' = entered - 1
    /\ unloader' = [at |-> "unload", k |-> 1]
    /\ UNCHANGED <<mgr, gs, sleeping, contextFile, raced, registry, framework, lost,
                   waker, button>>

\* registry.unload_module: a module the registry does not hold, or whose
\* shutdown raises, is not unloaded and stays in the framework.
Unload ==
    LET m == ModuleOrder[unloader.k] IN
    /\ unloader.at = "unload"
    /\ \/ /\ m \in registry
          /\ registry' = registry \ {m}
          /\ unloader' = [unloader EXCEPT !.at = "forget"]
       \/ /\ m \notin registry \/ LoadsFail
          /\ unloader' = NextUnload(unloader.k)
          /\ registry' = registry
    /\ UNCHANGED <<coreVars, framework, lost, waker, button>>

\* Only then the framework drops its entry.
Forget ==
    /\ unloader.at = "forget"
    /\ framework' = framework \ {ModuleOrder[unloader.k]}
    /\ unloader' = NextUnload(unloader.k)
    /\ UNCHANGED <<coreVars, registry, lost, waker, button>>

-----------------------------------------------------------------------------
(* A reload thread.                                                        *)

Move(t, at) == waker' = [waker EXCEPT ![t].at = at]
NextReload(t) ==
    waker' = [waker EXCEPT ![t] =
        IF waker[t].k = Len(ModuleOrder) THEN [at |-> "complete", k |-> 1]
        ELSE [at |-> "look", k |-> waker[t].k + 1]]

\* A module the framework still holds counts as loaded.
Look(t) ==
    /\ waker[t].at = "look"
    /\ IF ModuleOrder[waker[t].k] \in framework
       THEN NextReload(t) ELSE Move(t, "load")
    /\ UNCHANGED <<coreVars, registry, framework, lost, unloader, button>>

\* Mutant: a module that fails to load is tried again until it loads.
LoadUntilItWorks(t) ==
    LET m == ModuleOrder[waker[t].k] IN
    /\ waker[t].at = "load"
    /\ \/ registry' = registry \cup {m} /\ lost' = lost \ {m} /\ Move(t, "register")
       \/ /\ LoadsFail /\ m \notin registry /\ m \notin lost
          /\ lost' = lost \cup {m} /\ UNCHANGED <<registry, waker>>
       \/ /\ LoadsFail /\ m \in lost
          /\ lost' = lost \ {m} /\ UNCHANGED <<registry, waker>>
    /\ UNCHANGED <<coreVars, framework, unloader, button>>

\* registry.get_module in _try_register_module.
Load(t) ==
    LET m == ModuleOrder[waker[t].k] IN
    /\ waker[t].at = "load"
    /\ \/ registry' = registry \cup {m} /\ lost' = lost \ {m} /\ Move(t, "register")
       \/ /\ LoadsFail /\ m \notin registry
          /\ lost' = lost \cup {m} /\ registry' = registry /\ NextReload(t)
    /\ UNCHANGED <<coreVars, framework, unloader, button>>

Register(t) ==
    /\ waker[t].at = "register"
    /\ framework' = framework \cup {ModuleOrder[waker[t].k]}
    /\ NextReload(t)
    /\ UNCHANGED <<coreVars, registry, lost, unloader, button>>

\* Mutant: the item is left for leaving the state to complete.
CompleteNothing(t) ==
    /\ waker[t].at = "complete"
    /\ Move(t, "publish")
    /\ UNCHANGED <<coreVars, registry, framework, lost, unloader, button>>

\* The thread completes the current item if that is a SLEEP, whichever it is.
CompleteSleep(t) ==
    /\ waker[t].at = "complete"
    /\ mgr' = IF Asleep(mgr) THEN Complete(mgr) ELSE mgr
    /\ Move(t, "publish")
    /\ UNCHANGED <<gs, sleepVars, registry, framework, lost, unloader, button>>

PublishReady(t) ==
    /\ waker[t].at = "publish"
    /\ Move(t, "exit")
    /\ UNCHANGED <<coreVars, registry, framework, lost, unloader, button>>

\* exit_special_state: it looks at the state, wakes what sleeps ...
ExitState(t) ==
    /\ waker[t].at = "exit"
    /\ IF mgr.sm = "SLEEP"
       THEN /\ Move(t, "leave")
            /\ IF sleeping THEN WakeUp ELSE UNCHANGED <<sleeping, contextFile>>
       ELSE /\ waker' = [waker EXCEPT ![t] = Rest]
            /\ UNCHANGED <<sleeping, contextFile>>
    /\ UNCHANGED <<mgr, gs, entered, raced, registry, framework, lost, unloader,
                   button>>

\* ... and sets IDLE, whatever the state is by then.
LeaveSleep(t) ==
    /\ waker[t].at = "leave"
    /\ mgr' = [mgr EXCEPT !.sm = "IDLE"]
    /\ waker' = [waker EXCEPT ![t] = Rest]
    /\ UNCHANGED <<gs, sleepVars, registry, framework, lost, unloader, button>>

WakerStep(t) ==
    \/ Look(t) \/ Load(t) \/ Register(t) \/ CompleteSleep(t)
    \/ PublishReady(t) \/ ExitState(t) \/ LeaveSleep(t)

\* The process dies and starts again: check_sleep_on_startup removes the
\* context file, every module is loaded.
Restart ==
    /\ mgr' = FreshManager(mgr.nextId)
    /\ gs' = FALSE /\ sleeping' = FALSE /\ contextFile' = FALSE /\ entered' = 0
    /\ registry' = Modules /\ framework' = Modules /\ lost' = {}
    /\ unloader' = Rest /\ waker' = [t \in Wakers |-> Rest] /\ button' = "rest"
    /\ raced' = FALSE

BusStep == OnSleepEntered \/ Unload \/ Forget
LoopStep == Advance \/ EndGS
ButtonStep == PressToSleep \/ QueueSleep \/ PressToWake

Next ==
    \/ AddChat \/ ChatEnds \/ MonitorGS \/ LoopStep \/ ButtonStep \/ BusStep
    \/ \E t \in Wakers : WakerStep(t)
    \/ Restart

Spec == Init /\ [][Next]_vars

\* Threads that can run do; nobody has to press, to speak or to crash.
FairSpec ==
    /\ Spec
    /\ WF_vars(BusStep) /\ WF_vars(Advance) /\ WF_vars(QueueSleep)
    /\ \A t \in Wakers : WF_vars(WakerStep(t))

-----------------------------------------------------------------------------
(* Properties.                                                             *)

\* Every variable has its type: the bus never has to remember more sleeps
\* than there were items.
TypeOK ==
    /\ mgr \in Manager
    /\ gs \in BOOLEAN /\ sleeping \in BOOLEAN /\ contextFile \in BOOLEAN
    /\ entered \in 0..MaxItems
    /\ registry \subseteq Modules /\ framework \subseteq Modules /\ lost \subseteq Modules
    /\ unloader \in [at : {"rest", "unload", "forget"}, k : 1..Len(ModuleOrder)]
    /\ waker \in [Wakers -> [at : WakerSteps, k : 1..Len(ModuleOrder)]]
    /\ button \in {"rest", "add"} /\ raced \in BOOLEAN

\* When all threads have finished, the five records of the sleep agree: the
\* queue's item, StateManager, the sleep manager, its file and the modules,
\* unless, since the program started, a wake-up began before the modules were
\* unloaded or a sleep before they were reloaded.  A wake-up that completes too
\* little or leaves too early breaks it, and so does a crash that is not
\* cleaned up after; presses in any other order do not, nor do items queued
\* behind the sleep, a second sleep included.
SleepIsConsistent ==
    Quiet /\ ~raced =>
        /\ sleeping = Asleep(mgr)
        /\ sleeping => mgr.sm = "SLEEP"
        /\ contextFile = sleeping
        /\ framework = registry
        /\ ~sleeping => framework = Modules \ lost

\* A wake-up ends, whatever fails to load and whatever it races with; and the
\* system is awake then, unless it raced.
WakingEnds ==
    \A t \in Wakers :
        (waker[t].at # "rest") ~>
            (waker[t] = Rest /\ (raced \/ (mgr.sm # "SLEEP" /\ ~sleeping)))
=============================================================================
