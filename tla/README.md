# Formal models of U.E.P's Core

TLA+ modules, TLC runs and TLAPS proofs for the core of U.E.P, a desktop assistant
whose modules (speech recognition, language understanding, LLM, memory, speech
synthesis, system functions) are driven by a state queue, sessions, an event bus and
three supervising threads. Paths are those of the repository; `PROJECT.json` gives, for
every definition, the lines it stands for.

## 1. Inventory

### Components

| component | state | operations | what makes it correct |
|---|---|---|---|
| **State queue** `core/states/state_queue.py` | `queue`, `current_state`, `current_item`, `state_history`, a JSON file | `add_state`, `process_next_state`, `check_and_advance_state`, `start_next_state`, `complete_current_state`, `interrupt_chat_for_work`, `get_queue_status`, `clear_state_history` | order by priority and age; the state follows the item; nothing waits for ever, runs twice or is started behind SystemLoop's back |
| **Event bus** `core/event_bus.py` | handler lists, a `Queue`, a bounded history, the stop flag, the processing thread | `publish` (sync or not), `subscribe`, `unsubscribe`, `start`, `stop`, `_process_events`, `_dispatch_event` | one consumer; order per publisher; no event lost or repeated over a restart; a failing handler harms no other |
| **State manager** `core/states/state_manager.py` | `_state`, mischief run-time data | `set_state` with session creation and roll-back, `_on_session_ended`, special states | state and session live and die together |
| **Sessions** `core/sessions/` | general session (GS), chatting (CS) and workflow (WS) sessions with status and `pending_end` | start, create, pause, mark for end, end, time-out | no GS ends over an active child; every child ends; an end is honoured once |
| **Module coordinator** `core/module_coordinator.py` | deduplication keys, `_pending_session_end` | handlers for INPUT, PROCESSING, STATE_ADVANCED, CYCLE_COMPLETED; the output thread | each input is processed once, and none is mistaken for a duplicate |
| **System loop** `core/system_loop.py` | `cycle_index`, response counters, `cycle_tracking`, last state and cycle seen | `_main_loop`, `_track_processing_cycle`, `handle_output_completion`, `_complete_cycle` | a cycle is completed once, and only when its speech is over |
| **Controller** `core/controller.py` | GS counters, background tasks, module health | `_monitor_gs_lifecycle`, `check_gs_end_conditions`, session time-outs | a GS exists while there is work and ends when there is none |
| **Sleep and wake-up** `core/states/sleep_manager.py`, `wake_api.py`, part of `core/framework.py` and `core/registry.py`, the sleep button | `_is_sleeping`, the context file, the modules loaded in registry and framework | enter and leave SLEEP, unload, reload, WAKE_READY, recovery at start-up | item, state, sleep manager, file and modules agree when the threads are done; a wake-up ends |
| **Workflow engine** `modules/sys_module/workflows.py`, its callers in `sys_module.py` and `llm_module.py` | the current step, collected data, the review under way, the events | start with its effective first step, the background task, answers, LLM results and reviews | no step is skipped; nobody waits for nobody; completion and failure are told |
| **Background monitors** `modules/sys_module/actions/` | `active_monitors`, stop events, futures, the executor, rows of `background_workflows` | create, run, stop, command, shut down | what runs can be stopped; rows tell what became of it; no command is carried out twice |
| **Memory storage** `modules/mem_module/storage/` | the entries with indexes by id and token, the vector index and two maps, the metadata file and its backup | store, search, delete, save, load | the tables hold the same memories; a restart brings back what was saved last, whole |
| **Speech output** `modules/tts_module/tts_module.py`, `invoke_module`, mischief | `_playback_lock`, the streaming queue, `_invocation_lock` | `handle`, streaming, completion event | what is announced as spoken was played, in order; a call ends |
| **NLP** `modules/nlp_module/` | identities, intents | turns an input into items, pauses a CS, publishes INPUT | an interruption reaches the session it interrupts |
| LLM, SYS modules | models, caches | answer, review, mark a workflow for end | (choices of the environment here, but for the workflow's events) |
| Working context, status manager, user settings | see section 7 | | not modelled |
| Framework, registry, router, initializer, runners, frontend bridge, reload | module tables, Qt objects | discovery, start-up, plumbing | not modelled, but for what sleep loads and unloads |
| MEM, STT, ANI, UI modules; `train/`, `arts/`, `devtools/` | data, models, rendering | | not modelled: data rather than control |

### Interaction

Calls go *down* directly (NLP → queue → state manager → session manager) and come *back*
as events (SESSION_ENDED → state manager → queue; CYCLE_COMPLETED → coordinator). The two
global values `current_gs_id` and `current_cycle_index` of the working context are the
key by which the coordinator recognises duplicates, and are written by four parts.
Threads: input (text or speech, runs NLP), the event bus's (runs all handlers),
SystemLoop's, Controller's monitor (once a second), one output thread per response, the
Qt thread, a reload thread per wake-up, the background pool of workflows and the pool of
monitors. The queue, the state manager, the sessions, the engine and the monitors' tables
have no lock.

### What is hard here

Threads that act on what they read before another thread's step; events that arrive after
the fact they report has changed; handlers that call back into their caller; a cycle
index that must move on exactly once per turn; marks set in one thread and collected in
another; a wait that only one answer ends. `PROJECT.json` "hazards" lists each at its
line, with the properties that cover it.

## 2. Plan

Most important first; all modules named here exist.

1. **Queue**: `StateQueueOps` (operations as functions), `StateQueue` (callers, one call
   at a time), `PriorityServer` (what it promises), refinement, `StateQueueProofs`.
2. **Event bus**: `EventBus`, with publishers, workers and restarts step by step, and `EventBusProofs`.
3. **Sessions and cycles**: `SessionLifecycle`, which composes the queue's operations with
   sessions, bus, coordinator, loop and monitor, `SessionOverlaps` for what goes wrong when
   operations overlap, and `SessionLifecycleProofs`.
4. **Sleep and wake-up**: `SleepWake`, the second composition around `StateQueueOps`,
   and `SleepWakeProofs`.
5. **Workflow engine**: `WorkflowEngine`, four threads in one engine, and
   `WorkflowEngineProofs`.
6. **Background monitors**: `Monitors` and `MonitorsProofs`.
7. **Memory storage**: `MemoryStore`, `DurableStore` (what it promises), refinement,
   `MemoryStoreProofs`.
8. **Speech output**: `SpeechOutput`, and `SpeechOutputProofs`.

Open: overlapping calls *inside* the queue's methods, line by line; notifications and
system reports in `SessionLifecycle`. A project of this size keeps few runs: further ones
will replace those of section 4.

## 3. Modules

**`StateQueueOps`** holds the manager as one record and each method as a function on it.
A handler calls back into the manager (a failed session completes the item, mischief
queues its continuation and completes itself), so methods nest; functions compose the
way the calls do. A handler's encounter with the state manager is an *outcome*: entered,
refused (session creation raised, the state is rolled back, the queue ignores it),
reported (the callback that `state_manager.py:279` provides; `create_*_session` raises
rather than returning None, so this branch exists in the code and is not taken by it),
pending or finished (mischief). ERROR is never queued; MISCHIEF enters the queue only
from its own handler and from tests. `nextId` is a ghost.

**`StateQueue`** lets callers in, one call at a time. `InterruptChatForWork` is in `Next`
although its one caller (`_handle_command_interruption`) is not called.
`process_nlp_intents`, which nothing calls, is not modelled. Where calls do
not overlap, the branch of `CheckAndAdvance` that goes to IDLE is taken only from a state
nothing reaches; it is kept because the code has it, and the type invariant of the proofs
covers it.

**`PriorityServer`** is the abstract specification: jobs wait, the most urgent is served,
retired jobs never return, a crash retires everything. `StateQueue!ImplementsServer`
instantiates it with the obvious mapping (queue ↦ waiting, current item ↦ serving).

**`EventBus`** splits `publish` where another thread can come in (append, slice and store
of the history, hand-over), the processing thread into flag check, get and dispatch, and
`stop` into setting the flag and joining. `delivered` is a ghost. The
statistics are left out.

**`SessionLifecycle`** composes the queue with everything around it. Each method of the
queue is one step; starting an item (`SetState`, `MakeGS`, `Attach`, `Create`) and a cycle
boundary (`Collect`, `EndOne`, `Judge`, `EndGS`, `ClearHistory`) are several, because
other threads really do run in between. `thread` holds each thread's place and locals.
`Serial` = TRUE lets a thread *begin* an operation only while no other is inside one:
what the code does when operations happen not to overlap. `Serial` = FALSE interleaves
at every step; nothing in the code prevents that.

**`SessionOverlaps`** adds to it two histories, which the threads do not see, of the two
slips that the code's look-then-act allows: `late`, a session that was over has been ended
or interrupted once more (`end` does not ask, and an interruption is published whether or
not the chat seen before is still there), and `stale`, the threads whose look at the GS
and the sessions another thread has overtaken. Its two properties say what the threads may
rely on all the same.

| variable | code |
|---|---|
| `mgr` | `StateQueueManager`, `StateManager._state` |
| `gs`, `gsCount`, `session` | the session managers; one CS or WS per item |
| `bus` | the event bus as a FIFO, which `EventBus` justifies (`InOrder`, `OnePlace`) |
| `asked`, `seen` | `_pending_session_end`, `_layer_dedupe_keys` |
| `cycle`, `owed`, `tracking` | `cycle_index`, `_cycle_layer_tracking`, `cycle_tracking` |
| `monitored`, `previous` | `_last_monitored_cycle`, `_previous_state` |
| `shown` | `global_context_data`'s GS and cycle |
| `output` | the output thread |

Abstractions of `SessionLifecycle`: what the user says, what the LLM decides and whether
speech works are choices; one response at a time (a second one waits on the bus);
speech is assumed to take longer than an iteration of the loop (`Speak`), and a session
times out only in a system without events or speech under way (`Expire`; the limit is a
day, and a GS has no `last_activity` and never times out). The flag `skip_input_layer`, the
clean-up of deduplication keys beyond their limit, notifications, sleep and mischief
are left out, and so is `_pending_gs`, which only `trigger_user_input` sets and nothing
calls. TTS is loaded.

**`SleepWake`** is the way into SLEEP and out of it. `mgr` is the record of
`StateQueueOps` with the two states that matter here, CHAT and SLEEP; `sleeping` and
`contextFile` are the sleep manager's; `registry` and `framework` are the two tables of
loaded modules, which unloading changes one after the other (`Unload`, `Forget`) and
reloading too (`Load`, `Register`); `unloader` is the bus's thread inside
`_handle_sleep_entry`, `waker` the reload threads inside `_reload_modules`, `button` the
Qt thread between its look for a GS and its `add_state`. The user presses at any moment:
nothing in the code keeps a wake-up from beginning before the modules are unloaded, or a
sleep from beginning before they are reloaded. `raced` notes that this has happened since
the program started. `LoadsFail` lets a module fail to load or to shut down. A crash (`Restart`) may
come at every step. Snapshot contents, memory figures and the UI's own state are left out.

**`WorkflowEngine`** is one direct workflow: a chain of steps of four kinds, the engine's
`process_input` as steps (`Check`, `Work`, `Advance`, `AdvanceStep`), and the four threads
that call it: `start` (the loop that looks for the effective first step), `background`
(the task it submits), `bus` (reviews, LLM results and the approvals that follow), `user`
(answers, given once the call that started the workflow has returned). `call` holds each
thread's place, its step and its result; `events` is the bus's queue as far as this
workflow's events go. A "prompt" event makes the LLM say something and changes nothing.
Left out: conditional steps with several branches, loop and periodic steps, `skip_to`, the
LLM's answers *modify* and *cancel* (the review is always approved, as
`llm_module.py` does for a direct workflow), the LLM's wording, the session's own end, and
the time an IDLE system takes to notice that a workflow waits.

**`Monitors`** is one monitor per task: the creator (`Register`, `Submit`, `Enqueue`,
`Store`), the monitor's loop, `stop_monitor` from the user and from `shutdown`, commands
by read and write-back, and restarts of the program that leave the table. A command is a
number; a row's metadata is the command in it. `copy` is the metadata a monitor has read
and will write back. `Faults` lets reading the settings, the row or the player fail; every
update of a row may fail too (`WriteFails`), for `update_workflow_status` swallows an error
of the database and the monitor does not look at what it returns. `unsaid` and `kept` note
whose end was not written and which command stayed in its row although it was carried
out. `media_control` itself catches every exception and raises nothing. `restore_monitors`
is not an action, for it looks for SUSPENDED rows and nothing that is called writes one.

**`MemoryStore`** is one operation at a time, since all of them hold `_sync_lock`, with
every save as its file steps: `WriteTemp`, the backup (`BackUp` truncates it, `BackedUp`
has it whole), the move as `Rename` or, where a rename does not replace a file, as
`CopyOver` and `Copied`. `SaveFails` may come at each of them, `Crash` at every step of
anything. `faults` is chosen at the start and says what this machine's files are exposed
to: a move that copies, a file that cannot be read now and then. `indexMap` and
`vectorMap` are the two maps between positions and memories, `vectors` the index's count.
An entry is its id; embeddings, scores, permissions and access counts are left out.
`_dirty` is never read and has no variable; `clear_all_memories`, `rebuild_index`,
`force_save`, `save_index` and `search_vectors` have no caller. A store that the token's
check or the embedding refuses changes nothing and is no action.

**`DurableStore`** is the abstract specification: what is live, what a restart brings
back, and that the second is only ever replaced by the whole of the first, unless files
are not safe. `MemoryStore!ImplementsStore` maps `cache` while the process is up to what
is live and the file's content to what is kept.

**`SpeechOutput`** is a call of `TTSModule.handle` per text: from the output thread, under
`_invocation_lock`, which the bus's thread needs for the next call of the LLM, or from
mischief in the loop's thread, without it. `Look`, `Take`, `Enrol`, `Select` and `Release`
are asyncio.Lock as it is implemented, which several threads' event loops enter here;
`Play` is a short text's playing, once the lock is free again; `Produce`, `Put`, `Get` and
`Streamed` are the streaming tasks. Playing may raise (`Raises`), or there is no player
(`Player` = FALSE) and nothing sounds: `silent` notes the texts of which something was not
heard. `HeardAsTold` claims that a text told was *played* so far, and only of a short one
that it was heard. The lock of asyncio
(`Enrol`, `Select`) is external. Whether the producer's or the consumer's task runs
between two awaits is any order.

Operators that begin with a comment "Mutant:" are plausible bugs; no specification uses
them. Each property is shown to fail when the definition it guards is replaced by one.

## 4. Runs

| run | bounds | shows |
|---|---|---|
| `queue` (`MCStateQueue.cfg`) | 3 items, every priority a caller can reach | type, order, state follows item, no duplicates, draining idles the state manager, refinement of `PriorityServer`, every item is served unless one stays current for ever. Three items: one runs, one waits, one arrives in between |
| `bus` (`EventBus.cfg`) | 2 publishers, 3 events, 2 threads, history of 1 | one consumer, order, one place, bounded history, nothing lost or repeated. One thread more than may live, one event more than fit the race |
| `bus_liveness` | 2 handlers, 2 events, 2 threads | a waiting event reaches who stays subscribed |
| `session_serial` | 2 items, 2 GS, 2 inputs, serial, fair | own session completes its item, a GS without work ends, a boundary ends what was marked. Two items: a chat and the work that interrupts it |
| `session_threads` (`SessionOverlaps`) | 2 items, 3 GS, 1 input, every interleaving | an item is started by one thread, once; it is completed by its own session unless a session that is over is ended once more; only an overtaken thread takes a GS from its sessions. All three are proved for any number |
| `sleep` (`Sleep.cfg`) | 3 items, 2 modules, 2 reload threads, failing loads, presses and crashes at any moment, fair | the records of a sleep agree when the threads are done, unless a sleep and a wake-up have met; every wake-up ends, with the system awake under the same condition. Two modules: one can be unloaded while the other is not yet; three items: a chat before and behind a sleep |
| `workflow` (`Workflow.cfg`) | nine chains, all faults, an answer with at most 2 events pending, fair | no step skipped, nobody waits for nobody, completion is true, everything comes to rest |
| `monitors` (`Monitors.cfg`) | 2 tasks, 1 worker, 2 commands to one task, 1 failed update or restart, all faults | the pool knows its monitors; an ended monitor's row says so unless that update failed or a command came later; commands in order, and twice only if the removal failed. Two tasks on one worker: one waits in the executor's queue |
| `memory` (`Memory.cfg`) | 3 memories, 2 tokens, 2 crashes, all faults | tables agree, a complete copy exists, refinement of `DurableStore`. Two crashes: the second meets what the start after the first has written; three memories: one deleted, one stored, one of another identity |
| `speech` (`Speech.cfg`) | a reply of 4 chunks, a short one, 2 texts of mischief; synthesis and playing may fail in both replies; fair | a text is played in order up to its first chunk not synthesised, what is told was played that far, and heard if it is short; a call ends unless a text is stuck or missed its signal. Four chunks: a failure can have more behind it than the queue of two holds |
| `session_dropped` | 2 items, 2 inputs, serial | **violated**: a turn without speech leaves its cycle open, and the next input counts as its duplicate |
| `session_spoken_early` (`SessionEarly.cfg`) | 2 items, 3 GS, 3 inputs, serial | **violated**: a cycle is completed while a response counted for it is being spoken |

The violated runs check a sentence of a docstring and one of a comment, quoted in
`PROJECT.json` "findings". The second one needs three inputs and 49 steps: a chat's
session expires, the background item behind it is started by the loop, the answer before
it ends its session, and only then is its advance processed and answered; the state is
IDLE again while that answer is spoken, so that the next input needs no module and
`_transition_to_processing_layer` completes the cycle without a look at the counters.
With two inputs no run breaks it.

**Met while modelling, without a run of their own:**

- *Queue.* `get_queue_status` resets `current_state` between a completion and the loop's
  advance, so that the next `add_state` starts a waiting item itself, without
  STATE_ADVANCED. A session that cannot be created leaves its item current for ever,
  because `set_state`'s FALSE is ignored.
- *Bus.* `start` after a join that timed out finds the old thread alive and leaves no
  thread once that one ends. The history can lose its *newest* event, appended by another
  publisher between slice and store (`HistoryBounded` covers the size only).
- *Sessions.* A GS can end with a CS paused for good; the LLM's wish to end a chat can
  miss its cycle's boundary and wait for the user's next turn. Where operations overlap,
  the monitor replaces a GS in use, on a stale reading; and a session
  ended twice, or interrupted when it is over, completes the next item, for SESSION_ENDED
  and a control input complete whichever item is current. These are the two exceptions in
  `GSOutlivesUnlessStale` and `OwnSessionUntilLate`, and both happen: without them TLC
  refutes either property in the instance of run `session_threads`.
- *Sleep.* The queue's SLEEP handler calls `end_general_session` with an argument it does
  not take and swallows the error, so that a GS that slipped in stays current.
- *Workflows.* Wrong answers end the engine. Steps may run several times (the flags that
  would prevent it are read and never set). After a failed and retried step, `Approve`
  skips one. An LLM that gives no result leaves its workflow waiting. Nothing keeps a
  definition to the shapes the repository has: with two processing steps in front, or one
  directly behind an LLM step (`<<work, work, last>>`, `<<work, llm, last>>`,
  `<<ask, llm, work, work, last>>`), a step can be skipped although none has failed, and
  with two questions behind an LLM step (`<<llm, ask, ask, last>>`) a workflow can stop
  without anybody being asked. `workflow` has none of these; `NoStepSkipped` and
  `NobodyForgotten` say for which chains neither can happen.
- *Monitors.* `shutdown`'s comment (`sys_module.py:208`) says that monitors are marked
  SUSPENDED; `stop_monitor` writes CANCELLED, and `restore_monitors` finds nothing. A failed
  update leaves an ended monitor's row RUNNING, or a command to be carried out again. After a crash RUNNING rows have
  no monitor. SLEEP closes the pool's executor, so that a monitor created after a wake-up
  is refused, with its row RUNNING. A stop overwrites COMPLETED by CANCELLED, one for a
  queued monitor times out, and a command to a finished task makes its row RUNNING.
- *Sleep and workflows, more.* A user who wakes the system up while the bus's thread still
  unloads gets WAKE_READY with modules missing
  (`wake_api.py:191` skips a module that is unloaded a moment later), while
  `event_bus.py:97` says that the modules have been reloaded. A step that fails in the
  background task is reported to nobody: `sys_module.py:1250` returns before the branch
  whose comment (line 1330) says that the LLM is told.
- *Memory.* The index file is never written, so that after a restart new vectors count
  from 0 while the loaded memories are numbered from 0 too: the maps collide, and
  `get_stats` calls the storage inconsistent. The move is called atomic (line 149), which
  it is not on Windows. A file that cannot be read for whatever reason is replaced by an
  empty one at once, and the backup is never read. Callers ignore failed saves.
- *Speech.* A streamed reply with a failed chunk and more than two items behind it never
  returns: the comment at `tts_module.py:645` says that the producer waits for the
  consumer to take a chunk, but the consumer has left. It keeps `_invocation_lock`, so
  that the bus's thread stops at the next input for good. A reply that meets mischief at
  the playback lock may sleep through its signal, or be refused with an error, for
  asyncio.Lock belongs to one loop. A streamed reply is a success whatever failed
  to be synthesised or to be played (`tts_module.py:693` swallows the player's error), and
  without simpleaudio nothing is played and every reply is a success: such a text is told
  although nobody has heard it. Only a short text's playback error makes an error of the
  reply. `controller.py:1014` calls a `speak` that the TTS module does not have.
- *Memory module and motion, which are not modelled.* Leaving CHAT does not leave the
  memory module's session; GS_ADVANCED, which it subscribes to, is never published; its
  session-end handler and two of its operations call methods that do not exist. A drag's
  pause reason outlives INTERACTION_STARTED, and an interrupted tease leaves its pause.

**What no property catches.** Nine hazards of `PROJECT.json` name no property, because
the code runs into them and says nowhere that it does not: a refused item that stays
current, a wake-up that races with the unloading, rows without a monitor after a restart,
a failed step that nobody reports, the step skipped after a retry, the maps of the vector
index after a restart, the streamed reply that hangs, an advance processed in IDLE, a
chat paused for good. A property that asked for the contrary would be false; those that
come closest name the case as their exception.

**Bounds.** `MaxItems`, `MaxGS`, `MaxTurns`, `MaxEvents`, `MaxThreads`,
`MaxSubscriptions`, `MaxWakers`, `MaxCommands`, `MaxMishaps`, `MaxCrashes` and `Controlled` cap what
may grow; `Faulty` and `Unplayable` say of which texts a chunk may fail. `session_threads` switches the deadlock check off: with its GS used up the
monitor cannot go on, which the code never meets. `workflow` does so
because the user may keep silent, `monitors` because nobody has to create or stop
anything once the bounds are used up.

**Fairness.** `StateQueue`: the loop's `CheckAndAdvance`, which its thread calls in every
iteration, and nothing else. Nobody has to complete an item: one whose session was refused
has no session to end, SLEEP lasts until somebody wakes the system, and a session lasts as
long as its user. `ServedUnlessBlocked` therefore says that every item is served unless one
stays current for ever. Arrivals are bounded, so that it does not claim that a low priority
is safe from starvation. `EventBus`:
threads are scheduled, handlers return; nobody has to publish, start or stop.
`SessionLifecycle`: every thread goes on with what it has begun, loop, bus and monitor
for ever; strong fairness where `Serial` lets other threads disable a step again and
again. The user need not speak and no session need expire. `SleepWake`: the bus's steps,
the loop's `Advance`, the second half of the button's handler and every step of a reload
thread; nobody has to press, to speak or to crash. `WorkflowEngine`: each of the four
threads goes on with what it has begun; `Answer` is not fair, the user may keep silent.
`MemoryStore` states none and promises nothing that must happen. `SpeechOutput`: the bus's thread and
every call go on with what they can do, and a lock that stays free is taken; nobody has
to give an input or to tease, and a waiter whose signal came too late is not woken.
`speech` switches the deadlock check off: everything may have been spoken, or hang.

## 5. Proofs

`StateQueueProofs` proves, for every `MaxItems` and every set of `CustomPriorities` below
`InterruptPriority`, from these two assumptions only:

- `QueueTypeCorrect`, `QueueAlwaysOrdered`, `NeverDuplicated`, `StateAlwaysFollowsItem`: the
  invariants of run `queue`;
- `DrainingIdles`: the action property `DrainingIdlesStateManager`.

None of the invariants is inductive alone: the order among equals needs that identities in
the queue are below `nextId` and that no priority exceeds 200, the draining property that
a current item's state is the manager's state. `QueueInductive` collects the conjunction and
shows it preserved; each operation of `StateQueueOps` has a lemma that says what it does
to a *good* manager, so that `ProcessNext`, which calls a handler that calls `Enqueue` and
`Complete`, is proved by composing them. The insertion lemma shows that the
insertion point exists and that inserting there keeps the order. The lemmas about
insertion, popping, completing and reading the queue come first and name `StateQueueOps`
only, for `SleepWakeProofs` and `SessionLifecycleProofs` extend the module to cite them.

`QueueIsServer`, in the same module, proves from the same assumptions that the queue
implements `PriorityServer`. The argument sees a manager as three sets, what waits, what is
served and what has retired; `Fit` adds to the invariant that items are the server's jobs
and `nextId` is within the bound. Each operation has a lemma saying what it does to the
first two sets and to `nextId`; `Fates` gives the third. `After` says what a handler may
leave of the item it was started for (running on, over, or over with one successor), so
that an advance with everything called back is still one step of the server.

`EventBusProofs` proves the six properties of run `bus` for all sets of handlers, event
types and publishers and all bounds (`EventBusAssumption` only; the history's bound needs
that there are finitely many publishers, for it counts them): `TypeCorrect`,
`AtMostOneConsumer`, `OnePlaceOnly`, `OnlyMoveOn`, `DeliveredInOrder` and
`HistoryStaysBounded`. The argument climbs:

- `Typed` adds to the types which places of a worker go with an event in its hands;
- `AliveInv`: a thread other than `current` is dead or unborn, which is what `start` and
  `stop` really maintain by refusing to start beside a living thread. One thread alive
  means that only one thread holds an event;
- `IdsInv` and `Apart`: identities are below `created`, and queue, threads and publishers
  hold different ones;
- the lemma `Moves` reduces the steps of `Next` to what they do to events (created, handed
  over, taken, handled, let go), so that the remaining invariants have five cases and not
  one per action;
- `OwnEvents` and `OrderInv`: what a handler has been given of a publisher is older than
  what the thread holds, which is older than the queue, which is older than what the
  publisher still holds;
- `HistoryInv`: the history is longer than its limit by at most the publishers between
  append and store.

`MonitorsProofs` proves, for every set of tasks, number of workers, set of faults and
bound (`WorkersAssumption`, `FaultsAssumption`, `BoundsAssumption`), the four invariants
of run `monitors`: `TypeCorrect`, `PoolKnows`, `EndIsWritten`, `InOrder`. Each is
strengthened and stands on the ones before it:

- `Typed` adds that a caller inside `control_media` has a command left to send, and that
  a creator under way has a task;
- `PoolInv` says which tasks wait for a worker, that none waits twice and that a task is
  submitted once: without it a monitor's clean-up could remove a second monitor of its
  task from `active_monitors`;
- `Written` says that a row says so, or the update that should have has failed, before the
  monitor leaves the pool's dictionaries; `EndIsWritten` needs the places in which a row
  may be RUNNING again;
- `OrderInv` says that the commands carried out are `Below` the one read, and below the one
  in the row unless that is one that could not be removed (`Fresh`), which `Clear` must
  preserve although it writes back what it read.

`MemoryStoreProofs` proves, for all finite sets of ids, all tokens and any number of
crashes (`StoreAssumption`), `TypeCorrect`, `StoresAgreeAlways`, `SomeCompleteCopyAlways`
and that the storage implements `DurableStore` (`StoreIsDurable`, the initial state and
every step of `Next`). The strengthening says what is true *inside* an operation:

- `Holders` and `Metadata`: which ids a running operation may be about, and that entries,
  indexes and tokens agree except during a start;
- `Mapped` and `Paired`: the vector map lacks exactly the memory being stored and still
  has the one being deleted; positions are below the index's count, which is what keeps a
  new position from being one in use;
- `Made`: what is in the store or in its file was made once, so that a new id is new;
- `Copies`: what file and backup hold at each place of a save, so that the torn one is
  never the last complete one;
- `Starting`: the entries a start has read are those of the file, or none.

`SpeechOutputProofs` proves, for any replies, any texts of mischief, any numbers of chunks
and any sets of texts that may fail to be synthesised or to be played, with a player or
without (`SpeechAssumption`), `TypeCorrect` and
`HeardAsToldAlways`. The argument has two halves:

- `Told` sees a streamed text as one line of chunks, cut in three: played, in the queue, in
  the producer's hand. `Line` numbers it, says where a failed chunk may be, and that a
  consumer that has stopped has played all that can be played; it concerns one record, so
  that each operation has a lemma of its own (`LinePut`, `LineGet`, `LineStop`, ...) that
  names no other text and no lock. `Place` says how far the call is when its line has
  ended; a step of one text leaves the others alone (`Others`);
- `Alone`: while mischief keeps still, whoever is inside the TTS module holds the
  invocation lock, nobody waits at the playback lock and it is taken exactly while its
  owner works, so that no reply is refused and only a chunk that fails, or a short text
  that cannot be played, makes one an error.

`SleepWakeProofs` proves, for every list of modules, every set of modules that fail to
load and any number of items, reload threads and crashes, `TypeCorrect` and
`SleepConsistent`, for presses at any moment. `SleepIsConsistent` speaks of the moments at
which all threads are done, as long as no sleep and no wake-up have met (`raced`); once
they have, the records can disagree until the next start (section 4), and the invariant
keeps the types only. Until then it says what holds in between:

- `Typed` adds that `entered`, the events SLEEP_ENTERED still to be handled, and what
  waits in the queue are together fewer than the identities given out;
- `Turns`: button, unloading and one reload thread exclude each other, and at most one
  SLEEP is waiting or current;
- `Records`: sleep manager, file and item say the same up to the wake-up's own order of
  clearing them;
- `Holdings`: registry and framework differ by the module just handled, and every module
  before the place of a reload thread is loaded or has failed to load.

`SessionLifecycleProofs` has two parts. The first holds however the five threads
interleave, for any number of items, general sessions and inputs: `TypeCorrect` with the
places and locals of each thread (`Fits` says that what an input still has to queue fits
the bound, and that a thread starts only a CHAT or a WORK item), and `StartsOnce`. Its
invariant `Once` says that an identity that waits or is still to come has no session yet
(`Clean`), that two threads which start items start different ones, whose sessions do not
exist yet (`Underway`), and that what a boundary has collected did have its start (`Begun`).

The second part is about `SessionOverlaps`, for every interleaving as well.
`OwnSessionOnly` follows from `Orderly`, which holds until `late`:

- `Completing`: an active session is the current item's; the bus holds at most one event
  that completes an item (SESSION_ENDED, or the input of a control command), and holds one
  only while the current item's session is paused or over. This is why an event that
  completes whatever is current when it arrives completes the right item;
- `Placing`: an item being started is the current one, so that a session that becomes
  active is the current item's;
- `Interrupting`: the input of a control command that has paused its chat, and is still to
  be published, will be the only event that completes it.

`GSOutlives` follows from `UpToDate`: of a thread about to make or to end a GS, either what
it saw still holds (`Seen`) or it is stale. `JustLooked` goes through every way into those
two places; the other threads' steps make it stale.

`WorkflowEngineProofs` proves, for any set of faults and any bound on the events
(`ChainsAssumption`, `FaultsAssumption`, `MaxEventsAssumption`):

- `TypeCorrect`, for every chain. `Typed` adds that a thread about to execute a step has
  one, and that an LLM is asked for the result of a step of the chain;
- `CompletionIsTrue`, for every chain: `Finished` says that wherever a workflow counts as
  completed (no current step, a call's result, an event) the last step has run, and that
  what an approval executes as the final step is the last one;
- `NoStepSkipped`, for chains that are `Simple`: no processing step comes first, and behind
  an LLM step there are only questions and the end. All workflows in
  `modules/sys_module/workflows/` are; of the nine chains of run `workflow` one is not
  (`Late`), and for others the property is false (section 4).
- `NobodyForgotten` (the property `NeverForgotten`), for chains that are `Simple` and
  `AsksAtOnce`: what is asked behind an LLM step is asked right behind it, so that there is
  at most one such question. The repository's workflows are; with a second question the
  property is false (section 4).

The argument of `NoStepSkipped` cuts a workflow in three: before the LLM step one thread drives it
(`Alone`: the start, or the user's answer, never both by `StartOver`); at the LLM step
nobody runs a step until the result has come (`Waits`); behind it several threads may run
steps at once, with a step that is not current any more, but each has reached its step in
order (`Stepping`, `Ran`). `Advancing` and `Awaits` keep a review under way apart from the
threads that run steps, and `Results` shows that in such a chain nothing is ever approved:
a processing step is run on the way, where it is not reviewed, so that `Approve`, which
goes on from whatever is current, has nothing to skip.

`NobodyForgotten` adds `Kept` and `OnIt` to that invariant. `OnIt` names, for each kind of
current step, who is on it: a question has been put (`Prompting`: the working context says
so, or an event behind the last `inputDone` will) or a thread is about to put or to answer
it; a result is queued for the LLM or being computed; any other step has a thread that
will run it, and a thread only leaves at a question, at a result or at the end; the end
has been or will be told. `Kept` holds what these threads rely on: an engine that is gone has told an
end (`Ended`), data that have been collected stay (`DataKept`), and a step marked as asked
for, for which no event is published again, really is asked for (`AskedFor`). The last is
where a second question behind the LLM step would break it: a thread that is late runs the
first question after the second has been put, and its `inputDone` takes the prompt away.

## 6. What is only model-checked

Liveness under fairness, which is out of the prover's reach (`ServedUnlessBlocked`,
`EveryEventReachesItsSubscribers`, `QuietGSEnds`, `BoundaryEndsPending`, `WakingEnds`,
`ComesToRest`, `SpeechEnds`). The two violated properties need no proof: their runs show a
counterexample.

## 7. Not modelled

- *Working context*: a table of decision contexts with expiry, read by one thread at a
  time; `is_workflow_waiting_for_input` is in `WorkflowEngine` as `prompted`, the GS and
  cycle values are in `SessionLifecycle` as `shown`.
- *Status manager*: numbers clamped to their range, and their persistence.
- *User settings*: `reload_from_disk` defers changes while `_gs_active` is set, which
  follows SESSION_STARTED; nothing publishes that event, so that every change applies at
  once. The reload coordinator and the background event scheduler are not called.
- *Framework, registry, router, initializer, runners, frontend bridge*: discovery and
  plumbing without a protocol of their own.
- *Memory module above its storage, STT, MOV, ANI, UI, LLM modules*, `train/`, `arts/`, `devtools/`: models, data
  and rendering; their parts in a protocol are choices of the environment.
