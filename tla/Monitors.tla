------------------------------ MODULE Monitors ------------------------------
(***************************************************************************)
(* The monitors of media playback: MonitoringThreadPool, the monitor       *)
(* function it runs for each task, and the rows of background_workflows    *)
(* they share.                                                             *)
(*                                                                         *)
(*   creator  create_media_monitor: registers a row and submits the task   *)
(*   t        each task's monitor, on a worker of the pool                 *)
(*   user     control_media: a command, or stop_service                    *)
(*   sys      sys_module.shutdown: before sleep, or when the program ends  *)
(*                                                                         *)
(* Nothing is locked: each action reads or writes a row, or the pool's     *)
(* dictionaries, once.  A command is a number, so that two can be told     *)
(* apart; a row's metadata is the command in it.  restore_monitors finds   *)
(* no row (only prepare_shutdown writes SUSPENDED, and nobody calls it).   *)
(***************************************************************************)
EXTENDS Naturals, Sequences, FiniteSets

CONSTANTS
    Tasks,
    Workers,      \* max_workers
    Faults,       \* what may raise or return nothing: "settings", "read", "player"
    Controlled,   \* bound: the tasks the user stops or sends commands to
    MaxCommands,  \* bound: commands sent
    MaxMishaps    \* bound: updates of a row that fail, and restarts of the program

ASSUME WorkersAssumption == Workers \in Nat \ {0}
ASSUME FaultsAssumption == Faults \subseteq {"settings", "read", "player"}
ASSUME BoundsAssumption ==
    Controlled \subseteq Tasks /\ MaxCommands \in Nat /\ MaxMishaps \in Nat

Statuses == {"none", "RUNNING", "COMPLETED", "FAILED", "CANCELLED", "SUSPENDED"}
Over == {"COMPLETED", "FAILED", "CANCELLED"}
Commands == 1..MaxCommands
NoTask == "none"

VARIABLES
    row,       \* the status of each task's row
    command,   \* the control_action in its metadata; 0 is None
    lost,      \* how many updates of rows have failed
    active,    \* active_monitors
    told,      \* the tasks whose stop event is set
    futures,   \* monitor_threads
    waiting,   \* the executor's queue
    open,      \* does the executor accept tasks?
    at,        \* where each monitor is
    copy,      \* the command in the metadata a monitor has read
    done,      \* the commands each monitor has carried out
    creator,   \* the task being created, and how far
    stopper,   \* the user's and the system's calls of stop_monitor
    control,   \* the task whose row control_media has read
    sent,      \* commands sent so far
    revived,   \* tasks to which a command was sent when they were over
    kept,      \* commands carried out whose removal from the row failed
    unsaid,    \* tasks whose monitor ended with an update that failed
    restarts

table == <<row, command, lost>>
pool == <<active, told, futures, waiting, open>>
monitors == <<at, copy, done>>
ghosts == <<sent, revived, kept, unsaid, restarts>>
vars == <<table, pool, monitors, creator, stopper, control, ghosts>>

Live == {"loop", "check", "clear", "beat", "over", "failed", "cleanup"}
Idle == [at |-> "rest", task |-> NoTask]
IdleStop == [at |-> "rest", task |-> NoTask, todo |-> {}, round |-> 0]

Calls == [at : {"rest", "next", "stop", "wait", "cancel"},
          task : Tasks \cup {NoTask}, todo : SUBSET Tasks, round : 0..2]

Init ==
    /\ row = [t \in Tasks |-> "none"] /\ command = [t \in Tasks |-> 0]
    /\ done = [t \in Tasks |-> <<>>]
    /\ active = {} /\ told = {} /\ futures = {} /\ waiting = <<>> /\ open = TRUE
    /\ at = [t \in Tasks |-> "no"] /\ copy = [t \in Tasks |-> 0]
    /\ creator = Idle /\ control = NoTask
    /\ stopper = [k \in {"user", "sys"} |-> IdleStop]
    /\ sent = 0 /\ revived = {} /\ kept = {} /\ unsaid = {} /\ lost = 0 /\ restarts = 0

-----------------------------------------------------------------------------
(* update_workflow_status.                                                 *)

Write(t, status, c) ==
    /\ row' = [row EXCEPT ![t] = status] /\ command' = [command EXCEPT ![t] = c]
    /\ lost' = lost

\* An error of the database is swallowed; what is returned then, False, nobody
\* looks at but control_media.
WriteFails == lost + restarts < MaxMishaps /\ lost' = lost + 1 /\ UNCHANGED <<row, command>>

Update(t, status, c) == Write(t, status, c) \/ WriteFails

-----------------------------------------------------------------------------
(* create_media_monitor and submit_monitor.                                *)

\* A row that cannot be inserted ends the creation before it has begun.
Register(t) ==
    /\ creator = Idle /\ row[t] = "none"
    /\ row' = [row EXCEPT ![t] = "RUNNING"]
    /\ creator' = [at |-> "submit", task |-> t]
    /\ UNCHANGED <<command, lost, pool, monitors, stopper, control, ghosts>>

Submit ==
    /\ creator.at = "submit"
    /\ active' = active \cup {creator.task}
    /\ creator' = [creator EXCEPT !.at = "enqueue"]
    /\ UNCHANGED <<table, told, futures, waiting, open, monitors, stopper, control, ghosts>>

\* Mutant: a task the executor refuses is left among the active ones.
EnqueueOrLeave ==
    /\ creator.at = "enqueue"
    /\ creator' = Idle
    /\ futures' = IF open THEN futures \cup {creator.task} ELSE futures
    /\ IF open THEN /\ waiting' = Append(waiting, creator.task)
                    /\ at' = [at EXCEPT ![creator.task] = "queued"]
       ELSE UNCHANGED <<waiting, at>>
    /\ UNCHANGED <<table, active, told, open, copy, done, stopper, control, ghosts>>

\* An executor that has been shut down refuses the task, whose row remains.
Enqueue ==
    /\ creator.at = "enqueue"
    /\ \/ /\ open
          /\ waiting' = Append(waiting, creator.task)
          /\ at' = [at EXCEPT ![creator.task] = "queued"]
          /\ creator' = [creator EXCEPT !.at = "store"]
          /\ active' = active
       \/ /\ ~open
          /\ active' = active \ {creator.task}
          /\ creator' = Idle
          /\ UNCHANGED <<waiting, at>>
    /\ UNCHANGED <<table, told, futures, open, copy, done, stopper, control, ghosts>>

\* The future is stored when the monitor may be running, or over, already.
Store ==
    /\ creator.at = "store"
    /\ futures' = futures \cup {creator.task}
    /\ creator' = Idle
    /\ UNCHANGED <<table, active, told, waiting, open, monitors, stopper, control, ghosts>>

-----------------------------------------------------------------------------
(* A monitor: monitor_wrapper around media_monitor_func.                   *)

Go(t, to) == at' = [at EXCEPT ![t] = to]

\* A free worker takes the first task; reading the settings may fail.
Start(t) ==
    /\ waiting # <<>> /\ t = Head(waiting)
    /\ Cardinality({u \in Tasks : at[u] \in Live}) < Workers
    /\ waiting' = Tail(waiting)
    /\ Go(t, "loop") \/ ("settings" \in Faults /\ Go(t, "failed"))
    /\ UNCHANGED <<table, active, told, futures, open, copy, done, creator, stopper, control, ghosts>>

\* The loop's head, and the row it reads; without a row it ends.
Read(t) ==
    /\ at[t] = "loop"
    /\ \/ /\ t \in told \/ "read" \in Faults
          /\ Go(t, "over") /\ copy' = copy
       \/ /\ t \notin told
          /\ Go(t, "check") /\ copy' = [copy EXCEPT ![t] = command[t]]
    /\ UNCHANGED <<table, pool, done, creator, stopper, control, ghosts>>

\* The music is over: the row gets the metadata as they were read.
Finish(t) ==
    /\ at[t] = "check"
    /\ Update(t, "COMPLETED", copy[t])
    /\ Go(t, "over") /\ copy' = [copy EXCEPT ![t] = 0]
    /\ UNCHANGED <<pool, done, creator, stopper, control, ghosts>>

\* Asking the player raises: the monitor waits and begins its loop again.
PlayerFails(t) ==
    /\ at[t] = "check" /\ "player" \in Faults
    /\ Go(t, "loop") /\ copy' = [copy EXCEPT ![t] = 0]
    /\ UNCHANGED <<table, pool, done, creator, stopper, control, ghosts>>

\* Mutant: the command is carried out without looking whether there is one.
CarryOutAny(t) ==
    /\ at[t] = "check"
    /\ done' = [done EXCEPT ![t] = Append(@, copy[t])]
    /\ Go(t, "clear")
    /\ UNCHANGED <<table, pool, copy, creator, stopper, control, ghosts>>

\* The command that was read is carried out; media_control raises nothing.
CarryOut(t) ==
    /\ at[t] = "check" /\ copy[t] # 0
    /\ done' = [done EXCEPT ![t] = Append(@, copy[t])]
    /\ Go(t, "clear")
    /\ UNCHANGED <<table, pool, copy, creator, stopper, control, ghosts>>

\* Mutant: the metadata are written back with the command in them.
ClearNothing(t) ==
    /\ at[t] = "clear"
    /\ Update(t, "RUNNING", copy[t])
    /\ Go(t, "beat") /\ copy' = [copy EXCEPT ![t] = 0]
    /\ UNCHANGED <<pool, done, creator, stopper, control, ghosts>>

\* The metadata that were read are written back without a command, over one
\* that has come since; if that fails, the command stays in the row.
Clear(t) ==
    /\ at[t] = "clear"
    /\ \/ Write(t, "RUNNING", 0) /\ kept' = kept
       \/ WriteFails /\ kept' = kept \cup {copy[t]}
    /\ Go(t, "beat") /\ copy' = [copy EXCEPT ![t] = 0]
    /\ UNCHANGED <<pool, done, creator, stopper, control, sent, revived, unsaid, restarts>>

\* last_check_at; then the monitor waits for its interval or the stop event.
Beat(t) ==
    /\ at[t] = "beat" \/ (at[t] = "check" /\ copy[t] = 0)
    /\ Update(t, "RUNNING", command[t])
    /\ Go(t, "loop")
    /\ UNCHANGED <<pool, copy, done, creator, stopper, control, ghosts>>

\* Mutant: a monitor that ends leaves its row to whoever stopped it.
EndQuietly(t) ==
    /\ at[t] \in {"over", "failed"}
    /\ row' = IF at[t] = "failed" THEN [row EXCEPT ![t] = "FAILED"] ELSE row
    /\ Go(t, "cleanup")
    /\ UNCHANGED <<command, lost, pool, copy, done, creator, stopper, control, ghosts>>

\* Whatever ended it, the loop is followed by COMPLETED, an error by FAILED.
End(t) ==
    /\ at[t] \in {"over", "failed"}
    /\ \/ /\ Write(t, IF at[t] = "over" THEN "COMPLETED" ELSE "FAILED", command[t])
          /\ unsaid' = unsaid
       \/ WriteFails /\ unsaid' = unsaid \cup {t}
    /\ Go(t, "cleanup")
    /\ UNCHANGED <<pool, copy, done, creator, stopper, control, sent, revived, kept, restarts>>

Cleanup(t) ==
    /\ at[t] = "cleanup"
    /\ active' = active \ {t} /\ futures' = futures \ {t}
    /\ told' = told \ {t}
    /\ Go(t, "end")
    /\ UNCHANGED <<table, waiting, open, copy, done, creator, stopper, control, ghosts>>

Monitor(t) ==
    \/ Start(t) \/ Read(t) \/ Finish(t) \/ PlayerFails(t) \/ CarryOut(t) \/ Clear(t)
    \/ Beat(t) \/ End(t) \/ Cleanup(t)

-----------------------------------------------------------------------------
(* stop_monitor, called by stop_service (user) or by shutdown (sys).       *)

Call(k, place, t) == [stopper EXCEPT ![k] = [@ EXCEPT !.at = place, !.task = t]]

\* The call is over: the user's at once, the system's goes on.
Stopped(k) == Call(k, IF k = "user" THEN "rest" ELSE "next", NoTask)

\* control_media with stop_service, for a task that has a row.
StopService(t) ==
    /\ stopper["user"].at = "rest" /\ control = NoTask
    /\ t \in Controlled /\ row[t] # "none"
    /\ stopper' = Call("user", "stop", t)
    /\ UNCHANGED <<table, pool, monitors, creator, control, ghosts>>

\* The stop event is set; without a future there is nothing to wait for.
SetStop(k) ==
    LET t == stopper[k].task IN
    /\ stopper[k].at = "stop"
    /\ IF t \in active
       THEN /\ told' = told \cup {t}
            /\ stopper' = Call(k, IF t \in futures THEN "wait" ELSE "cancel", t)
       ELSE told' = told /\ stopper' = Stopped(k)
    /\ UNCHANGED <<table, active, futures, waiting, open, monitors, creator, control, ghosts>>

\* The monitor ends in time, or the call gives up.
WaitFor(k) ==
    /\ stopper[k].at = "wait"
    /\ stopper' = IF at[stopper[k].task] = "end"
                  THEN Call(k, "cancel", stopper[k].task) ELSE Stopped(k)
    /\ UNCHANGED <<table, pool, monitors, creator, control, ghosts>>

Cancel(k) ==
    /\ stopper[k].at = "cancel"
    /\ Update(stopper[k].task, "CANCELLED", command[stopper[k].task])
    /\ stopper' = Stopped(k)
    /\ UNCHANGED <<pool, monitors, creator, control, ghosts>>

\* sys_module.shutdown stops all monitors, and the pool's own shutdown stops
\* all that are left before it closes the executor.
Shutdown ==
    /\ stopper["sys"] = IdleStop
    /\ stopper' = [stopper EXCEPT !["sys"] = [at |-> "next", task |-> NoTask,
                                              todo |-> active, round |-> 1]]
    /\ UNCHANGED <<table, pool, monitors, creator, control, ghosts>>

ShutdownNext ==
    LET s == stopper["sys"] IN
    /\ s.at = "next"
    /\ \/ \E t \in s.todo :
             /\ stopper' = [stopper EXCEPT !["sys"] =
                    [at |-> "stop", task |-> t, todo |-> s.todo \ {t}, round |-> s.round]]
             /\ open' = open
       \/ /\ s.todo = {} /\ s.round = 1
          /\ stopper' = [stopper EXCEPT !["sys"] =
                    [at |-> "next", task |-> NoTask, todo |-> active, round |-> 2]]
          /\ open' = open
       \/ /\ s.todo = {} /\ s.round = 2
          /\ stopper' = [stopper EXCEPT !["sys"] = IdleStop]
          /\ open' = FALSE
    /\ UNCHANGED <<table, active, told, futures, waiting, monitors, creator, control, ghosts>>

Stop(k) == SetStop(k) \/ WaitFor(k) \/ Cancel(k)

-----------------------------------------------------------------------------
(* Commands, and the end of the program.                                   *)

\* _media_control_intervention_processor reads a row, whatever its status ...
ReadRow(t) ==
    /\ control = NoTask /\ stopper["user"].at = "rest"
    /\ sent < MaxCommands /\ t \in Controlled /\ row[t] # "none"
    /\ control' = t
    /\ UNCHANGED <<table, pool, monitors, creator, stopper, ghosts>>

\* ... and writes it back as RUNNING, with the command, or reports a failure.
SendCommand ==
    /\ control # NoTask
    /\ \/ /\ Write(control, "RUNNING", sent + 1)
          /\ sent' = sent + 1
          /\ revived' = IF at[control] \in {"cleanup", "end"}
                        THEN revived \cup {control} ELSE revived
       \/ WriteFails /\ UNCHANGED <<sent, revived>>
    /\ control' = NoTask
    /\ UNCHANGED <<pool, monitors, creator, stopper, kept, unsaid, restarts>>

\* The program ends, or is killed, and starts again; the table remains.
Restart ==
    /\ lost + restarts < MaxMishaps
    /\ restarts' = restarts + 1
    /\ active' = {} /\ told' = {} /\ futures' = {} /\ waiting' = <<>> /\ open' = TRUE
    /\ at' = [t \in Tasks |-> "no"] /\ copy' = [t \in Tasks |-> 0]
    /\ creator' = Idle /\ control' = NoTask
    /\ stopper' = [k \in {"user", "sys"} |-> IdleStop]
    /\ UNCHANGED <<table, done, sent, revived, kept, unsaid>>

Create == Submit \/ Enqueue \/ Store
System == ShutdownNext \/ Stop("sys")
User == SendCommand \/ Stop("user")

Next ==
    \/ \E t \in Tasks : Register(t) \/ Monitor(t) \/ StopService(t) \/ ReadRow(t)
    \/ Create \/ System \/ User \/ Shutdown \/ Restart

Spec == Init /\ [][Next]_vars

-----------------------------------------------------------------------------
(* Properties.                                                             *)

\* Every variable has its type.
TypeOK ==
    /\ row \in [Tasks -> Statuses] /\ command \in [Tasks -> Commands \cup {0}]
    /\ active \subseteq Tasks /\ told \subseteq Tasks /\ futures \subseteq Tasks
    /\ waiting \in Seq(Tasks) /\ open \in BOOLEAN
    /\ at \in [Tasks -> Live \cup {"no", "queued", "end"}]
    /\ copy \in [Tasks -> Commands \cup {0}] /\ done \in [Tasks -> Seq(Commands)]
    /\ creator \in [at : {"rest", "submit", "enqueue", "store"}, task : Tasks \cup {NoTask}]
    /\ stopper \in [{"user", "sys"} -> Calls]
    /\ control \in Tasks \cup {NoTask} /\ sent \in 0..MaxCommands /\ lost \in 0..MaxMishaps
    /\ revived \subseteq Tasks /\ kept \subseteq Commands /\ unsaid \subseteq Tasks
    /\ restarts \in 0..MaxMishaps

\* A monitor that waits for a worker or runs is one the pool knows, so that it
\* can be stopped; and one the pool knows is being created, waits or runs.
PoolKnowsItsMonitors ==
    active = {t \in Tasks : at[t] \in Live \cup {"queued"}
                            \/ (creator.task = t /\ creator.at = "enqueue")}

\* When a monitor has ended, by itself, by an error or because somebody stopped
\* it, its row says so; only a command sent after its end, or the failure of the
\* very update that is to say so, leaves it RUNNING.  No failure of another update
\* does, nor a monitor's update that comes late.
EndedIsWritten ==
    \A t \in Tasks : at[t] = "end" /\ row[t] \notin Over => t \in revived \cup unsaid

\* No command is carried out after a later one, and none twice, unless it could
\* not be removed from the row when it had been carried out; it may be lost.
CarriedOutInOrder ==
    \A t \in Tasks : \A i, j \in DOMAIN done[t] : i < j =>
        \/ done[t][i] < done[t][j]
        \/ done[t][i] = done[t][j] /\ done[t][i] \in kept
=============================================================================
