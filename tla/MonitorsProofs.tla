--------------------------- MODULE MonitorsProofs ---------------------------
(***************************************************************************)
(* Proofs about Monitors for any tasks, workers, faults and bounds.        *)
(*                                                                         *)
(* Four invariants, each inductive together with the ones before it: the   *)
(* types; the pool's (which tasks wait for a worker, and that a task is    *)
(* submitted once); the rows of monitors that have ended; the order of     *)
(* the commands a monitor has carried out and those it may still read.     *)
(***************************************************************************)
EXTENDS Monitors, TLAPS, SequenceTheorems

Parts == {"user", "sys"}

-----------------------------------------------------------------------------
(* Types.                                                                  *)

\* control_media sends what it has room for, and the creator has a task.
Typed ==
    /\ TypeOK
    /\ control # NoTask => sent < MaxCommands
    /\ creator.at # "rest" => creator.task \in Tasks
    /\ \A t \in Tasks : at[t] = "clear" => copy[t] # 0

LEMMA TypedInit == Init => Typed
<1>1. IdleStop \in Calls
  BY DEF Calls, IdleStop
<1> QED BY <1>1, BoundsAssumption DEF Init, Typed, TypeOK, Statuses, Idle, Commands

\* A step of a call of stop_monitor leaves the calls well-formed.
LEMMA CallTyped ==
    ASSUME stopper \in [Parts -> Calls], NEW k \in Parts,
           NEW place \in {"rest", "next", "stop", "wait", "cancel"},
           NEW t \in Tasks \cup {NoTask}
    PROVE  Call(k, place, t) \in [Parts -> Calls]
<1>1. [stopper[k] EXCEPT !.at = place, !.task = t] \in Calls
  BY DEF Calls
<1> QED BY <1>1 DEF Call

LEMMA StoppedTyped ==
    ASSUME stopper \in [Parts -> Calls], NEW k \in Parts
    PROVE  Stopped(k) \in [Parts -> Calls]
BY CallTyped DEF Stopped

\* An update of a row, whether it fails or not, keeps the types ...
LEMMA UpdateTyped ==
    ASSUME Typed, NEW t, NEW status \in Statuses \ {"none"}, NEW c,
           t \in Tasks => c \in Commands \cup {0}, Update(t, status, c)
    PROVE  /\ row' \in [Tasks -> Statuses] /\ command' \in [Tasks -> Commands \cup {0}]
           /\ lost' \in 0..MaxMishaps
<1>1. CASE Write(t, status, c)
  BY <1>1 DEF Write, Typed, TypeOK
<1>2. CASE WriteFails
  BY <1>2, BoundsAssumption DEF WriteFails, Typed, TypeOK
<1> QED BY <1>1, <1>2 DEF Update

\* An update that leaves the metadata alone leaves every command.
LEMMA UpdateKeepsCommands ==
    ASSUME Typed, NEW t, NEW status, Update(t, status, command[t])
    PROVE  command' = command
BY DEF Update, Write, WriteFails, Typed, TypeOK

\* ... and never makes a row one that does not exist.
LEMMA UpdateAddsNoRow ==
    ASSUME Typed, NEW t, NEW status, status # "none", NEW c, Update(t, status, c),
           NEW u \in Tasks, row'[u] = "none"
    PROVE  row[u] = "none"
BY DEF Update, Write, WriteFails, Typed, TypeOK

\* The creator's steps keep the types.
LEMMA CreatorTyped ==
    ASSUME Typed, (\E t \in Tasks : Register(t)) \/ Create
    PROVE  Typed'
<1> USE DEF Typed, TypeOK, table, pool, monitors, ghosts
<1>1. ASSUME NEW t \in Tasks, Register(t) PROVE Typed'
  BY <1>1 DEF Register, Idle, Statuses
<1>2. CASE Submit
  BY <1>2 DEF Submit
<1>3. CASE Enqueue
  <2>1. creator.task \in Tasks
    BY <1>3 DEF Enqueue
  <2>2. PICK w : w = Append(waiting, creator.task)
    OBVIOUS
  <2>3. w \in Seq(Tasks)
    BY <2>1, <2>2, AppendProperties
  <2>4. at' \in [Tasks -> Live \cup {"no", "queued", "end"}]
    BY <1>3, <2>1 DEF Enqueue
  <2>5. waiting' \in Seq(Tasks)
    BY <1>3, <2>2, <2>3 DEF Enqueue
  <2>6. /\ creator' \in [at : {"rest", "submit", "enqueue", "store"}, task : Tasks \cup {NoTask}]
        /\ creator'.at # "rest" => creator'.task \in Tasks
    <3>1. CASE open
      BY <1>3, <2>1, <3>1 DEF Enqueue
    <3>2. CASE ~open
      BY <1>3, <3>2 DEF Enqueue, Idle
    <3> QED BY <3>1, <3>2
  <2> HIDE DEF NoTask
  <2> QED BY <1>3, <2>4, <2>5, <2>6 DEF Enqueue
<1>4. CASE Store
  BY <1>4 DEF Store, Idle, NoTask
<1> QED BY <1>1, <1>2, <1>3, <1>4 DEF Create

\* A monitor's steps keep the types.
LEMMA MonitorTyped ==
    ASSUME Typed, NEW t \in Tasks, Monitor(t)
    PROVE  Typed'
<1> USE DEF Typed, TypeOK, table, pool, monitors, ghosts, Go
<1>1. CASE Start(t)
  <2>1. waiting' \in Seq(Tasks)
    BY <1>1, HeadTailProperties DEF Start
  <2>2. at' \in [Tasks -> Live \cup {"no", "queued", "end"}]
    BY <1>1 DEF Start, Live
  <2> QED BY <1>1, <2>1, <2>2 DEF Start
<1>2. CASE Read(t)
  BY <1>2 DEF Read, Live
<1>3. CASE Finish(t)
  <2>1. Update(t, "COMPLETED", copy[t]) /\ "COMPLETED" \in Statuses \ {"none"}
    BY <1>3 DEF Finish, Statuses
  <2>2. copy[t] \in Commands \cup {0}
    OBVIOUS
  <2>3. row' \in [Tasks -> Statuses] /\ command' \in [Tasks -> Commands \cup {0}] /\ lost' \in 0..MaxMishaps
    BY <2>1, <2>2, UpdateTyped
  <2> QED BY <1>3, <2>3 DEF Finish, Live
<1>9. CASE PlayerFails(t)
  BY <1>9 DEF PlayerFails, Live
<1>4. CASE CarryOut(t)
  <2>1. copy[t] \in Commands
    BY <1>4 DEF CarryOut
  <2>2. Append(done[t], copy[t]) \in Seq(Commands)
    BY <2>1, AppendProperties
  <2> QED BY <1>4, <2>2 DEF CarryOut, Live
<1>5. CASE Clear(t)
  <2>1. Update(t, "RUNNING", 0) /\ "RUNNING" \in Statuses \ {"none"}
    BY <1>5 DEF Clear, Update, Statuses, WriteFails
  <2>2. row' \in [Tasks -> Statuses] /\ command' \in [Tasks -> Commands \cup {0}] /\ lost' \in 0..MaxMishaps
    BY <2>1, UpdateTyped
  <2>3. kept' \subseteq Commands
    BY <1>5 DEF Clear
  <2> QED BY <1>5, <2>2, <2>3 DEF Clear, Live
<1>6. CASE Beat(t)
  <2>1. Update(t, "RUNNING", command[t]) /\ "RUNNING" \in Statuses \ {"none"}
    BY <1>6 DEF Beat, Statuses
  <2>2. row' \in [Tasks -> Statuses] /\ command' \in [Tasks -> Commands \cup {0}] /\ lost' \in 0..MaxMishaps
    BY <2>1, UpdateTyped
  <2> QED BY <1>6, <2>2 DEF Beat, Live
<1>7. CASE End(t)
  <2>1. PICK status \in Statuses \ {"none"} : Update(t, status, command[t])
    BY <1>7 DEF End, Update, Statuses
  <2>2. row' \in [Tasks -> Statuses] /\ command' \in [Tasks -> Commands \cup {0}] /\ lost' \in 0..MaxMishaps
    BY <2>1, UpdateTyped
  <2>3. unsaid' \subseteq Tasks
    BY <1>7 DEF End
  <2> QED BY <1>7, <2>2, <2>3 DEF End, Live
<1>8. CASE Cleanup(t)
  BY <1>8 DEF Cleanup
<1> QED BY <1>1, <1>2, <1>3, <1>4, <1>5, <1>6, <1>7, <1>8, <1>9 DEF Monitor

\* The calls of the user and of the system, and a restart, keep the types.
LEMMA StepTyped ==
    ASSUME Typed,
           \/ \E t \in Tasks : StopService(t) \/ ReadRow(t)
           \/ System \/ User \/ Shutdown \/ Restart
    PROVE  Typed'
<1> USE DEF Typed, TypeOK, table, pool, monitors, ghosts
<1>1. ASSUME NEW t \in Tasks, StopService(t) PROVE Typed'
  <2>1. stopper' \in [Parts -> Calls]
    BY <1>1, CallTyped DEF StopService, Parts
  <2> QED BY <1>1, <2>1 DEF StopService, Parts
<1>2. ASSUME NEW t \in Tasks, ReadRow(t) PROVE Typed'
  BY <1>2 DEF ReadRow
<1>3. CASE SendCommand
  <2>1. control \in Tasks /\ sent + 1 \in Commands /\ sent + 1 \in 0..MaxCommands
    BY <1>3, BoundsAssumption DEF SendCommand, Commands
  <2>2. Update(control, "RUNNING", sent + 1) /\ "RUNNING" \in Statuses \ {"none"}
    BY <1>3 DEF SendCommand, Update, Statuses
  <2>3. row' \in [Tasks -> Statuses] /\ command' \in [Tasks -> Commands \cup {0}] /\ lost' \in 0..MaxMishaps
    BY <2>1, <2>2, UpdateTyped
  <2>4. sent' \in 0..MaxCommands /\ revived' \subseteq Tasks
    BY <1>3, <2>1 DEF SendCommand
  <2> QED BY <1>3, <2>3, <2>4 DEF SendCommand, NoTask
<1>4. CASE Shutdown
  <2>1. [at |-> "next", task |-> NoTask, todo |-> active, round |-> 1] \in Calls
    BY DEF Calls
  <2> QED BY <1>4, <2>1 DEF Shutdown
<1>5. CASE ShutdownNext
  <2>1. stopper["sys"] \in Calls /\ IdleStop \in Calls
    BY DEF Calls, IdleStop
  <2>2. \A t \in stopper["sys"].todo :
          [at |-> "stop", task |-> t, todo |-> stopper["sys"].todo \ {t},
           round |-> stopper["sys"].round] \in Calls
    BY <2>1 DEF Calls
  <2>3. [at |-> "next", task |-> NoTask, todo |-> active, round |-> 2] \in Calls
    BY DEF Calls
  <2>4. stopper' \in [{"user", "sys"} -> Calls]
    <3> HIDE DEF Typed, TypeOK
    <3>1. stopper \in [{"user", "sys"} -> Calls]
      BY DEF Typed, TypeOK
    <3> QED BY <1>5, <2>1, <2>2, <2>3, <3>1 DEF ShutdownNext
  <2> QED BY <1>5, <2>4 DEF ShutdownNext
<1>6. ASSUME NEW k \in Parts, Stop(k) PROVE Typed'
  <2>1. Stopped(k) \in [Parts -> Calls]
    BY StoppedTyped DEF Parts
  <2>2. CASE SetStop(k)
    <3>1. CASE stopper[k].task \in active
      <4>1. stopper' \in [Parts -> Calls]
        BY <2>2, <3>1, CallTyped DEF SetStop, Parts
      <4> QED BY <2>2, <3>1, <4>1 DEF SetStop, Parts
    <3>2. CASE stopper[k].task \notin active
      BY <2>1, <2>2, <3>2 DEF SetStop, Parts
    <3> QED BY <3>1, <3>2
  <2>3. CASE WaitFor(k)
    <3>1. stopper[k].task \in Tasks \cup {NoTask}
      BY DEF Calls, Parts
    <3>2. stopper' \in [Parts -> Calls]
      BY <2>1, <2>3, <3>1, CallTyped DEF WaitFor, Parts
    <3> QED BY <2>3, <3>2 DEF WaitFor, Parts
  <2>4. CASE Cancel(k)
    <3>2. Update(stopper[k].task, "CANCELLED", command[stopper[k].task])
          /\ "CANCELLED" \in Statuses \ {"none"}
      BY <2>4 DEF Cancel, Statuses
    <3>3. stopper[k].task \in Tasks => command[stopper[k].task] \in Commands \cup {0}
      OBVIOUS
    <3>4. row' \in [Tasks -> Statuses] /\ command' \in [Tasks -> Commands \cup {0}] /\ lost' \in 0..MaxMishaps
      BY <3>2, <3>3, UpdateTyped
    <3> QED BY <2>1, <2>4, <3>4 DEF Cancel, Parts
  <2> QED BY <1>6, <2>2, <2>3, <2>4 DEF Stop
<1>7. CASE Restart
  <2>1. restarts' \in 0..MaxMishaps
    BY <1>7, BoundsAssumption DEF Restart
  <2>2. IdleStop \in Calls
    BY DEF Calls, IdleStop
  <2> QED BY <1>7, <2>1, <2>2 DEF Restart, Idle, NoTask
<1> QED BY <1>1, <1>2, <1>3, <1>4, <1>5, <1>6, <1>7 DEF System, User, Parts

LEMMA TypedStep == Typed /\ [Next]_vars => Typed'
<1>1. ASSUME Typed, Next PROVE Typed'
  BY <1>1, CreatorTyped, MonitorTyped, StepTyped DEF Next
<1>2. ASSUME Typed, UNCHANGED vars PROVE Typed'
  BY <1>2 DEF Typed, TypeOK, vars, table, pool, monitors, ghosts
<1> QED BY <1>1, <1>2

LEMMA TypedAlways == Spec => []Typed
BY TypedInit, TypedStep, PTL DEF Spec

\* The variables keep their types, whatever the tasks, workers and bounds.
THEOREM TypeCorrect == Spec => []TypeOK
<1>1. Typed => TypeOK
  BY DEF Typed
<1> QED BY <1>1, TypedAlways, PTL

-----------------------------------------------------------------------------
(* The pool.                                                               *)

\* The executor's queue holds tasks that wait for a worker, each once; a task
\* that is being created has a row and no monitor yet; nor has one without row.
PoolInv ==
    /\ \A i \in 1..Len(waiting) : at[waiting[i]] = "queued"
    /\ \A i, j \in 1..Len(waiting) : waiting[i] = waiting[j] => i = j
    /\ creator.at # "rest" => row[creator.task] # "none"
    /\ creator.at \in {"submit", "enqueue"} => at[creator.task] = "no"
    /\ \A t \in Tasks : row[t] = "none" => at[t] = "no"
    /\ PoolKnowsItsMonitors

\* A step that leaves queue, places and creator alone, and unregisters no task.
Unmoved ==
    /\ UNCHANGED <<waiting, at, active, creator>>
    /\ \A t \in Tasks : row'[t] = "none" => row[t] = "none"

LEMMA PoolUnmoved ==
    ASSUME Typed, PoolInv, Unmoved
    PROVE  PoolInv'
BY DEF PoolInv, Unmoved, Typed, TypeOK, PoolKnowsItsMonitors

\* A monitor moves from one place to another, neither of them the queue.
LEMMA PoolMoves ==
    ASSUME Typed, PoolInv, NEW t \in Tasks, NEW to \in Live,
           at[t] \in Live, Go(t, to),
           UNCHANGED <<waiting, active, creator>>,
           \A u \in Tasks : row'[u] = "none" => row[u] = "none"
    PROVE  PoolInv'
<1>1. /\ at'[t] = to /\ \A u \in Tasks : u # t => at'[u] = at[u]
      /\ at[t] # "queued" /\ at[t] # "no"
  BY DEF Typed, TypeOK, Go, Live
<1>2. \A i \in 1..Len(waiting) : waiting[i] \in Tasks
  BY ElementOfSeq DEF Typed, TypeOK
<1>3. PoolKnowsItsMonitors'
  BY <1>1 DEF PoolInv, PoolKnowsItsMonitors, Typed, TypeOK
<1>4. \A i \in 1..Len(waiting') : at'[waiting'[i]] = "queued"
  BY <1>1, <1>2 DEF PoolInv
<1>5. creator'.at \in {"submit", "enqueue"} => at'[creator'.task] = "no"
  BY <1>1 DEF PoolInv, Typed
<1>6. \A u \in Tasks : row'[u] = "none" => at'[u] = "no"
  BY <1>1 DEF PoolInv
<1>7. creator'.at # "rest" => row'[creator'.task] # "none"
  BY DEF PoolInv, Typed
<1>8. \A i, j \in 1..Len(waiting') : waiting'[i] = waiting'[j] => i = j
  BY DEF PoolInv
<1> QED BY <1>3, <1>4, <1>5, <1>6, <1>7, <1>8 DEF PoolInv

LEMMA PoolCreator ==
    ASSUME Typed, PoolInv, (\E t \in Tasks : Register(t)) \/ Create
    PROVE  PoolInv'
<1> USE DEF Typed, TypeOK, table, pool, monitors, ghosts
<1>1. ASSUME NEW t \in Tasks, Register(t) PROVE PoolInv'
  BY <1>1 DEF Register, PoolInv, PoolKnowsItsMonitors, Idle
<1>2. CASE Submit
  BY <1>2 DEF Submit, PoolInv, PoolKnowsItsMonitors
<1>3. CASE Enqueue /\ open
  <2>1. PICK c \in Tasks : c = creator.task
    BY <1>3 DEF Enqueue
  <2>2. /\ waiting' = Append(waiting, c) /\ at' = [at EXCEPT ![c] = "queued"]
        /\ creator' = [creator EXCEPT !.at = "store"] /\ active' = active /\ row' = row
        /\ creator.at = "enqueue" /\ at[c] = "no" /\ row[c] # "none"
    BY <1>3, <2>1 DEF Enqueue, PoolInv
  <2>3. /\ Len(waiting') = Len(waiting) + 1
        /\ waiting'[Len(waiting) + 1] = c
        /\ \A i \in 1..Len(waiting) : waiting'[i] = waiting[i] /\ waiting[i] # c
                                      /\ waiting[i] \in Tasks
        /\ Len(waiting) \in Nat
    <3>1. waiting \in Seq(Tasks) /\ Len(waiting) \in Nat
      BY LenProperties
    <3>2. \A i \in 1..Len(waiting) : waiting[i] \in Tasks
      BY <3>1, ElementOfSeq
    <3> HIDE DEF Typed, TypeOK
    <3>3. \A i \in 1..Len(waiting) : waiting[i] # c
      BY <2>2 DEF PoolInv
    <3> QED BY <2>2, <3>1, <3>2, <3>3, AppendProperties
  <2>4. /\ at'[c] = "queued" /\ \A u \in Tasks : u # c => at'[u] = at[u]
        /\ \A i \in 1..Len(waiting) : at[waiting[i]] = "queued"
    BY <2>2 DEF PoolInv
  <2>5. ASSUME NEW i \in 1..Len(waiting') PROVE at'[waiting'[i]] = "queued"
    <3> HIDE DEF Typed, TypeOK
    <3>1. CASE i \in 1..Len(waiting)
      BY <2>3, <2>4, <3>1
    <3>2. CASE i = Len(waiting) + 1
      BY <2>3, <2>4, <3>2
    <3> QED BY <2>3, <3>1, <3>2
  <2>6. \A i, j \in 1..Len(waiting') : waiting'[i] = waiting'[j] => i = j
    <3> HIDE DEF Typed, TypeOK
    <3> QED BY <2>3 DEF PoolInv
  <2>7. PoolKnowsItsMonitors'
    BY <2>1, <2>2 DEF PoolInv, PoolKnowsItsMonitors, Live
  <2>8. \A t \in Tasks : row'[t] = "none" => at'[t] = "no"
    BY <2>2 DEF PoolInv
  <2>9. creator'.at = "store" /\ creator'.task = c
    BY <2>1, <2>2
  <2> QED BY <2>2, <2>5, <2>6, <2>7, <2>8, <2>9 DEF PoolInv
<1>4. CASE Enqueue /\ ~open
  BY <1>4 DEF Enqueue, PoolInv, PoolKnowsItsMonitors, Idle, Live
<1>5. CASE Store
  BY <1>5 DEF Store, PoolInv, PoolKnowsItsMonitors, Idle
<1> QED BY <1>1, <1>2, <1>3, <1>4, <1>5 DEF Create

LEMMA PoolMonitor ==
    ASSUME Typed, PoolInv, NEW t \in Tasks, Monitor(t)
    PROVE  PoolInv'
<1>1. CASE Start(t)
  <2>1. /\ waiting \in Seq(Tasks) /\ waiting # <<>> /\ t = Head(waiting)
        /\ waiting' = Tail(waiting) /\ UNCHANGED <<active, creator, row>>
        /\ \E to \in {"loop", "failed"} : at' = [at EXCEPT ![t] = to]
    BY <1>1 DEF Start, Go, Typed, TypeOK, table
  <2>2. /\ Len(waiting') = Len(waiting) - 1 /\ waiting[1] = t
        /\ \A i \in 1..Len(waiting') : waiting'[i] = waiting[i + 1]
        /\ Len(waiting) \in Nat \ {0}
    BY <2>1, HeadTailProperties
  <2>3. /\ \A i \in 1..Len(waiting') : i + 1 \in 1..Len(waiting) /\ i + 1 # 1
        /\ 1 \in 1..Len(waiting)
    BY <2>2
  <2>4. \A i \in 1..Len(waiting') : waiting'[i] # t /\ waiting'[i] \in Tasks
    BY <2>1, <2>2, <2>3, ElementOfSeq DEF PoolInv
  <2>5. /\ at[t] = "queued" /\ at'[t] \in {"loop", "failed"}
        /\ \A u \in Tasks : u # t => at'[u] = at[u]
    BY <2>1, <2>2, <2>3 DEF PoolInv, Typed, TypeOK
  <2>6. \A i \in 1..Len(waiting') : at'[waiting'[i]] = "queued"
    BY <2>2, <2>3, <2>4, <2>5 DEF PoolInv
  <2>7. ASSUME NEW i \in 1..Len(waiting'), NEW j \in 1..Len(waiting'), waiting'[i] = waiting'[j]
        PROVE  i = j
    <3>1. waiting[i + 1] = waiting[j + 1] /\ i + 1 \in 1..Len(waiting) /\ j + 1 \in 1..Len(waiting)
      BY <2>2, <2>3, <2>7
    <3>2. i + 1 = j + 1
      BY <3>1 DEF PoolInv
    <3> QED BY <3>2
  <2>8. PoolKnowsItsMonitors'
    BY <2>1, <2>5 DEF PoolInv, PoolKnowsItsMonitors, Live
  <2>9. /\ creator'.at # "rest" => row'[creator'.task] # "none"
        /\ creator'.at \in {"submit", "enqueue"} => at'[creator'.task] = "no"
        /\ \A u \in Tasks : row'[u] = "none" => at'[u] = "no"
    BY <2>1, <2>5 DEF PoolInv, Typed
  <2> QED BY <2>6, <2>7, <2>8, <2>9 DEF PoolInv
<1>2. CASE Read(t) \/ PlayerFails(t) \/ CarryOut(t)
  BY <1>2, PoolMoves DEF Read, PlayerFails, CarryOut, Live, table, pool, Go
<1>3. CASE Finish(t) \/ Clear(t) \/ Beat(t) \/ End(t)
  <2>1. /\ UNCHANGED <<waiting, active, creator>> /\ at[t] \in Live
        /\ \E to \in Live : Go(t, to)
    BY <1>3 DEF Finish, Clear, Beat, End, Live, pool
  <2>2. \A u \in Tasks : row'[u] = "none" => row[u] = "none"
    BY <1>3, UpdateAddsNoRow DEF Finish, Clear, Beat, End, Update
  <2> QED BY <2>1, <2>2, PoolMoves
<1>4. CASE Cleanup(t)
  <2>1. /\ at[t] = "cleanup" /\ at' = [at EXCEPT ![t] = "end"]
        /\ active' = active \ {t} /\ UNCHANGED <<waiting, creator, row>>
    BY <1>4 DEF Cleanup, Go, table
  <2>2. /\ at'[t] = "end" /\ \A u \in Tasks : u # t => at'[u] = at[u]
    BY <2>1 DEF Typed, TypeOK
  <2>3. \A i \in 1..Len(waiting) : waiting[i] \in Tasks
    BY ElementOfSeq DEF Typed, TypeOK
  <2>4. PoolKnowsItsMonitors'
    BY <2>1, <2>2 DEF PoolInv, PoolKnowsItsMonitors, Live
  <2>5. \A i \in 1..Len(waiting') : at'[waiting'[i]] = "queued"
    BY <2>1, <2>2, <2>3 DEF PoolInv
  <2>6. creator'.at \in {"submit", "enqueue"} => at'[creator'.task] = "no"
    BY <2>1, <2>2 DEF PoolInv, Typed
  <2> QED BY <2>1, <2>2, <2>4, <2>5, <2>6 DEF PoolInv
<1> QED BY <1>1, <1>2, <1>3, <1>4 DEF Monitor

LEMMA PoolStep ==
    ASSUME Typed, PoolInv, [Next]_vars
    PROVE  PoolInv'
<1>1. CASE (\E t \in Tasks : Register(t)) \/ Create
  BY <1>1, PoolCreator
<1>2. ASSUME NEW t \in Tasks, Monitor(t) PROVE PoolInv'
  BY <1>2, PoolMonitor
<1>3. ASSUME NEW t \in Tasks, StopService(t) \/ ReadRow(t) PROVE PoolInv'
  BY <1>3, PoolUnmoved DEF Unmoved, StopService, ReadRow, table, pool, monitors
<1>4. CASE SendCommand
  <2>1. Unmoved
    BY <1>4, UpdateAddsNoRow DEF SendCommand, Update, Unmoved, pool, monitors
  <2> QED BY <2>1, PoolUnmoved
<1>5. CASE Shutdown \/ ShutdownNext
  BY <1>5, PoolUnmoved DEF Unmoved, Shutdown, ShutdownNext, table, pool, monitors
<1>6. ASSUME NEW k \in Parts, Stop(k) PROVE PoolInv'
  <2>1. Unmoved
    BY <1>6, UpdateAddsNoRow DEF Stop, SetStop, WaitFor, Cancel, Unmoved, table, pool, monitors
  <2> QED BY <2>1, PoolUnmoved
<1>7. CASE Restart
  <2>1. /\ active' = {} /\ waiting' = <<>> /\ at' = [t \in Tasks |-> "no"]
        /\ creator' = Idle /\ row' = row
    BY <1>7 DEF Restart, table
  <2> QED BY <2>1 DEF PoolInv, PoolKnowsItsMonitors, Idle, Live
<1>8. CASE UNCHANGED vars
  BY <1>8, PoolUnmoved DEF Unmoved, vars, table, pool, monitors
<1> QED BY <1>1, <1>2, <1>3, <1>4, <1>5, <1>6, <1>7, <1>8 DEF Next, System, User, Parts

LEMMA PoolAlways == Spec => []PoolInv
<1>1. Init => PoolInv
  BY DEF Init, PoolInv, PoolKnowsItsMonitors, Idle, Live
<1>2. Typed /\ PoolInv /\ [Next]_vars => PoolInv'
  BY PoolStep
<1> QED BY <1>1, <1>2, TypedAlways, PTL DEF Spec

\* The pool can stop every monitor that waits or runs, and no other.
THEOREM PoolKnows == Spec => []PoolKnowsItsMonitors
<1>1. PoolInv => PoolKnowsItsMonitors
  BY DEF PoolInv
<1> QED BY <1>1, PoolAlways, PTL

-----------------------------------------------------------------------------
(* The rows of monitors that have ended.                                   *)

\* The row is written, or the update has failed, before the monitor leaves the
\* pool's dictionaries.
Written ==
    \A t \in Tasks : at[t] \in {"cleanup", "end"} /\ row[t] \notin Over => t \in revived \cup unsaid

\* A step that writes only rows of tasks that are elsewhere, or their end.
LEMMA WrittenElsewhere ==
    ASSUME Typed, Written, revived \subseteq revived', unsaid \subseteq unsaid',
           \A t \in Tasks : at'[t] \in {"cleanup", "end"} /\ t \notin revived' \cup unsaid'
               => \/ row'[t] \in Over
                  \/ at[t] \in {"cleanup", "end"} /\ row'[t] = row[t]
    PROVE  Written'
BY DEF Written

\* An update changes the row of its task only.
LEMMA UpdateElsewhere ==
    ASSUME Typed, NEW t, NEW status, NEW c, Update(t, status, c),
           NEW u \in Tasks
    PROVE  row'[u] = row[u] \/ (u = t /\ row'[u] = status)
BY DEF Update, Write, WriteFails, Typed, TypeOK

LEMMA WrittenStep ==
    ASSUME Typed, PoolInv, Written, [Next]_vars
    PROVE  Written'
<1> USE DEF Typed, TypeOK, table, pool, monitors, ghosts
<1>1. ASSUME NEW t \in Tasks, Register(t) PROVE Written'
  BY <1>1, WrittenElsewhere DEF Register, PoolInv
<1>2. CASE Create
  BY <1>2, WrittenElsewhere DEF Create, Submit, Enqueue, Store
<1>3. ASSUME NEW t \in Tasks, Monitor(t) PROVE Written'
  <2>1. CASE Start(t)
    BY <1>3, <2>1, WrittenElsewhere DEF Start, Go
  <2>2. CASE Read(t) \/ PlayerFails(t) \/ CarryOut(t)
    BY <2>2, WrittenElsewhere DEF Read, PlayerFails, CarryOut, Go
  <2>3. CASE Finish(t) \/ Clear(t) \/ Beat(t)
    <3>1. /\ UNCHANGED <<revived, unsaid>>
          /\ \E to \in {"over", "beat", "loop"} : at' = [at EXCEPT ![t] = to]
      BY <2>3 DEF Finish, Clear, Beat, Go
    <3>2. \A u \in Tasks : u # t => row'[u] = row[u]
      BY <2>3 DEF Finish, Clear, Beat, Update, Write, WriteFails
    <3> QED BY <3>1, <3>2, WrittenElsewhere
  <2>4. CASE End(t)
    <3>1. at' = [at EXCEPT ![t] = "cleanup"] /\ revived' = revived /\ unsaid \subseteq unsaid'
      BY <2>4 DEF End, Go
    <3>2. \A u \in Tasks : u # t => row'[u] = row[u]
      BY <2>4 DEF End, Write, WriteFails
    <3>3. row'[t] \in Over \/ t \in unsaid'
      BY <2>4 DEF End, Write, Over
    <3> QED BY <3>1, <3>2, <3>3, WrittenElsewhere
  <2>5. CASE Cleanup(t)
    BY <2>5, WrittenElsewhere DEF Cleanup, Go
  <2> QED BY <1>3, <2>1, <2>2, <2>3, <2>4, <2>5 DEF Monitor
<1>4. ASSUME NEW t \in Tasks, StopService(t) \/ ReadRow(t) PROVE Written'
  BY <1>4, WrittenElsewhere DEF StopService, ReadRow
<1>5. CASE SendCommand
  <2>1. at' = at /\ revived \subseteq revived' /\ unsaid' = unsaid
    BY <1>5 DEF SendCommand
  <2>2. \A u \in Tasks : u # control => row'[u] = row[u]
    BY <1>5 DEF SendCommand, Write, WriteFails
  <2>3. row' = row \/ (at[control] \in {"cleanup", "end"} => control \in revived')
    BY <1>5 DEF SendCommand, WriteFails
  <2> QED BY <2>1, <2>2, <2>3, WrittenElsewhere
<1>6. CASE Shutdown \/ ShutdownNext
  BY <1>6, WrittenElsewhere DEF Shutdown, ShutdownNext
<1>7. ASSUME NEW k \in Parts, Stop(k) PROVE Written'
  <2>1. UNCHANGED <<at, revived, unsaid>>
    BY <1>7 DEF Stop, SetStop, WaitFor, Cancel
  <2>2. \A u \in Tasks : row'[u] = row[u] \/ row'[u] \in Over
    BY <1>7, UpdateElsewhere DEF Stop, SetStop, WaitFor, Cancel, Over
  <2> QED BY <2>1, <2>2, WrittenElsewhere
<1>8. CASE Restart
  BY <1>8 DEF Restart, Written
<1>9. CASE UNCHANGED vars
  BY <1>9 DEF vars, Written
<1> QED BY <1>1, <1>2, <1>3, <1>4, <1>5, <1>6, <1>7, <1>8, <1>9
        DEF Next, System, User, Parts

\* A monitor that has ended has a row that says so, unless a command revived it
\* or the update that was to say so failed.
THEOREM EndIsWritten == Spec => []EndedIsWritten
<1>1. Init => Written
  BY DEF Init, Written
<1>2. Typed /\ PoolInv /\ Written /\ [Next]_vars => Written'
  BY WrittenStep
<1>3. Written => EndedIsWritten
  BY DEF Written, EndedIsWritten
<1> QED BY <1>1, <1>2, <1>3, TypedAlways, PoolAlways, PTL DEF Spec

-----------------------------------------------------------------------------
(* The order of commands.                                                  *)

\* Every command a monitor has carried out is below c.
Below(t, c) == \A i \in 1..Len(done[t]) : done[t][i] < c

\* ... or is c itself, which could not be removed from the row.
Fresh(t, c) == \A i \in 1..Len(done[t]) : done[t][i] < c \/ (done[t][i] = c /\ c \in kept)

\* Commands are numbered as they are sent; one that a monitor may still read,
\* or has read, is not earlier than any it has carried out, and one that is being
\* removed has nothing but later ones behind it.
OrderInv ==
    /\ \A t \in Tasks : Below(t, sent + 1) /\ command[t] <= sent /\ copy[t] <= sent
    /\ \A t \in Tasks : at[t] \in {"queued", "loop", "check", "beat"}
                        => command[t] = 0 \/ Fresh(t, command[t])
    /\ \A t \in Tasks : at[t] = "check"
                        => copy[t] = 0 \/ (Fresh(t, copy[t]) /\ copy[t] <= command[t])
    /\ \A t \in Tasks : at[t] = "clear"
                        => /\ copy[t] <= command[t]
                           /\ \A i \in 1..Len(done[t]) : done[t][i] <= copy[t]
    /\ \A t \in Tasks : row[t] = "none" => done[t] = <<>>
    /\ creator.at \in {"submit", "enqueue"} => done[creator.task] = <<>>
    /\ \A t \in Tasks : \A i, j \in 1..Len(done[t]) : i < j =>
           done[t][i] < done[t][j] \/ (done[t][i] = done[t][j] /\ done[t][i] \in kept)

\* Commands are numbers.
LEMMA Numbers ==
    ASSUME Typed
    PROVE  /\ sent \in Nat
           /\ \A t \in Tasks : command[t] \in Nat /\ copy[t] \in Nat
           /\ \A t \in Tasks : \A i \in 1..Len(done[t]) : done[t][i] \in Nat
<1> USE DEF Typed, TypeOK
<1>1. Commands \subseteq Nat /\ sent \in Nat
  BY BoundsAssumption DEF Commands
<1>2. \A t \in Tasks : \A i \in 1..Len(done[t]) : done[t][i] \in Nat
  BY <1>1, ElementOfSeq
<1>3. \A t \in Tasks : command[t] \in Commands \cup {0} /\ copy[t] \in Commands \cup {0}
  OBVIOUS
<1>4. Commands \cup {0} \subseteq Nat
  BY <1>1
<1> HIDE DEF Typed, TypeOK
<1>5. \A t \in Tasks : command[t] \in Nat /\ copy[t] \in Nat
  BY <1>3, <1>4
<1> QED BY <1>1, <1>2, <1>5

\* A step that concerns no command.
LEMMA OrderKept ==
    ASSUME Typed, OrderInv, UNCHANGED <<command, copy, done, sent, kept>>,
           \A t \in Tasks : at'[t] = "queued" => at[t] = "queued" \/ done[t] = <<>>,
           \A t \in Tasks : at'[t] \in {"loop", "beat"}
                            => at[t] \in {"queued", "loop", "check", "beat"},
           \A t \in Tasks : at'[t] \in {"check", "clear"} => at'[t] = at[t],
           \A t \in Tasks : row'[t] = "none" => row[t] = "none",
           creator'.at \in {"submit", "enqueue"} => done[creator'.task] = <<>>
    PROVE  OrderInv'
BY DEF OrderInv, Below, Fresh

LEMMA OrderMonitor ==
    ASSUME Typed, PoolInv, OrderInv, NEW t \in Tasks, Monitor(t)
    PROVE  OrderInv'
<1> USE DEF Typed, TypeOK, table, pool, monitors, ghosts, Go
<1>1. CASE Start(t)
  <2>1. at[t] = "queued"
    BY <1>1, HeadTailProperties DEF Start, PoolInv
  <2> QED BY <1>1, <2>1, OrderKept DEF Start, OrderInv
<1>2. CASE Read(t)
  <2>1. copy[t] \in Nat /\ command[t] \in Nat
    BY Numbers
  <2>2. CASE Go(t, "over") /\ copy' = copy
    BY <1>2, <2>2, OrderKept DEF Read, OrderInv
  <2>3. CASE Go(t, "check") /\ copy' = [copy EXCEPT ![t] = command[t]]
    <3>1. at[t] = "loop" /\ UNCHANGED <<row, command, done, sent, kept, creator>>
      BY <1>2 DEF Read
    <3>2. /\ at'[t] = "check" /\ copy'[t] = command[t]
          /\ \A u \in Tasks : u # t => at'[u] = at[u] /\ copy'[u] = copy[u]
      BY <2>3
    <3> HIDE DEF Typed, TypeOK
    <3>3. \A u \in Tasks : at'[u] = "check"
                          => copy'[u] = 0 \/ (Fresh(u, copy[u])' /\ copy'[u] <= command'[u])
      BY <2>1, <3>1, <3>2 DEF OrderInv, Fresh
    <3> QED BY <3>1, <3>2, <3>3 DEF OrderInv, Below, Fresh
  <2> QED BY <1>2, <2>2, <2>3 DEF Read
<1>3. CASE Finish(t)
  <2>1. /\ at' = [at EXCEPT ![t] = "over"] /\ copy' = [copy EXCEPT ![t] = 0]
        /\ UNCHANGED <<done, sent, kept, creator>> /\ at[t] = "check" /\ 0 <= sent
    BY <1>3, Numbers DEF Finish
  <2>2. command'[t] \in {command[t], copy[t]}
        /\ \A u \in Tasks : u # t => command'[u] = command[u] /\ row'[u] = row[u]
    BY <1>3 DEF Finish, Update, Write, WriteFails
  <2>3. \A u \in Tasks : row'[u] = "none" => row[u] = "none"
    BY <1>3, UpdateAddsNoRow DEF Finish
  <2> HIDE DEF Typed, TypeOK
  <2>4. /\ at'[t] = "over" /\ copy'[t] = 0
        /\ \A u \in Tasks : u # t => at'[u] = at[u] /\ copy'[u] = copy[u]
    BY <2>1 DEF Typed, TypeOK
  <2>5. \A u \in Tasks : Below(u, sent + 1)' /\ command'[u] <= sent' /\ copy'[u] <= sent'
    BY <2>1, <2>2, <2>4 DEF OrderInv, Below
  <2> QED BY <2>1, <2>2, <2>3, <2>4, <2>5 DEF OrderInv, Fresh
<1>4. CASE PlayerFails(t)
  <2>1. 0 <= sent
    BY Numbers
  <2> QED BY <1>4, <2>1 DEF PlayerFails, OrderInv, Below, Fresh
<1>5. CASE CarryOut(t)
  <2>1. PICK c \in Commands : c = copy[t]
    BY <1>5 DEF CarryOut
  <2>2. /\ at[t] = "check" /\ Fresh(t, c) /\ c <= sent /\ c # 0 /\ c <= command[t]
        /\ done' = [done EXCEPT ![t] = Append(@, c)]
        /\ at' = [at EXCEPT ![t] = "clear"]
        /\ UNCHANGED <<row, command, copy, sent, kept, creator>>
    BY <1>5, <2>1, BoundsAssumption DEF CarryOut, OrderInv, Commands
  <2>3. /\ Len(done'[t]) = Len(done[t]) + 1 /\ done'[t][Len(done[t]) + 1] = c
        /\ \A i \in 1..Len(done[t]) : done'[t][i] = done[t][i]
        /\ Len(done[t]) \in Nat
        /\ \A u \in Tasks : u # t => done'[u] = done[u]
    BY <2>1, <2>2, AppendProperties, ElementOfSeq, LenProperties
  <2> HIDE DEF Typed, TypeOK
  <2>4. /\ sent \in Nat /\ c \in Nat
        /\ \A i \in 1..Len(done[t]) : done[t][i] \in Nat
    BY <2>1, Numbers
  <2>5. ASSUME NEW i \in 1..Len(done'[t]), NEW j \in 1..Len(done'[t]), i < j
        PROVE  \/ done'[t][i] < done'[t][j]
               \/ done'[t][i] = done'[t][j] /\ done'[t][i] \in kept
    <3>1. i \in 1..Len(done[t])
      BY <2>3, <2>5
    <3>2. CASE j \in 1..Len(done[t])
      BY <2>3, <2>5, <3>1, <3>2 DEF OrderInv
    <3>3. CASE j = Len(done[t]) + 1
      BY <2>2, <2>3, <3>1, <3>3 DEF Fresh
    <3> QED BY <2>3, <3>2, <3>3
  <2>6. \A i \in 1..Len(done'[t]) : done'[t][i] <= c
    <3>1. \A i \in 1..Len(done[t]) : done[t][i] <= c
      BY <2>2, <2>4 DEF Fresh
    <3> QED BY <2>3, <2>4, <3>1
  <2>7. \A i \in 1..Len(done'[t]) : done'[t][i] < sent + 1
    <3>1. \A i \in 1..Len(done[t]) : done[t][i] < sent + 1
      BY DEF OrderInv, Below
    <3> QED BY <2>2, <2>3, <2>4, <3>1
  <2>8. /\ row[t] # "none"
        /\ creator.at \in {"submit", "enqueue"} => creator.task # t
    BY <2>2 DEF PoolInv
  <2>9. at'[t] = "clear" /\ \A u \in Tasks : u # t => at'[u] = at[u]
    BY <2>2 DEF Typed, TypeOK
  <2>10. \A u \in Tasks : Below(u, sent + 1)' /\ command'[u] <= sent' /\ copy'[u] <= sent'
    BY <2>2, <2>3, <2>7 DEF OrderInv, Below
  <2>11. \A u \in Tasks : at'[u] \in {"queued", "loop", "check", "beat"}
                         => command'[u] = 0 \/ Fresh(u, command[u])'
    BY <2>2, <2>3, <2>9 DEF OrderInv, Fresh
  <2>12. \A u \in Tasks : at'[u] = "check"
                         => copy'[u] = 0 \/ (Fresh(u, copy[u])' /\ copy'[u] <= command'[u])
    BY <2>2, <2>3, <2>9 DEF OrderInv, Fresh
  <2>13. \A u \in Tasks : at'[u] = "clear"
                         => /\ copy'[u] <= command'[u]
                            /\ \A i \in 1..Len(done'[u]) : done'[u][i] <= copy'[u]
    BY <2>1, <2>2, <2>3, <2>6, <2>9 DEF OrderInv
  <2>14. /\ \A u \in Tasks : row'[u] = "none" => done'[u] = <<>>
         /\ creator'.at \in {"submit", "enqueue"} => done'[creator'.task] = <<>>
    <3>1. creator.at \in {"submit", "enqueue"} => creator.task \in Tasks
      BY DEF Typed
    <3> QED BY <2>2, <2>3, <2>8, <3>1 DEF OrderInv
  <2>15. \A u \in Tasks : \A i, j \in 1..Len(done'[u]) : i < j =>
             done'[u][i] < done'[u][j] \/ (done'[u][i] = done'[u][j] /\ done'[u][i] \in kept')
    <3>1. kept' = kept
      BY <2>2
    <3>2. \A u \in Tasks : u # t => done'[u] = done[u]
      BY <2>3
    <3>3. ASSUME NEW u \in Tasks, u # t, NEW i \in 1..Len(done'[u]), NEW j \in 1..Len(done'[u]), i < j
          PROVE  done'[u][i] < done'[u][j] \/ (done'[u][i] = done'[u][j] /\ done'[u][i] \in kept')
      BY <3>1, <3>2, <3>3 DEF OrderInv
    <3> QED BY <2>5, <3>1, <3>3
  <2> QED BY <2>10, <2>11, <2>12, <2>13, <2>14, <2>15 DEF OrderInv
<1>6. CASE Clear(t)
  <2>1. /\ at' = [at EXCEPT ![t] = "beat"] /\ copy' = [copy EXCEPT ![t] = 0]
        /\ UNCHANGED <<done, sent, creator>> /\ at[t] = "clear" /\ kept \subseteq kept'
        /\ 0 <= sent
    BY <1>6, Numbers DEF Clear
  <2>2. /\ command'[t] = 0 \/ (command'[t] = command[t] /\ copy[t] \in kept')
        /\ \A u \in Tasks : u # t => command'[u] = command[u]
    BY <1>6 DEF Clear, Write, WriteFails
  <2>3. \A u \in Tasks : row'[u] = "none" => row[u] = "none"
    BY <1>6 DEF Clear, Write, WriteFails
  <2> HIDE DEF Typed, TypeOK
  <2>4. /\ at'[t] = "beat" /\ copy'[t] = 0
        /\ \A u \in Tasks : u # t => at'[u] = at[u] /\ copy'[u] = copy[u]
    BY <2>1 DEF Typed, TypeOK
  <2>5. command'[t] = 0 \/ Fresh(t, command[t])'
    <3>1. SUFFICES ASSUME command'[t] = command[t], copy[t] \in kept'
                   PROVE  Fresh(t, command[t])'
      BY <2>2
    <3>2. /\ copy[t] <= command[t] /\ copy[t] \in Nat /\ command[t] \in Nat
          /\ \A i \in 1..Len(done[t]) : done[t][i] <= copy[t] /\ done[t][i] \in Nat
      BY <2>1, Numbers DEF OrderInv
    <3>3. \A i \in 1..Len(done[t]) :
             done[t][i] < command[t] \/ (done[t][i] = command[t] /\ command[t] = copy[t])
      BY <3>2
    <3> QED BY <2>1, <3>1, <3>3 DEF Fresh
  <2>6. \A u \in Tasks : Below(u, sent + 1)' /\ command'[u] <= sent' /\ copy'[u] <= sent'
    BY <2>1, <2>2, <2>4 DEF OrderInv, Below
  <2>7. \A u \in Tasks : at'[u] \in {"queued", "loop", "check", "beat"}
                         => command'[u] = 0 \/ Fresh(u, command[u])'
    BY <2>1, <2>2, <2>4, <2>5 DEF OrderInv, Fresh
  <2>8. \A u \in Tasks : at'[u] = "check"
                         => copy'[u] = 0 \/ (Fresh(u, copy[u])' /\ copy'[u] <= command'[u])
    BY <2>1, <2>2, <2>4 DEF OrderInv, Fresh
  <2>9. \A u \in Tasks : at'[u] = "clear"
                         => /\ copy'[u] <= command'[u]
                            /\ \A i \in 1..Len(done'[u]) : done'[u][i] <= copy'[u]
    BY <2>1, <2>2, <2>4 DEF OrderInv
  <2> QED BY <2>1, <2>3, <2>6, <2>7, <2>8, <2>9 DEF OrderInv
<1>7. CASE Beat(t)
  <2>1. command' = command /\ kept' = kept /\ UNCHANGED <<copy, done, sent, creator>>
    BY <1>7, UpdateKeepsCommands DEF Beat
  <2>2. \A u \in Tasks : row'[u] = "none" => row[u] = "none"
    BY <1>7, UpdateAddsNoRow DEF Beat
  <2> QED BY <1>7, <2>1, <2>2, OrderKept DEF Beat, OrderInv
<1>8. CASE End(t)
  <2>1. command' = command /\ kept' = kept /\ UNCHANGED <<copy, done, sent, creator>>
    BY <1>8 DEF End, Write, WriteFails
  <2>2. \A u \in Tasks : row'[u] = "none" => row[u] = "none"
    BY <1>8 DEF End, Write, WriteFails
  <2> QED BY <1>8, <2>1, <2>2, OrderKept DEF End, OrderInv
<1>9. CASE Cleanup(t)
  BY <1>9, OrderKept DEF Cleanup, OrderInv
<1> QED BY <1>1, <1>2, <1>3, <1>4, <1>5, <1>6, <1>7, <1>8, <1>9 DEF Monitor

LEMMA OrderStep ==
    ASSUME Typed, PoolInv, OrderInv, [Next]_vars
    PROVE  OrderInv'
<1> USE DEF Typed, TypeOK, table, pool, monitors, ghosts
<1>1. ASSUME NEW t \in Tasks, Register(t) PROVE OrderInv'
  BY <1>1, OrderKept DEF Register, OrderInv
<1>2. CASE Submit
  BY <1>2, OrderKept DEF Submit, OrderInv
<1>3. CASE Enqueue
  BY <1>3, OrderKept DEF Enqueue, OrderInv, Idle
<1>4. CASE Store
  BY <1>4, OrderKept DEF Store, Idle
<1>5. ASSUME NEW t \in Tasks, Monitor(t) PROVE OrderInv'
  BY <1>5, OrderMonitor
<1>6. ASSUME NEW t \in Tasks, StopService(t) \/ ReadRow(t) PROVE OrderInv'
  BY <1>6, OrderKept DEF StopService, ReadRow, OrderInv
<1>7. CASE SendCommand
  <2>1. PICK c \in Tasks : c = control
    BY <1>7 DEF SendCommand
  <2>2. CASE WriteFails /\ sent' = sent
    BY <1>7, <2>2, OrderKept DEF SendCommand, WriteFails, OrderInv
  <2>3. CASE Write(c, "RUNNING", sent + 1) /\ sent' = sent + 1
    <3>1. /\ command' = [command EXCEPT ![c] = sent + 1]
          /\ row' = [row EXCEPT ![c] = "RUNNING"]
          /\ UNCHANGED <<at, copy, done, kept, creator>>
      BY <1>7, <2>3 DEF SendCommand, Write
    <3> HIDE DEF Typed, TypeOK
    <3>2. /\ command'[c] = sent + 1 /\ row'[c] # "none"
          /\ \A u \in Tasks : u # c => command'[u] = command[u] /\ row'[u] = row[u]
      BY <3>1 DEF Typed, TypeOK
    <3>3. ASSUME NEW u \in Tasks
          PROVE  Below(u, sent + 1)' /\ command'[u] <= sent' /\ copy'[u] <= sent'
      <4>1. \A i \in 1..Len(done[u]) : done[u][i] \in Nat /\ done[u][i] < sent + 1
        BY Numbers DEF OrderInv, Below
      <4>2. \A i \in 1..Len(done[u]) : done[u][i] < sent + 1 + 1
        BY <4>1, Numbers
      <4>3. Below(u, sent + 1)'
        BY <2>3, <3>1, <4>2 DEF Below
      <4>4. command[u] <= sent /\ copy[u] <= sent
        BY DEF OrderInv
      <4>5. command[u] \in Nat /\ copy[u] \in Nat /\ sent \in Nat
        BY Numbers
      <4>6. command'[u] = command[u] \/ command'[u] = sent + 1
        BY <3>2
      <4>7. command'[u] <= sent' /\ copy'[u] <= sent'
        BY <2>3, <3>1, <4>4, <4>5, <4>6
      <4> QED BY <4>3, <4>7
    <3>4. \A u \in Tasks : at'[u] \in {"queued", "loop", "check", "beat"}
                          => command'[u] = 0 \/ Fresh(u, command[u])'
      BY <3>1, <3>2 DEF OrderInv, Below, Fresh
    <3>5. \A u \in Tasks : copy[u] <= command[u] => copy[u] <= command'[u]
      <4>1. \A u \in Tasks : copy[u] <= sent + 1
        BY Numbers DEF OrderInv
      <4> QED BY <3>2, <4>1
    <3>6. \A u \in Tasks : at'[u] = "check"
                          => copy'[u] = 0 \/ (Fresh(u, copy[u])' /\ copy'[u] <= command'[u])
      BY <3>1, <3>5 DEF OrderInv, Fresh
    <3>7. \A u \in Tasks : at'[u] = "clear"
                          => /\ copy'[u] <= command'[u]
                             /\ \A i \in 1..Len(done'[u]) : done'[u][i] <= copy'[u]
      BY <3>1, <3>5 DEF OrderInv
    <3>8. /\ \A u \in Tasks : row'[u] = "none" => done'[u] = <<>>
          /\ creator'.at \in {"submit", "enqueue"} => done'[creator'.task] = <<>>
          /\ \A u \in Tasks : \A i, j \in 1..Len(done'[u]) : i < j =>
                done'[u][i] < done'[u][j] \/ (done'[u][i] = done'[u][j] /\ done'[u][i] \in kept')
      BY <3>1, <3>2 DEF OrderInv
    <3> QED BY <3>3, <3>4, <3>6, <3>7, <3>8 DEF OrderInv
  <2> QED BY <1>7, <2>1, <2>2, <2>3 DEF SendCommand
<1>8. CASE Shutdown \/ ShutdownNext
  BY <1>8, OrderKept DEF Shutdown, ShutdownNext, OrderInv
<1>9. ASSUME NEW k \in Parts, Stop(k) PROVE OrderInv'
  <2>1. command' = command /\ UNCHANGED <<at, copy, done, sent, kept, creator>>
    BY <1>9, UpdateKeepsCommands DEF Stop, SetStop, WaitFor, Cancel
  <2>2. \A u \in Tasks : row'[u] = "none" => row[u] = "none"
    BY <1>9, UpdateAddsNoRow DEF Stop, SetStop, WaitFor, Cancel
  <2> QED BY <2>1, <2>2, OrderKept DEF OrderInv
<1>10. CASE Restart
  <2>1. 0 <= sent
    BY Numbers
  <2> QED BY <1>10, <2>1 DEF Restart, OrderInv, Below, Fresh, Idle
<1>11. CASE UNCHANGED vars
  BY <1>11 DEF vars, OrderInv, Below, Fresh
<1> QED BY <1>1, <1>2, <1>3, <1>4, <1>5, <1>6, <1>7, <1>8, <1>9, <1>10, <1>11
        DEF Next, Create, System, User, Parts

\* No monitor carries a command out after a later one, or twice, unless removing
\* it from the row has failed.
THEOREM InOrder == Spec => []CarriedOutInOrder
<1>1. Init => OrderInv
  BY DEF Init, OrderInv, Below, Fresh, Idle
<1>2. Typed /\ PoolInv /\ OrderInv /\ [Next]_vars => OrderInv'
  BY OrderStep
<1>3. Typed /\ OrderInv => CarriedOutInOrder
  <2> SUFFICES ASSUME Typed, OrderInv, NEW t \in Tasks PROVE DOMAIN done[t] = 1..Len(done[t])
    BY DEF OrderInv, CarriedOutInOrder
  <2> QED BY LenProperties DEF Typed, TypeOK
<1> QED BY <1>1, <1>2, <1>3, TypedAlways, PoolAlways, PTL DEF Spec
=============================================================================
