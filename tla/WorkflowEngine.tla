--------------------------- MODULE WorkflowEngine ---------------------------
(***************************************************************************)
(* A direct workflow, its engine and the threads that drive it.            *)
(*                                                                         *)
(*   start       _start_workflow: runs the engine until a step needs the   *)
(*               user (the "effective first step") or nothing moves        *)
(*   background  _execute_workflow_step_background, submitted by start     *)
(*   bus         the bus thread: SystemLoop's handlers, and the LLM module *)
(*               reviewing steps and computing LLM_PROCESSING steps        *)
(*   user        an answer, submitted through provide_workflow_input       *)
(*                                                                         *)
(* The engine has no lock: process_input is a check and then steps, each   *)
(* an action here, so that the calls of two threads interleave.            *)
(*                                                                         *)
(* A definition is a chain of steps: an "ask" wants input unless its data  *)
(* exist, a "work" processes, an "llm" waits for a result the LLM module   *)
(* writes into the session, a "last" processes and completes the workflow. *)
(* All have requires_llm_review and auto_advance_on_approval.  The limits  *)
(* of 10, 50 and 100 automatic steps are out of reach of such a chain.     *)
(***************************************************************************)
EXTENDS Naturals, Sequences, FiniteSets

CONSTANTS
    Chains,    \* the definitions: sequences of kinds
    Faults,    \* what may go wrong: subset of {"step", "answer", "llm"}
    MaxEvents  \* bound: events the bus is behind when the user answers

Kinds == {"ask", "work", "llm", "last"}
ASSUME ChainsAssumption ==
    \A c \in Chains : c \in Seq(Kinds) /\ c # <<>>
                    /\ \A i \in DOMAIN c : c[i] = "last" <=> i = Len(c)
ASSUME MaxEventsAssumption == MaxEvents \in Nat
ASSUME FaultsAssumption == Faults \subseteq {"step", "answer", "llm"}

Threads == {"start", "background", "bus", "user"}

VARIABLES
    chain,      \* the definition
    have,       \* the asks and llm steps whose data the session has
    current,    \* session data current_step; 0 is None
    awaiting,   \* engine.awaiting_llm_review (and a pending result)
    alive,      \* is the engine in workflow_engines?
    prompted,   \* working context: is a workflow waiting for input?
    asked,      \* session data _last_input_request_step
    runs,       \* how often each step has run to success
    events,     \* the bus's queue of this workflow's events
    seen,       \* _processed_llm_steps
    told,       \* has the LLM been told that the workflow is over?
    broken,     \* has a processing step failed, or the LLM given no result?
    call        \* each thread: where it is, its step, its result

vars == <<chain, have, current, awaiting, alive, prompted, asked, runs, events,
          seen, told, broken, call>>

Steps == DOMAIN chain
After(s) == IF s \in Steps /\ s + 1 \in Steps THEN s + 1 ELSE 0
Asks(s) == s # 0 /\ chain[s] = "ask"
MustAsk(s) == Asks(s) /\ s \notin have

\* began is the step at which the start's loop called the engine.
Rest == [at |-> "rest", step |-> 0, result |-> "none", began |-> 0]
Goto(t, at, s) == call' = [call EXCEPT ![t].at = at, ![t].step = s]
Stop(t) == call' = [call EXCEPT ![t] = Rest]
Return(t, result) ==
    call' = [call EXCEPT ![t].at = "back", ![t].result = result]

Say(kind, s) == [kind |-> kind, step |-> s]
Publish(e) == events' = Append(events, e)

\* initial_data answers any of the asks: the start's first loop is next.
Init ==
    /\ chain \in Chains
    /\ have \in SUBSET {s \in Steps : chain[s] = "ask"}
    /\ current = 1 /\ awaiting = FALSE /\ alive = TRUE
    /\ prompted = FALSE /\ asked = 0
    /\ runs = [s \in Steps |-> 0]
    /\ events = <<>> /\ seen = {} /\ told = FALSE /\ broken = FALSE
    /\ call = [t \in Threads |-> IF t = "start" THEN [Rest EXCEPT !.at = "loop"] ELSE Rest]

-----------------------------------------------------------------------------
(* WorkflowEngine.process_input.                                           *)

\* The events that ask the user for step s, once per step.
AskFor(s) ==
    IF asked # s THEN asked' = s /\ Publish(Say("input", s)) ELSE UNCHANGED <<asked, events>>

\* The first half: what is the current step, and may it run?  A review under
\* way stops everyone, unless it waits for an LLM result that has come.
Check(t) ==
    LET blocked == awaiting /\ ~(current # 0 /\ chain[current] = "llm" /\ current \in have)
        computing == chain[current] = "llm" /\ current \notin have
    IN
    /\ call[t].at = "check"
    /\ awaiting' = (awaiting /\ blocked)
    /\ \/ /\ blocked
          /\ Return(t, "failed")
          /\ UNCHANGED <<prompted, asked, events>>
       \/ /\ ~blocked /\ current = 0
          /\ Return(t, "complete")
          /\ UNCHANGED <<prompted, asked, events>>
       \/ /\ ~blocked /\ MustAsk(current) /\ t # "user"
          /\ prompted' = TRUE /\ AskFor(current)
          /\ Return(t, "failed")
       \/ /\ ~blocked /\ current # 0 /\ computing
          /\ Publish(Say("process", current))
          /\ Return(t, "failed")
          /\ UNCHANGED <<prompted, asked>>
       \/ /\ ~blocked /\ current # 0 /\ ~computing
          /\ ~(MustAsk(current) /\ t # "user")
          /\ Goto(t, "work", current)
          /\ IF t = "user" THEN prompted' = FALSE /\ asked' = 0
             ELSE UNCHANGED <<prompted, asked>>
          /\ events' = events
    /\ UNCHANGED <<chain, have, current, alive, runs, seen, told, broken>>

\* A step may fail: a processor's error, or an answer that is not valid.
Fails(s) ==
    IF Asks(s) THEN "answer" \in Faults /\ s \notin have
    ELSE "step" \in Faults /\ chain[s] # "llm"

Breaks(s) == broken' = (broken \/ ~Asks(s))

Done(s) ==
    /\ runs' = [runs EXCEPT ![s] = @ + 1]
    /\ have' = have \cup (IF Asks(s) THEN {s} ELSE {})
    /\ broken' = broken

\* _request_llm_review: the result waits, the LLM hears of it and of whether
\* the next step needs the user.
RequestReview(s) ==
    /\ awaiting' = TRUE
    /\ Publish(Say(IF Asks(After(s)) THEN "prompt" ELSE "review", s))

\* The second half: the step runs.  Only a processing step is reviewed, and
\* current_step has moved on by then.
Work(t) ==
    LET s == call[t].step
        n == After(s)
        finished == IF Asks(s) THEN Append(events, Say("inputDone", s)) ELSE events
    IN
    /\ call[t].at = "work"
    /\ \/ /\ Fails(s)
          /\ Return(t, "failed") /\ Breaks(s)
          /\ UNCHANGED <<have, current, awaiting, asked, runs, events>>
       \/ /\ chain[s] = "last"
          /\ Done(s) /\ current' = 0 /\ Return(t, "complete")
          /\ UNCHANGED <<awaiting, asked, events>>
       \/ /\ chain[s] = "work"
          /\ Done(s) /\ current' = n
          /\ RequestReview(s) /\ Return(t, "ok")
          /\ asked' = asked
       \/ /\ chain[s] \in {"ask", "llm"}
          /\ Done(s) /\ current' = n /\ awaiting' = awaiting
          /\ IF MustAsk(n)
             THEN /\ asked' = n
                  /\ events' = IF asked # n THEN Append(finished, Say("input", n)) ELSE finished
                  /\ Return(t, "ok")
             ELSE /\ Goto(t, "advance", 0) /\ events' = finished /\ asked' = asked
    /\ UNCHANGED <<chain, alive, prompted, seen, told>>

\* _auto_advance, one turn of its loop: what to do next ...
Advance(t) ==
    /\ call[t].at = "advance"
    /\ \/ /\ current = 0
          /\ Return(t, "ok") /\ UNCHANGED <<awaiting, asked, events>>
       \/ /\ MustAsk(current)
          /\ AskFor(current) /\ Return(t, "ok") /\ UNCHANGED awaiting
       \/ /\ current # 0 /\ chain[current] = "llm" /\ current \notin have
          /\ awaiting' = TRUE /\ Publish(Say("process", current))
          /\ Return(t, "ok") /\ UNCHANGED asked
       \/ /\ current # 0 /\ ~MustAsk(current)
          /\ ~(chain[current] = "llm" /\ current \notin have)
          /\ Goto(t, "step", current) /\ UNCHANGED <<awaiting, asked, events>>
    /\ UNCHANGED <<chain, have, current, alive, prompted, runs, seen, told, broken>>

\* Mutant: a step done on the way is reviewed like one done first.
AdvanceStepReviewed(t) ==
    LET s == call[t].step IN
    /\ call[t].at = "step"
    /\ \/ /\ Fails(s)
          /\ Return(t, "failed") /\ Breaks(s)
          /\ UNCHANGED <<have, runs, current, awaiting, events>>
       \/ /\ chain[s] = "last"
          /\ Done(s) /\ current' = 0 /\ Return(t, "complete")
          /\ UNCHANGED <<awaiting, events>>
       \/ /\ chain[s] # "last"
          /\ Done(s) /\ current' = After(s) /\ RequestReview(s) /\ Return(t, "ok")
    /\ UNCHANGED <<chain, alive, prompted, asked, seen, told>>

\* ... and doing it, without a review.
AdvanceStep(t) ==
    LET s == call[t].step IN
    /\ call[t].at = "step"
    /\ \/ /\ Fails(s)
          /\ Return(t, "failed") /\ Breaks(s) /\ UNCHANGED <<have, runs, current>>
       \/ /\ chain[s] = "last"
          /\ Done(s) /\ current' = 0 /\ Return(t, "complete")
       \/ /\ chain[s] # "last"
          /\ Done(s) /\ current' = After(s) /\ Goto(t, "advance", 0)
    /\ UNCHANGED <<chain, awaiting, alive, prompted, asked, events, seen, told>>

ProcessInput(t) == Check(t) \/ Work(t) \/ Advance(t) \/ AdvanceStep(t)

-----------------------------------------------------------------------------
(* _start_workflow: find the effective first step.                         *)

\* The loop ends without a current step, or at one that needs the user;
\* otherwise it forgets a review under way and runs the engine again.
StartLoop ==
    /\ call["start"].at = "loop"
    /\ \/ /\ current = 0
          /\ Publish(Say("complete", 0)) /\ Stop("start") /\ UNCHANGED awaiting
       \/ /\ MustAsk(current)
          /\ Publish(Say("input", current)) /\ Stop("start") /\ UNCHANGED awaiting
       \/ /\ current # 0 /\ ~MustAsk(current)
          /\ awaiting' = FALSE
          /\ call' = [call EXCEPT !["start"] = [Rest EXCEPT !.at = "check", !.began = current]]
          /\ UNCHANGED events
    /\ UNCHANGED <<chain, have, current, alive, prompted, asked, runs, seen, told, broken>>

\* The engine has run.  If the step is still the one it began with, the loop
\* gives up and a background task takes over; if it moved, the loop goes on.
StartBack ==
    LET stuck == current # 0 /\ call["start"].began = current IN
    /\ call["start"].at = "back"
    /\ call' = [call EXCEPT
           !["start"] = IF stuck THEN Rest ELSE [Rest EXCEPT !.at = "loop"],
           !["background"] = IF stuck THEN [Rest EXCEPT !.at = "begin"] ELSE @]
    /\ UNCHANGED <<chain, have, current, awaiting, alive, prompted, asked, runs,
                   events, seen, told, broken>>

-----------------------------------------------------------------------------
(* The background task.                                                    *)

BackgroundBegin ==
    /\ call["background"].at = "begin"
    /\ IF alive THEN Goto("background", "check", current) ELSE Stop("background")
    /\ UNCHANGED <<chain, have, current, awaiting, alive, prompted, asked, runs,
                   events, seen, told, broken>>

\* It reports a completed workflow and a review under way; everything else,
\* a failure too, returns before the code that would report it.
BackgroundReport ==
    /\ call["background"].at = "back"
    /\ IF call["background"].result = "complete"
       THEN Publish(Say("complete", 0))
       ELSE IF awaiting
       THEN Publish(Say(IF MustAsk(current) \/ Asks(After(current)) THEN "prompt" ELSE "review", current))
       ELSE UNCHANGED events
    /\ Stop("background")
    /\ UNCHANGED <<chain, have, current, awaiting, alive, prompted, asked, runs,
                   seen, told, broken>>

-----------------------------------------------------------------------------
(* _continue_workflow: an answer, or the LLM module's result.              *)

\* Whoever is asked answers, when the turn that started the workflow is over;
\* an answer to a workflow whose engine is gone is refused.
Answer ==
    /\ call["user"] = Rest /\ call["start"] = Rest /\ prompted /\ alive /\ ~told
    /\ Len(events) <= MaxEvents
    /\ Goto("user", "check", current)
    /\ UNCHANGED <<chain, have, current, awaiting, alive, prompted, asked, runs,
                   events, seen, told, broken>>

\* Mutant: the result of a failed step is only returned.
ContinueBackQuietly(t) ==
    /\ call[t].at = "back"
    /\ events' = IF call[t].result = "complete" THEN Append(events, Say("complete", 0)) ELSE events
    /\ alive' = (alive /\ call[t].result # "failed" /\ ~(call[t].result = "ok" /\ current = 0))
    /\ Stop(t)
    /\ UNCHANGED <<chain, have, current, awaiting, prompted, asked, runs, seen, told, broken>>

\* Mutant: whatever did not fail has completed the workflow.
ContinueBackComplete(t) ==
    LET result == call[t].result IN
    /\ call[t].at = "back"
    /\ events' = Append(events, IF result = "failed" THEN Say("failed", current)
                                ELSE Say("complete", 0))
    /\ alive' = (alive /\ result # "failed" /\ ~(result = "ok" /\ current = 0))
    /\ Stop(t)
    /\ UNCHANGED <<chain, have, current, awaiting, prompted, asked, runs, seen, told, broken>>

\* A failed step, one that only asks for input included, ends the engine.
ContinueBack(t) ==
    LET result == call[t].result IN
    /\ call[t].at = "back"
    /\ events' = CASE result = "complete" -> Append(events, Say("complete", 0))
                   [] result = "failed"   -> Append(events, Say("failed", current))
                   [] OTHER               -> events
    /\ alive' = (alive /\ result # "failed" /\ ~(result = "ok" /\ current = 0))
    /\ Stop(t)
    /\ UNCHANGED <<chain, have, current, awaiting, prompted, asked, runs, seen, told, broken>>

-----------------------------------------------------------------------------
(* The bus thread: SystemLoop's and the LLM module's handlers.             *)

\* The LLM module computes each step's result once, approves a review in
\* silence, and answers the user where the next step asks.
Dispatch ==
    /\ call["bus"] = Rest /\ events # <<>>
    /\ events' = Tail(events)
    /\ LET e == Head(events) IN
       /\ prompted' = (e.kind = "input" \/ (prompted /\ e.kind # "inputDone"))
       /\ told' = (told \/ e.kind \in {"complete", "failed"})
       /\ seen' = IF e.kind = "process" THEN seen \cup {e.step} ELSE seen
       /\ CASE e.kind = "process" /\ e.step \notin seen -> Goto("bus", "think", e.step)
            [] e.kind = "review"                        -> Goto("bus", "approve", 0)
            [] OTHER                                    -> UNCHANGED call
    /\ UNCHANGED <<chain, have, current, awaiting, alive, asked, runs, broken>>

\* Mutant: a step the LLM gives nothing for is asked for again, without end.
ThinkAgain ==
    /\ call["bus"].at = "think"
    /\ \/ /\ have' = have \cup {call["bus"].step} /\ Goto("bus", "resume", 0)
          /\ UNCHANGED <<broken, events, seen>>
       \/ /\ "llm" \in Faults /\ Stop("bus") /\ broken' = TRUE /\ UNCHANGED have
          /\ Publish(Say("process", call["bus"].step))
          /\ seen' = seen \ {call["bus"].step}
    /\ UNCHANGED <<chain, current, awaiting, alive, prompted, asked, runs, told>>

\* The result goes into the session, and the workflow continues with an
\* empty input; without a result nobody continues it.
Think ==
    /\ call["bus"].at = "think"
    /\ \/ /\ have' = have \cup {call["bus"].step} /\ Goto("bus", "resume", 0)
          /\ UNCHANGED broken
       \/ "llm" \in Faults /\ Stop("bus") /\ broken' = TRUE /\ UNCHANGED have
    /\ UNCHANGED <<chain, current, awaiting, alive, prompted, asked, runs, events,
                   seen, told>>

Resume ==
    /\ call["bus"].at = "resume"
    /\ IF alive THEN Goto("bus", "check", current) ELSE Stop("bus")
    /\ UNCHANGED <<chain, have, current, awaiting, alive, prompted, asked, runs,
                   events, seen, told, broken>>

\* Mutant: the last step has one after it.
ApproveBeyond ==
    /\ call["bus"].at = "approve"
    /\ awaiting' = FALSE
    /\ IF alive /\ awaiting
       THEN current' = current + 1 /\ Goto("bus", "approved", current + 1)
       ELSE current' = current /\ Stop("bus")
    /\ UNCHANGED <<chain, have, alive, prompted, asked, runs, events, seen, told, broken>>

\* handle_llm_review_response, approve: the step after the current one, even
\* when current_step has moved on already.
Approve ==
    LET n == After(current) IN
    /\ call["bus"].at = "approve"
    /\ awaiting' = FALSE
    /\ \/ /\ ~alive \/ ~awaiting
          /\ Stop("bus") /\ UNCHANGED <<current, prompted, events>>
       \/ /\ alive /\ awaiting /\ n # 0
          /\ current' = n
          /\ IF Asks(n) THEN Stop("bus") /\ prompted' = TRUE
             ELSE Goto("bus", "approved", n) /\ prompted' = prompted
          /\ UNCHANGED events
       \/ /\ alive /\ awaiting /\ n = 0 /\ current # 0
          /\ Goto("bus", "final", current) /\ UNCHANGED <<current, prompted, events>>
       \/ /\ alive /\ awaiting /\ current = 0
          /\ Publish(Say("complete", 0)) /\ Stop("bus")
          /\ UNCHANGED <<current, prompted>>
    /\ UNCHANGED <<chain, have, alive, asked, runs, seen, told, broken>>

\* What approving executes: the next step, or the last one once more.
ApprovedStep ==
    LET s == call["bus"].step
        final == call["bus"].at = "final"
    IN
    /\ call["bus"].at \in {"approved", "final"}
    /\ current' = IF final THEN 0 ELSE current
    /\ Stop("bus")
    /\ \/ Fails(s) /\ Breaks(s) /\ UNCHANGED <<have, runs, awaiting, events>>
       \/ /\ chain[s] = "last" /\ Done(s)
          /\ Publish(Say("complete", 0)) /\ UNCHANGED awaiting
       \/ /\ chain[s] = "work" /\ Done(s) /\ RequestReview(s)
       \/ /\ chain[s] = "llm" /\ awaiting' = TRUE
          /\ IF s \in have THEN Done(s) /\ Publish(Say("review", s))
             ELSE Publish(Say("process", s)) /\ UNCHANGED <<have, runs, broken>>
    /\ UNCHANGED <<chain, alive, prompted, asked, seen, told>>

-----------------------------------------------------------------------------

StartStep == StartLoop \/ StartBack \/ ProcessInput("start")
BackgroundStep == BackgroundBegin \/ BackgroundReport \/ ProcessInput("background")
BusStep ==
    \/ Dispatch \/ Think \/ Resume \/ Approve \/ ApprovedStep
    \/ ProcessInput("bus") \/ ContinueBack("bus")
UserStep == ProcessInput("user") \/ ContinueBack("user")

Next == StartStep \/ BackgroundStep \/ BusStep \/ UserStep \/ Answer

Spec == Init /\ [][Next]_vars

\* Every thread that has something to do does it; the user may keep silent.
FairSpec ==
    /\ Spec
    /\ WF_vars(StartStep) /\ WF_vars(BackgroundStep)
    /\ WF_vars(BusStep) /\ WF_vars(UserStep)

-----------------------------------------------------------------------------
(* Properties.                                                             *)

Idle == \A t \in Threads : call[t] = Rest

\* Every variable has its type.
TypeOK ==
    /\ chain \in Chains /\ have \subseteq Steps /\ current \in Steps \cup {0}
    /\ awaiting \in BOOLEAN /\ alive \in BOOLEAN /\ prompted \in BOOLEAN
    /\ asked \in Steps \cup {0}
    /\ runs \in [Steps -> Nat]
    /\ events \in Seq([kind : {"input", "inputDone", "process", "review", "prompt",
                               "complete", "failed"}, step : Steps \cup {0}])
    /\ seen \subseteq Steps /\ told \in BOOLEAN
    /\ DOMAIN call = Threads

\* No step is skipped: one that has run had the data and the results of all
\* steps before it, however the threads interleave, while no step has failed.
\* (After a failure a retried step is reviewed, and Approve skips a step.)
NothingSkipped ==
    ~broken => \A s \in Steps : runs[s] > 0 =>
        \A p \in 1..(s - 1) : runs[p] > 0 \/ p \in have

\* Nobody waits for nobody: at rest, a workflow whose end the LLM has not been
\* told waits for an answer, and the user knows of it.  Nothing is said of a
\* workflow once a step has failed or the LLM has been silent (broken): it may
\* then wait for nobody.
WaitsForTheUser == Idle /\ events = <<>> /\ ~told => prompted /\ MustAsk(current) /\ alive
NeverForgotten == ~broken => WaitsForTheUser

\* The LLM hears of a completed workflow only when its last step has run, and
\* so has everything before it.  (After a failure Approve may end a workflow
\* whose last step has failed, and the start then reports it complete.)
CompleteMeansDone ==
    ~broken => \A i \in DOMAIN events : events[i].kind = "complete" => runs[Len(chain)] > 0

\* Every workflow comes to rest: each step of each thread is its last turn or
\* brings the chain forward, and no two threads keep each other busy.
ComesToRest == <>[](Idle /\ events = <<>>)
=============================================================================
