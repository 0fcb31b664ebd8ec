------------------------ MODULE WorkflowEngineProofs ------------------------
(***************************************************************************)
(* Proofs about WorkflowEngine for any definitions, faults and bound:      *)
(* types and true completion for every chain; that no step is skipped and  *)
(* nobody is forgotten for chains shaped as the repository's workflows.    *)
(***************************************************************************)
EXTENDS WorkflowEngine, TLAPS, SequenceTheorems

Places == {"rest", "loop", "check", "work", "advance", "step", "back", "begin",
           "think", "resume", "approve", "approved", "final"}
Calls == [at : Places, step : Nat, result : {"none", "ok", "failed", "complete"},
          began : Nat]

Event == [kind : {"input", "inputDone", "process", "review", "prompt",
                  "complete", "failed"}, step : Steps \cup {0}]

Queued == {events[i] : i \in 1..Len(events)}

\* A thread that is about to execute a step, or to compute its result, has one.
Executing == {"work", "step", "think", "approved", "final"}
CallsTyped ==
    /\ call \in [Threads -> Calls]
    /\ \A t \in Threads : call[t].at \in Executing => call[t].step \in Steps
EventsTyped ==
    /\ events \in Seq(Event)
    /\ \A e \in Queued : e.kind = "process" => e.step \in Steps
StateTyped ==
    /\ have \subseteq Steps /\ current \in Steps \cup {0} /\ asked \in Steps \cup {0}
    /\ awaiting \in BOOLEAN /\ alive \in BOOLEAN /\ prompted \in BOOLEAN
    /\ runs \in [Steps -> Nat] /\ seen \subseteq Steps /\ told \in BOOLEAN

Typed == chain \in Chains /\ StateTyped /\ CallsTyped /\ EventsTyped

-----------------------------------------------------------------------------
(* Chains, calls and events.                                               *)

LEMMA Shape ==
    ASSUME chain \in Chains
    PROVE  /\ chain \in Seq(Kinds) /\ Len(chain) \in Nat /\ Steps = 1..Len(chain)
           /\ Len(chain) \in Steps /\ 1 \in Steps /\ 0 \notin Steps
           /\ \A s \in Steps : /\ s \in Nat /\ chain[s] \in Kinds
                               /\ chain[s] = "last" <=> s = Len(chain)
                               /\ After(s) = IF s = Len(chain) THEN 0 ELSE s + 1
                               /\ After(s) \in Steps \cup {0}
           /\ After(0) \in Steps \cup {0}
<1>1. chain \in Seq(Kinds) /\ chain # <<>> /\ \A i \in DOMAIN chain : chain[i] = "last" <=> i = Len(chain)
  BY ChainsAssumption
<1>2. Len(chain) \in Nat /\ DOMAIN chain = 1..Len(chain) /\ Len(chain) # 0
  BY <1>1, LenProperties, EmptySeq
<1>3. \A s \in DOMAIN chain : chain[s] \in Kinds
  BY <1>1, <1>2, ElementOfSeq
<1> QED BY <1>1, <1>2, <1>3 DEF Steps, After

LEMMA CallGoes ==
    ASSUME call \in [Threads -> Calls], NEW t \in Threads, NEW at \in Places,
           NEW s \in Nat, Goto(t, at, s)
    PROVE  /\ call' \in [Threads -> Calls]
           /\ call'[t].at = at /\ call'[t].step = s
           /\ call'[t].result = call[t].result /\ call'[t].began = call[t].began
           /\ \A u \in Threads \ {t} : call'[u] = call[u]
<1>1. call' = [call EXCEPT ![t] = [call[t] EXCEPT !.at = at, !.step = s]]
  BY DEF Goto
<1>2. call[t] \in Calls
  OBVIOUS
<1> QED BY <1>1, <1>2 DEF Calls

LEMMA CallReturns ==
    ASSUME call \in [Threads -> Calls], NEW t \in Threads,
           NEW result \in {"ok", "failed", "complete"}, Return(t, result)
    PROVE  /\ call' \in [Threads -> Calls]
           /\ call'[t].at = "back" /\ call'[t].step = call[t].step
           /\ call'[t].result = result /\ call'[t].began = call[t].began
           /\ \A u \in Threads \ {t} : call'[u] = call[u]
<1>1. call' = [call EXCEPT ![t] = [call[t] EXCEPT !.at = "back", !.result = result]]
  BY DEF Return
<1>2. call[t] \in Calls
  OBVIOUS
<1> QED BY <1>1, <1>2 DEF Calls, Places

LEMMA CallStops ==
    ASSUME call \in [Threads -> Calls], NEW t \in Threads, Stop(t)
    PROVE  /\ call' \in [Threads -> Calls] /\ call'[t] = Rest
           /\ \A u \in Threads \ {t} : call'[u] = call[u]
<1>1. Rest \in Calls
  BY DEF Rest, Calls, Places
<1> QED BY <1>1 DEF Stop

LEMMA QueuedAppended ==
    ASSUME NEW q \in Seq(Event), NEW e \in Event
    PROVE  /\ Append(q, e) \in Seq(Event)
           /\ {Append(q, e)[i] : i \in 1..Len(Append(q, e))} = {q[i] : i \in 1..Len(q)} \cup {e}
<1>1. /\ Append(q, e) \in Seq(Event) /\ Len(q) \in Nat /\ Len(Append(q, e)) = Len(q) + 1
      /\ \A i \in 1..Len(q) : Append(q, e)[i] = q[i]
      /\ Append(q, e)[Len(q) + 1] = e
  BY AppendProperties, LenProperties
<1>2. 1..(Len(q) + 1) = (1..Len(q)) \cup {Len(q) + 1}
  BY <1>1
<1> QED BY <1>1, <1>2

\* What is said comes to what is queued.
LEMMA Says ==
    ASSUME events \in Seq(Event), NEW e \in Event, events' = Append(events, e)
    PROVE  events' \in Seq(Event) /\ Queued' = Queued \cup {e}
BY QueuedAppended DEF Queued

LEMMA SaysTwo ==
    ASSUME events \in Seq(Event), NEW d \in Event, NEW e \in Event,
           events' = Append(Append(events, d), e)
    PROVE  events' \in Seq(Event) /\ Queued' = Queued \cup {d, e}
<1>1. PICK q \in Seq(Event) : /\ q = Append(events, d)
                              /\ {q[i] : i \in 1..Len(q)} = Queued \cup {d}
  BY QueuedAppended DEF Queued
<1>2. events' = Append(q, e)
  BY <1>1
<1> QED BY <1>1, <1>2, QueuedAppended DEF Queued

\* The event in front was queued, and the rest still is.
LEMMA Taken ==
    ASSUME events \in Seq(Event), events # <<>>, events' = Tail(events)
    PROVE  /\ events' \in Seq(Event) /\ Queued' \subseteq Queued
           /\ Head(events) \in Event /\ Head(events) \in Queued
<1>1. Len(events) \in Nat \ {0}
  BY LenProperties, EmptySeq
<1>2. /\ Tail(events) \in Seq(Event) /\ Len(Tail(events)) = Len(events) - 1
      /\ \A i \in 1..Len(Tail(events)) : Tail(events)[i] = events[i + 1]
      /\ Head(events) \in Event /\ Head(events) = events[1]
  BY HeadTailProperties
<1>3. \A i \in 1..Len(Tail(events)) : i + 1 \in 1..Len(events)
  BY <1>1, <1>2
<1> QED BY <1>1, <1>2, <1>3 DEF Queued

LEMMA Silent ==
    ASSUME events' = events
    PROVE  Queued' = Queued
BY DEF Queued

\* The kinds of event.
LEMMA Events ==
    ASSUME NEW kind \in {"input", "inputDone", "process", "review", "prompt",
                         "complete", "failed"},
           NEW s \in Steps \cup {0}
    PROVE  Say(kind, s) \in Event /\ Say(kind, s).kind = kind /\ Say(kind, s).step = s
BY DEF Say, Event

-----------------------------------------------------------------------------
(* Types.                                                                  *)

LEMMA GoesTyped ==
    ASSUME Typed, chain' = chain, NEW t \in Threads, NEW at \in Places,
           NEW s \in Steps \cup {0}, at \in Executing => s \in Steps, Goto(t, at, s)
    PROVE  CallsTyped'
<1>1. s \in Nat /\ call \in [Threads -> Calls] /\ Steps' = Steps
  BY Shape DEF Typed, CallsTyped, Steps
<1>2. /\ call' \in [Threads -> Calls] /\ call'[t].at = at /\ call'[t].step = s
      /\ \A u \in Threads \ {t} : call'[u] = call[u]
  BY <1>1, CallGoes
<1> QED BY <1>1, <1>2 DEF Typed, CallsTyped

LEMMA ReturnsTyped ==
    ASSUME Typed, chain' = chain, NEW t \in Threads,
           NEW result \in {"ok", "failed", "complete"}, Return(t, result)
    PROVE  CallsTyped'
<1>1. call \in [Threads -> Calls] /\ Steps' = Steps
  BY DEF Typed, CallsTyped, Steps
<1>2. /\ call' \in [Threads -> Calls] /\ call'[t].at = "back"
      /\ \A u \in Threads \ {t} : call'[u] = call[u]
  BY <1>1, CallReturns
<1> QED BY <1>1, <1>2 DEF Typed, CallsTyped, Executing

LEMMA StopsTyped ==
    ASSUME Typed, chain' = chain, NEW t \in Threads, Stop(t)
    PROVE  CallsTyped'
<1>1. call \in [Threads -> Calls] /\ Steps' = Steps
  BY DEF Typed, CallsTyped, Steps
<1>2. /\ call' \in [Threads -> Calls] /\ call'[t].at = "rest"
      /\ \A u \in Threads \ {t} : call'[u] = call[u]
  BY <1>1, CallStops DEF Rest
<1> QED BY <1>1, <1>2 DEF Typed, CallsTyped, Executing

LEMMA StaysTyped ==
    ASSUME Typed, chain' = chain
    PROVE  /\ Steps' = Steps /\ Event' = Event
           /\ call' = call => CallsTyped'
           /\ events' = events => EventsTyped'
<1>1. Steps' = Steps /\ Event' = Event
  BY DEF Steps, Event
<1> QED BY <1>1, Silent DEF Typed, CallsTyped, EventsTyped

LEMMA SaysTyped ==
    ASSUME Typed, chain' = chain,
           NEW kind \in {"input", "inputDone", "process", "review", "prompt",
                         "complete", "failed"},
           NEW s \in Steps \cup {0}, kind = "process" => s \in Steps,
           events' = Append(events, Say(kind, s))
    PROVE  EventsTyped'
<1>1. Say(kind, s) \in Event /\ Say(kind, s).kind = kind /\ Say(kind, s).step = s
  BY Events
<1>2. events' \in Seq(Event) /\ Queued' = Queued \cup {Say(kind, s)}
  BY <1>1, Says DEF Typed, EventsTyped
<1>3. Event' = Event /\ Steps' = Steps
  BY StaysTyped
<1> QED BY <1>1, <1>2, <1>3 DEF Typed, EventsTyped

LEMMA InitTyped == Init => Typed
<1> SUFFICES ASSUME Init PROVE Typed
  OBVIOUS
<1>1. chain \in Chains /\ 1 \in Steps /\ Rest \in Calls
  BY Shape DEF Init, Rest, Calls, Places
<1>2. [Rest EXCEPT !.at = "loop"] \in Calls
  BY <1>1 DEF Calls, Places
<1>3. CallsTyped
  BY <1>1, <1>2 DEF Init, CallsTyped, Executing, Rest
<1>4. EventsTyped
  <2>1. events = <<>> /\ <<>> \in Seq(Event) /\ Len(<<>>) = 0
    BY EmptySeq DEF Init
  <2> QED BY <2>1 DEF EventsTyped, Queued
<1>5. StateTyped
  BY <1>1 DEF Init, StateTyped
<1> QED BY <1>1, <1>3, <1>4, <1>5 DEF Typed

LEMMA CheckTyped ==
    ASSUME Typed, NEW t \in Threads, Check(t)
    PROVE  Typed'
<1>1. chain' = chain /\ Steps' = Steps
  BY DEF Check, Steps
<1>2. CallsTyped'
  <2>1. \/ Return(t, "failed") \/ Return(t, "complete")
        \/ current # 0 /\ Goto(t, "work", current)
    BY DEF Check
  <2>2. "work" \in Places /\ "work" \in Executing
    BY DEF Places, Executing
  <2> QED BY <1>1, <2>1, <2>2, GoesTyped, ReturnsTyped DEF Typed, StateTyped
<1>3. EventsTyped'
  <2>1. \/ events' = events
        \/ events' = Append(events, Say("input", current))
        \/ current # 0 /\ events' = Append(events, Say("process", current))
    BY DEF Check, AskFor, Publish
  <2> QED BY <1>1, <2>1, SaysTyped, StaysTyped DEF Typed, StateTyped
<1>4. StateTyped'
  BY <1>1, Shape DEF Typed, StateTyped, Check, AskFor
<1> QED BY <1>1, <1>2, <1>3, <1>4 DEF Typed

LEMMA WorkTyped ==
    ASSUME Typed, NEW t \in Threads, Work(t)
    PROVE  Typed'
<1> DEFINE s == call[t].step
<1>1. chain' = chain /\ Steps' = Steps /\ s \in Steps /\ After(s) \in Steps \cup {0}
  BY Shape DEF Work, Steps, Typed, CallsTyped, Executing
<1>2. CallsTyped'
  <2>1. Return(t, "failed") \/ Return(t, "complete") \/ Return(t, "ok") \/ Goto(t, "advance", 0)
    BY DEF Work
  <2>2. "advance" \in Places /\ "advance" \notin Executing
    BY DEF Places, Executing
  <2> QED BY <1>1, <2>1, <2>2, GoesTyped, ReturnsTyped
<1>3. EventsTyped'
  <2>1. \/ events' = events
        \/ \E kind \in {"prompt", "review", "inputDone"} : events' = Append(events, Say(kind, s))
        \/ events' = Append(events, Say("input", After(s)))
        \/ events' = Append(Append(events, Say("inputDone", s)), Say("input", After(s)))
    BY DEF Work, RequestReview, Publish
  <2>2. CASE events' = Append(Append(events, Say("inputDone", s)), Say("input", After(s)))
    <3>1. /\ Say("inputDone", s) \in Event /\ Say("inputDone", s).kind = "inputDone"
          /\ Say("input", After(s)) \in Event /\ Say("input", After(s)).kind = "input"
      BY <1>1, Events
    <3>2. events' \in Seq(Event) /\ Queued' = Queued \cup {Say("inputDone", s), Say("input", After(s))}
      BY <2>2, <3>1, SaysTwo DEF Typed, EventsTyped
    <3> QED BY <1>1, <3>1, <3>2, StaysTyped DEF Typed, EventsTyped
  <2> QED BY <1>1, <2>1, <2>2, SaysTyped, StaysTyped
<1>4. StateTyped'
  <2>1. Done(s) => /\ runs' \in [Steps -> Nat] /\ have' \subseteq Steps
    BY <1>1 DEF Done, Typed, StateTyped
  <2> QED BY <1>1, <2>1 DEF Typed, StateTyped, Work, RequestReview, Breaks
<1> QED BY <1>1, <1>2, <1>3, <1>4 DEF Typed

LEMMA AdvanceTyped ==
    ASSUME Typed, NEW t \in Threads, Advance(t) \/ AdvanceStep(t)
    PROVE  Typed'
<1> DEFINE s == call[t].step
<1>1. chain' = chain /\ Steps' = Steps
  BY DEF Advance, AdvanceStep, Steps
<1>2. AdvanceStep(t) => s \in Steps /\ After(s) \in Steps \cup {0}
  BY Shape DEF AdvanceStep, Typed, CallsTyped, Executing
<1>3. CallsTyped'
  <2>1. \/ Return(t, "ok") \/ Return(t, "failed") \/ Return(t, "complete")
        \/ Goto(t, "advance", 0)
        \/ current # 0 /\ Goto(t, "step", current)
    BY DEF Advance, AdvanceStep
  <2>2. "advance" \in Places /\ "advance" \notin Executing /\ "step" \in Places
    BY DEF Places, Executing
  <2> QED BY <1>1, <2>1, <2>2, GoesTyped, ReturnsTyped DEF Typed, StateTyped
<1>4. EventsTyped'
  <2>1. \/ events' = events
        \/ events' = Append(events, Say("input", current))
        \/ current # 0 /\ events' = Append(events, Say("process", current))
    BY DEF Advance, AdvanceStep, AskFor, Publish
  <2> QED BY <1>1, <2>1, SaysTyped, StaysTyped DEF Typed, StateTyped
<1>5. StateTyped'
  <2>1. CASE Advance(t)
    BY <1>1, <2>1 DEF Typed, StateTyped, Advance, AskFor
  <2>2. CASE AdvanceStep(t)
    <3>1. Done(s) => /\ runs' \in [Steps -> Nat] /\ have' \subseteq Steps
      BY <1>2, <2>2 DEF Done, Typed, StateTyped
    <3> QED BY <1>1, <1>2, <2>2, <3>1 DEF Typed, StateTyped, AdvanceStep, Breaks
  <2> QED BY <2>1, <2>2
<1> QED BY <1>1, <1>3, <1>4, <1>5 DEF Typed

LEMMA StartTyped ==
    ASSUME Typed, StartLoop \/ StartBack
    PROVE  Typed'
<1>1. chain' = chain /\ Steps' = Steps /\ "start" \in Threads /\ "background" \in Threads
  BY DEF StartLoop, StartBack, Steps, Threads
<1>2. CallsTyped'
  <2>1. /\ [Rest EXCEPT !.at = "loop"] \in Calls /\ [Rest EXCEPT !.at = "begin"] \in Calls
        /\ [Rest EXCEPT !.at = "loop"].at \notin Executing
        /\ [Rest EXCEPT !.at = "begin"].at \notin Executing
        /\ Rest \in Calls /\ Rest.at \notin Executing
    BY DEF Calls, Places, Rest, Executing
  <2>2. current \in Nat
    BY Shape DEF Typed, StateTyped
  <2>3. /\ [Rest EXCEPT !.at = "check", !.began = current] \in Calls
        /\ [Rest EXCEPT !.at = "check", !.began = current].at \notin Executing
    BY <2>2 DEF Calls, Places, Rest, Executing
  <2>4. CASE Stop("start")
    BY <1>1, <2>4, StopsTyped
  <2>5. CASE call' = [call EXCEPT !["start"] = [Rest EXCEPT !.at = "check", !.began = current]]
    BY <1>1, <2>3, <2>5 DEF Typed, CallsTyped
  <2>6. CASE StartBack
    <3>1. /\ call'["start"] \in {Rest, [Rest EXCEPT !.at = "loop"]}
          /\ call'["background"] \in {[Rest EXCEPT !.at = "begin"], call["background"]}
          /\ DOMAIN call' = Threads
          /\ \A u \in Threads \ {"start", "background"} : call'[u] = call[u]
          /\ call' = [u \in Threads |-> call'[u]]
      BY <1>1, <2>6 DEF StartBack, Typed, CallsTyped
    <3> QED BY <1>1, <2>1, <3>1 DEF Typed, CallsTyped
  <2> QED BY <2>4, <2>5, <2>6 DEF StartLoop
<1>3. EventsTyped'
  <2>1. \/ events' = events
        \/ events' = Append(events, Say("complete", 0))
        \/ events' = Append(events, Say("input", current))
    BY DEF StartLoop, StartBack, Publish
  <2> QED BY <1>1, <2>1, SaysTyped, StaysTyped DEF Typed, StateTyped
<1>4. StateTyped'
  BY <1>1 DEF Typed, StateTyped, StartLoop, StartBack
<1> QED BY <1>1, <1>2, <1>3, <1>4 DEF Typed

LEMMA OthersTyped ==
    ASSUME Typed,
           \/ BackgroundBegin \/ BackgroundReport \/ Answer \/ Resume
           \/ \E t \in {"bus", "user"} : ContinueBack(t)
    PROVE  Typed'
<1>1. chain' = chain /\ Steps' = Steps /\ {"background", "bus", "user"} \subseteq Threads
  BY DEF BackgroundBegin, BackgroundReport, Answer, Resume, ContinueBack, Steps, Threads
<1>2. CallsTyped'
  <2>1. \E t \in Threads : Stop(t) \/ Goto(t, "check", current)
    BY <1>1 DEF BackgroundBegin, BackgroundReport, Answer, Resume, ContinueBack
  <2>2. "check" \in Places /\ "check" \notin Executing
    BY DEF Places, Executing
  <2> QED BY <1>1, <2>1, <2>2, GoesTyped, StopsTyped DEF Typed, StateTyped
<1>3. EventsTyped'
  <2>1. \/ events' = events
        \/ events' = Append(events, Say("complete", 0))
        \/ \E kind \in {"prompt", "review", "failed"} : events' = Append(events, Say(kind, current))
    BY DEF BackgroundBegin, BackgroundReport, Answer, Resume, ContinueBack, Publish
  <2> QED BY <1>1, <2>1, SaysTyped, StaysTyped DEF Typed, StateTyped
<1>4. StateTyped'
  BY <1>1 DEF Typed, StateTyped, BackgroundBegin, BackgroundReport, Answer, Resume, ContinueBack
<1> QED BY <1>1, <1>2, <1>3, <1>4 DEF Typed

LEMMA BusTyped ==
    ASSUME Typed, Dispatch \/ Think \/ Approve \/ ApprovedStep
    PROVE  Typed'
<1>1. /\ chain' = chain /\ Steps' = Steps /\ "bus" \in Threads
      /\ {"think", "approve", "resume", "approved", "final"} \subseteq Places
      /\ "approve" \notin Executing /\ "resume" \notin Executing
      /\ After(current) \in Steps \cup {0} /\ 0 \notin Steps
  BY Shape DEF Dispatch, Think, Approve, ApprovedStep, Steps, Threads, Places, Executing,
     Typed, StateTyped
<1>2. CASE Dispatch
  <2>1. /\ events' \in Seq(Event) /\ Queued' \subseteq Queued
        /\ Head(events) \in Event /\ Head(events) \in Queued
    BY <1>2, Taken DEF Dispatch, Typed, EventsTyped
  <2>2. EventsTyped'
    BY <1>1, <2>1, StaysTyped DEF Typed, EventsTyped
  <2>3. CallsTyped'
    <3>1. \/ Head(events).kind = "process" /\ Goto("bus", "think", Head(events).step)
          \/ Goto("bus", "approve", 0)
          \/ call' = call
      BY <1>2 DEF Dispatch
    <3> QED BY <1>1, <2>1, <3>1, GoesTyped, StaysTyped DEF Typed, EventsTyped
  <2>4. StateTyped'
    BY <1>1, <1>2, <2>1 DEF Dispatch, Typed, StateTyped, EventsTyped
  <2> QED BY <1>1, <2>2, <2>3, <2>4 DEF Typed
<1>3. CASE Think
  <2>1. call["bus"].step \in Steps
    BY <1>1, <1>3 DEF Think, Typed, CallsTyped, Executing
  <2>2. CallsTyped'
    <3>1. Goto("bus", "resume", 0) \/ Stop("bus")
      BY <1>3 DEF Think
    <3> QED BY <1>1, <3>1, GoesTyped, StopsTyped
  <2>3. StateTyped' /\ EventsTyped'
    BY <1>1, <1>3, <2>1, StaysTyped DEF Think, Typed, StateTyped
  <2> QED BY <1>1, <2>2, <2>3 DEF Typed
<1>4. CASE Approve
  <2>1. CallsTyped'
    <3>1. \/ Stop("bus")
          \/ After(current) # 0 /\ Goto("bus", "approved", After(current))
          \/ current # 0 /\ Goto("bus", "final", current)
      BY <1>4 DEF Approve
    <3> QED BY <1>1, <3>1, GoesTyped, StopsTyped DEF Typed, StateTyped
  <2>2. EventsTyped'
    <3>1. events' = events \/ events' = Append(events, Say("complete", 0))
      BY <1>4 DEF Approve, Publish
    <3> QED BY <1>1, <3>1, SaysTyped, StaysTyped
  <2>3. StateTyped'
    BY <1>1, <1>4 DEF Approve, Typed, StateTyped
  <2> QED BY <1>1, <2>1, <2>2, <2>3 DEF Typed
<1>5. CASE ApprovedStep
  <2> DEFINE s == call["bus"].step
  <2>1. s \in Steps
    BY <1>1, <1>5 DEF ApprovedStep, Typed, CallsTyped, Executing
  <2>2. CallsTyped'
    BY <1>1, <1>5, StopsTyped DEF ApprovedStep
  <2>3. EventsTyped'
    <3>1. \/ events' = events
          \/ events' = Append(events, Say("complete", 0))
          \/ \E kind \in {"prompt", "review", "process"} : events' = Append(events, Say(kind, s))
      BY <1>5 DEF ApprovedStep, RequestReview, Publish
    <3> QED BY <1>1, <2>1, <3>1, SaysTyped, StaysTyped
  <2>4. StateTyped'
    <3>1. Done(s) => /\ runs' \in [Steps -> Nat] /\ have' \subseteq Steps
      BY <2>1 DEF Done, Typed, StateTyped
    <3> QED BY <1>1, <1>5, <2>1, <3>1 DEF ApprovedStep, RequestReview, Breaks, Typed, StateTyped
  <2> QED BY <1>1, <2>2, <2>3, <2>4 DEF Typed
<1> QED BY <1>2, <1>3, <1>4, <1>5

LEMMA TypedStep == Typed /\ [Next]_vars => Typed'
<1> SUFFICES ASSUME Typed, [Next]_vars PROVE Typed'
  OBVIOUS
<1>1. CASE UNCHANGED vars
  <2>1. /\ chain' = chain /\ call' = call /\ events' = events /\ have' = have
        /\ current' = current /\ asked' = asked /\ awaiting' = awaiting /\ alive' = alive
        /\ prompted' = prompted /\ runs' = runs /\ seen' = seen /\ told' = told
    BY <1>1 DEF vars
  <2> QED BY <2>1, StaysTyped DEF Typed, StateTyped
<1>2. ASSUME NEW t \in Threads, ProcessInput(t) PROVE Typed'
  BY <1>2, CheckTyped, WorkTyped, AdvanceTyped DEF ProcessInput
<1>3. CASE Next
  <2>1. /\ StartStep => StartLoop \/ StartBack \/ ProcessInput("start")
        /\ BackgroundStep => BackgroundBegin \/ BackgroundReport \/ ProcessInput("background")
        /\ BusStep => \/ Dispatch \/ Think \/ Approve \/ ApprovedStep
                      \/ Resume \/ ProcessInput("bus") \/ ContinueBack("bus")
        /\ UserStep => ProcessInput("user") \/ ContinueBack("user")
        /\ {"start", "background", "bus", "user"} \subseteq Threads
    BY DEF StartStep, BackgroundStep, BusStep, UserStep, Threads
  <2> QED BY <1>2, <1>3, <2>1, StartTyped, OthersTyped, BusTyped DEF Next
<1> QED BY <1>1, <1>3

\* Every variable has its type, whatever the workflows' chains, the faults and
\* the order in which the four threads call the engine.
THEOREM TypeCorrect == Spec => []TypeOK
<1>1. Typed => TypeOK
  BY DEF Typed, StateTyped, CallsTyped, EventsTyped, Event, TypeOK
<1> QED BY <1>1, InitTyped, TypedStep, PTL DEF Spec

-----------------------------------------------------------------------------
(* Completion is true.                                                     *)

LastRun == runs[Len(chain)] > 0

\* Who has the workflow for completed: the session, a call, an event; and what
\* an approval executes as the final step is the last one.
Finished ==
    /\ current = 0 => LastRun
    /\ \A t \in Threads : call[t].result = "complete" => LastRun
    /\ \A e \in Queued : e.kind = "complete" => LastRun
    /\ call["bus"].at = "final" => call["bus"].step = Len(chain)

\* What a step does to the number of runs.
LEMMA RunsGrow ==
    ASSUME Typed, NEW s \in Steps, Done(s)
    PROVE  /\ \A p \in Steps : runs'[p] >= runs[p]
           /\ runs'[s] > 0
           /\ have \subseteq have'
           /\ runs' \in [Steps -> Nat]
BY DEF Done, Typed, StateTyped

LEMMA LastRunStays ==
    ASSUME Typed, chain' = chain,
           runs' = runs \/ \E s \in Steps : Done(s)
    PROVE  LastRun => LastRun'
<1>1. Len(chain) \in Steps /\ runs \in [Steps -> Nat]
  BY Shape DEF Typed, StateTyped
<1>2. CASE runs' = runs
  BY <1>2 DEF LastRun
<1>3. ASSUME NEW s \in Steps, Done(s) PROVE LastRun => LastRun'
  <2>1. runs'[Len(chain)] >= runs[Len(chain)] /\ runs' \in [Steps -> Nat]
    BY <1>1, <1>3, RunsGrow
  <2> QED BY <1>1, <2>1 DEF LastRun
<1> QED BY <1>2, <1>3

\* The four parts, one by one.
LEMMA FinishedAfter ==
    ASSUME Typed, Typed', Finished, chain' = chain,
           runs' = runs \/ \E s \in Steps : Done(s),
           current' = 0 => current = 0 \/ LastRun',
           \A t \in Threads : call'[t].result = "complete" =>
              call[t].result = "complete" \/ LastRun',
           \A e \in Queued' : e.kind = "complete" => e \in Queued \/ LastRun',
           call'["bus"].at = "final" => call'["bus"].step = Len(chain)
    PROVE  Finished'
BY LastRunStays DEF Finished

\* An event said is the only new one.
LEMMA Adds ==
    ASSUME Typed,
           NEW kind \in {"input", "inputDone", "process", "review", "prompt",
                         "complete", "failed"},
           NEW s \in Steps \cup {0}, events' = Append(events, Say(kind, s))
    PROVE  \A e \in Queued' : e \in Queued \/ (e.kind = kind /\ e.step = s)
<1>1. Say(kind, s) \in Event /\ Say(kind, s).kind = kind /\ Say(kind, s).step = s
  BY Events
<1> QED BY <1>1, Says DEF Typed, EventsTyped

LEMMA ProcessFinished ==
    ASSUME Typed, Typed', Finished, NEW t \in Threads, ProcessInput(t), ~broken'
    PROVE  Finished'
<1> DEFINE s == call[t].step
<1>0. chain' = chain /\ call \in [Threads -> Calls] /\ Len(chain) \in Steps /\ "bus" \in Threads
  BY Shape DEF ProcessInput, Check, Work, Advance, AdvanceStep, Typed, CallsTyped, Threads
<1>1. /\ Work(t) \/ AdvanceStep(t) => s \in Steps
      /\ \A n \in Steps : (chain[n] = "last" <=> n = Len(chain)) /\ (n # Len(chain) => After(n) # 0)
  BY Shape DEF Work, AdvanceStep, Typed, CallsTyped, Executing
<1>2. \A n \in Steps : Done(n) => runs'[n] > 0
  BY RunsGrow
<1>3. runs' = runs \/ \E n \in Steps : Done(n)
  BY <1>1 DEF ProcessInput, Check, Work, Advance, AdvanceStep
<1>4. \/ current' = current
      \/ s \in Steps /\ chain[s] # "last" /\ current' = After(s)
      \/ LastRun'
  BY <1>0, <1>1, <1>2 DEF ProcessInput, Check, Work, Advance, AdvanceStep, LastRun
<1>5. \/ \E result \in {"ok", "failed"} : Return(t, result)
      \/ Return(t, "complete") /\ (current = 0 \/ LastRun')
      \/ \E at \in Places, n \in Steps \cup {0} : at # "final" /\ Goto(t, at, n)
  <2>1. CASE Check(t)
    BY <2>1 DEF Check, Places, Typed, StateTyped
  <2>2. CASE Work(t)
    BY <1>0, <1>1, <1>2, <2>2 DEF Work, Places, LastRun
  <2>3. CASE Advance(t)
    BY <2>3 DEF Advance, Places, Typed, StateTyped
  <2>4. CASE AdvanceStep(t)
    BY <1>0, <1>1, <1>2, <2>4 DEF AdvanceStep, Places, LastRun
  <2> QED BY <2>1, <2>2, <2>3, <2>4 DEF ProcessInput
<1>6. /\ \A u \in Threads : call'[u].result = "complete" =>
            call[u].result = "complete" \/ LastRun' \/ current = 0
      /\ call'["bus"].at = "final" => call'["bus"] = call["bus"]
  <2>1. \A n \in Steps \cup {0} : n \in Nat
    BY Shape DEF Typed
  <2>2. ASSUME NEW at \in Places, NEW n \in Steps \cup {0}, at # "final", Goto(t, at, n)
        PROVE  /\ call'[t].result = call[t].result /\ call'[t].at # "final"
               /\ \A u \in Threads \ {t} : call'[u] = call[u]
    BY <1>0, <2>1, <2>2, CallGoes
  <2>3. ASSUME NEW result \in {"ok", "failed", "complete"}, Return(t, result)
        PROVE  /\ call'[t].result = result /\ call'[t].at # "final"
               /\ \A u \in Threads \ {t} : call'[u] = call[u]
    BY <1>0, <2>3, CallReturns
  <2> QED BY <1>0, <1>5, <2>2, <2>3
<1>7. \A e \in Queued' : e.kind = "complete" => e \in Queued
  <2>1. \/ events' = events
        \/ \E kind \in {"input", "process", "review", "prompt", "inputDone"},
              n \in Steps \cup {0} : events' = Append(events, Say(kind, n))
        \/ Work(t) /\ events' = Append(Append(events, Say("inputDone", s)), Say("input", After(s)))
    <3>1. CASE Check(t)
      BY <3>1 DEF Check, AskFor, Publish, Typed, StateTyped
    <3>2. CASE Work(t)
      <4>1. After(s) \in Steps \cup {0}
        BY <1>1, <3>2, Shape DEF Typed
      <4> QED BY <1>1, <3>2, <4>1 DEF Work, RequestReview, Publish
    <3>3. CASE Advance(t) \/ AdvanceStep(t)
      BY <3>3 DEF Advance, AdvanceStep, AskFor, Publish, Typed, StateTyped
    <3> QED BY <3>1, <3>2, <3>3 DEF ProcessInput
  <2>2. CASE Work(t) /\ events' = Append(Append(events, Say("inputDone", s)), Say("input", After(s)))
    <3>1. After(s) \in Steps \cup {0}
      BY <1>1, <2>2, Shape DEF Typed
    <3>2. /\ Say("inputDone", s) \in Event /\ Say("inputDone", s).kind = "inputDone"
          /\ Say("input", After(s)) \in Event /\ Say("input", After(s)).kind = "input"
      BY <1>1, <2>2, <3>1, Events
    <3> QED BY <2>2, <3>2, SaysTwo DEF Typed, EventsTyped
  <2> QED BY <2>1, <2>2, Adds, Silent
<1>8. current' = 0 => current = 0 \/ LastRun'
  BY <1>1, <1>4
<1>9. LastRun => LastRun'
  BY <1>0, <1>3, LastRunStays
<1> QED BY <1>0, <1>3, <1>6, <1>7, <1>8, <1>9, FinishedAfter DEF Finished

LEMMA CallersFinished ==
    ASSUME Typed, Typed', Finished, ~broken',
           \/ StartLoop \/ StartBack \/ BackgroundBegin \/ BackgroundReport \/ Answer \/ Resume
           \/ \E t \in {"bus", "user"} : ContinueBack(t)
    PROVE  Finished'
<1>1. /\ chain' = chain /\ runs' = runs /\ current' = current
      /\ {"start", "background", "bus", "user"} \subseteq Threads
      /\ call \in [Threads -> Calls] /\ (current \in Steps \cup {0}) /\ current \in Nat
  BY Shape DEF StartLoop, StartBack, BackgroundBegin, BackgroundReport, Answer, Resume,
     ContinueBack, Threads, Typed, StateTyped, CallsTyped
<1>2. LastRun' <=> LastRun
  BY <1>1 DEF LastRun
<1>3. /\ \A u \in Threads : call'[u].result = "complete" => call[u].result = "complete"
      /\ call'["bus"].at = "final" => call'["bus"] = call["bus"]
  <2>1. CASE StartLoop \/ StartBack
    <3>1. Stop("start") => /\ call'["start"] = Rest
                           /\ \A u \in Threads \ {"start"} : call'[u] = call[u]
      BY <1>1, CallStops
    <3>2. /\ DOMAIN call = Threads /\ "bus" # "start" /\ "bus" # "background"
          /\ Rest.result = "none" /\ [Rest EXCEPT !.at = "loop"].result = "none"
          /\ [Rest EXCEPT !.at = "begin"].result = "none"
          /\ [Rest EXCEPT !.at = "check", !.began = current].result = "none"
      BY <1>1 DEF Rest
    <3>3. CASE StartLoop
      BY <1>1, <3>1, <3>2, <3>3 DEF StartLoop
    <3>4. CASE StartBack
      <4>1. /\ call'["start"] \in {Rest, [Rest EXCEPT !.at = "loop"]}
            /\ call'["background"] \in {[Rest EXCEPT !.at = "begin"], call["background"]}
            /\ \A u \in Threads \ {"start", "background"} : call'[u] = call[u]
        BY <1>1, <3>4 DEF StartBack
      <4> QED BY <1>1, <3>2, <4>1
    <3> QED BY <2>1, <3>3, <3>4
  <2>2. CASE \E t \in {"background", "bus", "user"} : Stop(t) \/ Goto(t, "check", current)
    <3>1. "check" \in Places
      BY DEF Places
    <3> QED BY <1>1, <2>2, <3>1, CallStops, CallGoes DEF Rest
  <2> QED BY <2>1, <2>2 DEF BackgroundBegin, BackgroundReport, Answer, Resume, ContinueBack
<1>4. \A e \in Queued' : e.kind = "complete" => e \in Queued \/ LastRun
  <2>1. \/ events' = events
        \/ LastRun /\ events' = Append(events, Say("complete", 0))
        \/ \E kind \in {"input", "prompt", "review", "failed"} :
              events' = Append(events, Say(kind, current))
    BY <1>1 DEF StartLoop, StartBack, BackgroundBegin, BackgroundReport, Answer, Resume,
       ContinueBack, Publish, Finished
  <2> QED BY <1>1, <2>1, Adds, Silent
<1>5. call["bus"].at = "final" => call["bus"].step = Len(chain)
  BY DEF Finished
<1> QED BY <1>1, <1>2, <1>3, <1>4, <1>5, FinishedAfter

LEMMA BusFinished ==
    ASSUME Typed, Typed', Finished, ~broken', Dispatch \/ Think \/ Approve \/ ApprovedStep
    PROVE  Finished'
<1>0. chain' = chain /\ chain \in Chains /\ call \in [Threads -> Calls] /\ current \in Steps \cup {0}
  BY DEF Dispatch, Think, Approve, ApprovedStep, Typed, StateTyped, CallsTyped
<1>1. /\ chain' = chain /\ "bus" \in Threads /\ call \in [Threads -> Calls]
      /\ {"think", "approve", "resume", "approved", "final"} \subseteq Places
      /\ current \in Steps \cup {0} /\ Len(chain) \in Steps
      /\ \A n \in Steps \cup {0} : n \in Nat
      /\ \A n \in Steps : (After(n) = 0 <=> n = Len(chain)) /\ (chain[n] = "last" <=> n = Len(chain))
      /\ After(current) \in Steps \cup {0}
  <2>1. "bus" \in Threads /\ {"think", "approve", "resume", "approved", "final"} \subseteq Places
    BY DEF Threads, Places
  <2>2. \A n \in Steps : n + 1 # 0
    BY <1>0, Shape
  <2>3. \A n \in Steps : (After(n) = 0 <=> n = Len(chain)) /\ (chain[n] = "last" <=> n = Len(chain))
    BY <1>0, <2>2, Shape
  <2> QED BY <1>0, <2>1, <2>3, Shape
<1>2. CASE Dispatch
  <2>1. Head(events) \in Event /\ Head(events) \in Queued /\ Queued' \subseteq Queued
    BY <1>2, Taken DEF Dispatch, Typed, EventsTyped
  <2>2. Head(events).step \in Nat
    BY <1>1, <2>1 DEF Event
  <2>3. \/ call' = call \/ Goto("bus", "think", Head(events).step) \/ Goto("bus", "approve", 0)
    BY <1>2 DEF Dispatch
  <2>4. /\ \A u \in Threads : call'[u].result = call[u].result
        /\ call'["bus"].at = "final" => call'["bus"] = call["bus"]
    BY <1>1, <2>2, <2>3, CallGoes
  <2>5. runs' = runs /\ current' = current
    BY <1>2 DEF Dispatch
  <2>6. call["bus"].at = "final" => call["bus"].step = Len(chain)
    BY DEF Finished
  <2> QED BY <1>1, <2>1, <2>4, <2>5, <2>6, FinishedAfter
<1>3. CASE Think
  <2>1. runs' = runs /\ current' = current /\ events' = events /\ Goto("bus", "resume", 0)
    BY <1>3 DEF Think
  <2>2. /\ \A u \in Threads : call'[u].result = call[u].result
        /\ call'["bus"].at # "final"
    BY <1>1, <2>1, CallGoes
  <2> QED BY <1>1, <2>1, <2>2, Silent, FinishedAfter
<1>4. CASE Approve
  <2>1. /\ runs' = runs
        /\ current' = 0 => current = 0
    BY <1>4 DEF Approve
  <2>2. \/ Stop("bus") \/ Goto("bus", "approved", After(current))
        \/ current = Len(chain) /\ Goto("bus", "final", current)
    BY <1>1, <1>4 DEF Approve
  <2>3. /\ \A u \in Threads : call'[u].result = "complete" => call[u].result = "complete"
        /\ call'["bus"].at = "final" => call'["bus"].step = Len(chain)
    BY <1>1, <2>2, CallStops, CallGoes DEF Rest
  <2>4. LastRun' <=> LastRun
    BY <1>1, <2>1 DEF LastRun
  <2>5. events' = events \/ (LastRun /\ events' = Append(events, Say("complete", 0)))
    BY <1>4 DEF Approve, Publish, Finished
  <2>6. \A e \in Queued' : e.kind = "complete" => e \in Queued \/ LastRun'
    BY <2>4, <2>5, Adds, Silent
  <2> QED BY <1>1, <2>1, <2>3, <2>6, FinishedAfter
<1>5. CASE ApprovedStep
  <2> DEFINE s == call["bus"].step
  <2>1. s \in Steps /\ (call["bus"].at = "final" => s = Len(chain))
    BY <1>1, <1>5 DEF ApprovedStep, Typed, CallsTyped, Executing, Finished
  <2>2. runs' = runs \/ Done(s)
    BY <1>5 DEF ApprovedStep
  <2>3. chain[s] = "last" => Done(s) /\ LastRun'
    <3>1. chain[s] = "last" => ~(Fails(s) /\ Breaks(s))
      BY DEF Breaks, Asks
    <3>2. Done(s) => runs'[s] > 0
      BY <2>1, RunsGrow
    <3> QED BY <1>1, <1>5, <2>1, <3>1, <3>2 DEF ApprovedStep, LastRun
  <2>4. current' = 0 => current = 0 \/ LastRun'
    BY <1>1, <1>5, <2>1, <2>3 DEF ApprovedStep
  <2>5. /\ \A u \in Threads : call'[u].result = "complete" => call[u].result = "complete"
        /\ call'["bus"].at # "final"
    BY <1>1, <1>5, CallStops DEF ApprovedStep, Rest
  <2>6. \A e \in Queued' : e.kind = "complete" => e \in Queued \/ LastRun'
    <3>1. \/ events' = events
          \/ LastRun' /\ events' = Append(events, Say("complete", 0))
          \/ \E kind \in {"prompt", "review", "process"} : events' = Append(events, Say(kind, s))
      BY <1>5, <2>3 DEF ApprovedStep, RequestReview, Publish
    <3> QED BY <2>1, <3>1, Adds, Silent
  <2> QED BY <1>1, <2>1, <2>2, <2>4, <2>5, <2>6, FinishedAfter
<1> QED BY <1>2, <1>3, <1>4, <1>5

\* Nothing has to be said of a workflow that is broken.
FinishedUnlessBroken == ~broken => Finished

LEMMA InitFinished == Init => Finished
<1> SUFFICES ASSUME Init PROVE Finished
  OBVIOUS
<1>1. current # 0 /\ Queued = {}
  <2>1. events = <<>> /\ Len(<<>>) = 0
    BY EmptySeq DEF Init
  <2> QED BY <2>1 DEF Init, Queued
<1>2. "bus" \in Threads /\ \A t \in Threads : call[t].result = "none" /\ call[t].at # "final"
  BY DEF Init, Rest, Threads
<1> QED BY <1>1, <1>2 DEF Finished

\* A workflow that is broken stays so.
LEMMA BrokenStays == Next /\ ~broken' => ~broken
<1> SUFFICES ASSUME Next, ~broken' PROVE ~broken
  OBVIOUS
<1>1. ASSUME NEW t \in Threads, ProcessInput(t) PROVE ~broken
  BY <1>1 DEF ProcessInput, Check, Work, Advance, AdvanceStep, Breaks, Done
<1>2. ASSUME \/ StartLoop \/ StartBack \/ BackgroundBegin \/ BackgroundReport
             \/ Answer \/ Resume \/ Dispatch \/ Think \/ Approve \/ ApprovedStep
             \/ \E t \in {"bus", "user"} : ContinueBack(t)
      PROVE ~broken
  BY <1>2 DEF StartLoop, StartBack, BackgroundBegin, BackgroundReport, Answer, Resume,
     Dispatch, Think, Approve, ApprovedStep, ContinueBack, RequestReview, Breaks, Done
<1> QED BY <1>1, <1>2 DEF Next, StartStep, BackgroundStep, BusStep, UserStep, Threads

LEMMA FinishedStep == Typed /\ Typed' /\ FinishedUnlessBroken /\ [Next]_vars => FinishedUnlessBroken'
<1> SUFFICES ASSUME Typed, Typed', FinishedUnlessBroken, [Next]_vars, ~broken'
             PROVE  Finished'
  BY DEF FinishedUnlessBroken
<1>1. CASE UNCHANGED vars
  <2>1. /\ chain' = chain /\ call' = call /\ events' = events /\ current' = current
        /\ runs' = runs /\ broken' = broken
    BY <1>1 DEF vars
  <2> QED BY <2>1, Silent DEF FinishedUnlessBroken, Finished, LastRun
<1>2. CASE Next
  <2>1. /\ StartStep => StartLoop \/ StartBack \/ ProcessInput("start")
        /\ BackgroundStep => BackgroundBegin \/ BackgroundReport \/ ProcessInput("background")
        /\ BusStep => \/ Dispatch \/ Think \/ Approve \/ ApprovedStep
                      \/ Resume \/ ProcessInput("bus") \/ ContinueBack("bus")
        /\ UserStep => ProcessInput("user") \/ ContinueBack("user")
        /\ {"start", "background", "bus", "user"} \subseteq Threads
    BY DEF StartStep, BackgroundStep, BusStep, UserStep, Threads
  <2>2. ~broken
    BY <1>2, BrokenStays
  <2>3. Finished
    BY <2>2 DEF FinishedUnlessBroken
  <2> QED BY <1>2, <2>1, <2>3, ProcessFinished, CallersFinished, BusFinished DEF Next
<1> QED BY <1>1, <1>2

\* The LLM hears of a completed workflow only when its last step has run, for
\* every chain and every interleaving, while no step has failed.
THEOREM CompletionIsTrue == Spec => []CompleteMeansDone
<1>1. Typed /\ FinishedUnlessBroken => CompleteMeansDone
  <2>1. Typed => DOMAIN events = 1..Len(events)
    BY LenProperties DEF Typed, EventsTyped
  <2> QED BY <2>1 DEF FinishedUnlessBroken, Finished, LastRun, Queued, CompleteMeansDone
<1>2. Init => Typed /\ FinishedUnlessBroken
  BY InitTyped, InitFinished DEF FinishedUnlessBroken
<1>3. Typed /\ FinishedUnlessBroken /\ [Next]_vars => (Typed /\ FinishedUnlessBroken)'
  BY TypedStep, FinishedStep
<1> QED BY <1>1, <1>2, <1>3, PTL DEF Spec

-----------------------------------------------------------------------------
(* No step is skipped.                                                     *)
(*                                                                         *)
(* Approve goes to the step after the current one, and a thread may carry  *)
(* a step that is not current any more: for some chains, such as one with  *)
(* two works in front, a step is skipped without any failure.  In a chain  *)
(* of the following shape, and all the repository's own have it, nothing   *)
(* is ever approved, because only a review of a "work" is waiting for it.  *)

\* No work comes first, and after an "llm" there are only asks and the end.
Simple(c) ==
    /\ c[1] # "work"
    /\ \A i, j \in DOMAIN c : i < j /\ c[i] = "llm" => c[j] \in {"ask", "last"}

\* Three phases: before the "llm" step one thread drives the workflow; at it
\* the result is awaited; after it several threads may run steps.
Beyond(s) == s # 0 /\ \E p \in 1..s : chain[p] = "llm"
Plain == current # 0 /\ ~Beyond(current)
Computing == current # 0 /\ chain[current] = "llm" /\ current \notin have

Drivers == {"start", "user"}
Resting(t) == call[t].at = "rest"

Reached(s) == \A p \in 1..(s - 1) : runs[p] > 0 \/ p \in have
Ran == Reached(current) /\ \A s \in Steps : runs[s] > 0 => Reached(s)

\* Whoever executes a step has come to it in order, and runs a "work" only
\* on the way, where nothing is reviewed.
Stepping == \A t \in Threads : call[t].at \in {"work", "step"} =>
    /\ Reached(call[t].step)
    /\ call[t].at = "work" => chain[call[t].step] # "work"
    /\ Plain => call[t].step = current /\ t \in Drivers
    /\ ~Plain => Beyond(call[t].step) /\ ~awaiting /\ ~Computing

\* One driver: the start or the user's answer.
StartOver == ~Resting("user") => Resting("start")
Alone == Plain =>
    /\ Resting("bus") /\ Resting("background") /\ ~awaiting
    /\ chain[current] = "work" => \E t \in Drivers : call[t].at \in {"advance", "step"}
    /\ call["start"].at \in {"advance", "step", "back"} => call["start"].began < current
    /\ call["start"].at \in {"check", "work"} => call["start"].began = current
    /\ call["start"].at \in {"check", "work", "step"} => ~MustAsk(current)
    /\ \A e \in Queued : e.kind # "process"

\* While a result is awaited nobody runs a step.
Waits == Computing =>
    /\ call["bus"].at \in {"rest", "think"}
    /\ call["start"].at = "advance" => call["start"].began < current
    /\ (\E t \in Threads : call[t].at = "advance") =>
          /\ Resting("background") /\ Resting("bus") /\ ~awaiting
          /\ \A e \in Queued : e.kind # "process"

\* A review under way is that of the "llm" step, and nobody advances under it.
Advancing == ~Plain /\ ~Computing => \A t \in Threads : call[t].at = "advance" => ~awaiting
Awaits == awaiting =>
    /\ current # 0 /\ chain[current] = "llm"
    /\ Resting("background") /\ call["start"].at \in {"rest", "back", "loop"}
    /\ call["start"].at = "back" => call["start"].began < current

\* Nothing is approved, and what is computed is the "llm" step.
Results ==
    /\ \A e \in Queued : /\ e.kind # "review"
                         /\ e.kind = "process" => chain[e.step] = "llm"
    /\ call["bus"].at \notin {"approve", "approved", "final"}
    /\ call["bus"].at = "think" => chain[call["bus"].step] = "llm"

InOrder == Ran /\ Stepping /\ Alone /\ Waits /\ Advancing /\ Awaits /\ Results

\* What the shape says of steps before, at and behind the "llm" step.
LEMMA SimpleShape ==
    ASSUME chain \in Chains, Simple(chain)
    PROVE  /\ chain[1] # "work" /\ ~Beyond(0)
           /\ \A s \in Steps :
                 /\ chain[s] = "llm" => Beyond(s)
                 /\ Beyond(s) => chain[s] # "work"
                 /\ Beyond(s) /\ After(s) # 0 => Beyond(After(s)) /\ chain[After(s)] # "llm"
                 /\ ~Beyond(s) /\ Beyond(After(s)) => chain[After(s)] = "llm"
                 /\ After(s) # 0 => After(s) = s + 1
           /\ \A s, p \in Steps : chain[s] = "llm" /\ chain[p] = "llm" => s = p
<1> DEFINE n == Len(chain)
<1>1. /\ Steps = 1..n /\ n \in Nat
      /\ \A s \in Steps : s \in Nat /\ After(s) = IF s = n THEN 0 ELSE s + 1
  BY Shape
<1>2. \A i, j \in Steps : i < j /\ chain[i] = "llm" => chain[j] \in {"ask", "last"}
  BY DEF Simple, Steps
<1> HIDE DEF n
<1>3. ASSUME NEW s \in Steps
      PROVE  /\ chain[s] = "llm" => Beyond(s)
             /\ Beyond(s) => chain[s] # "work"
  <2>1. chain[s] = "llm" => Beyond(s)
    BY <1>1 DEF Beyond
  <2>2. ASSUME Beyond(s) PROVE chain[s] # "work"
    <3>1. PICK p \in 1..s : chain[p] = "llm"
      BY <2>2 DEF Beyond
    <3>2. p \in Steps /\ (p = s \/ p < s)
      BY <1>1, <3>1
    <3> QED BY <1>2, <3>1, <3>2
  <2> QED BY <2>1, <2>2
<1>4. ASSUME NEW s \in Steps, After(s) # 0
      PROVE  /\ Beyond(s) => Beyond(After(s)) /\ chain[After(s)] # "llm"
             /\ ~Beyond(s) /\ Beyond(After(s)) => chain[After(s)] = "llm"
             /\ After(s) = s + 1
  <2>1. After(s) = s + 1 /\ s + 1 \in Steps /\ s \in Nat /\ s # 0 /\ 1..(s + 1) = (1..s) \cup {s + 1}
    BY <1>1, <1>4
  <2>2. ASSUME Beyond(s) PROVE Beyond(s + 1) /\ chain[s + 1] # "llm"
    <3>1. PICK p \in 1..s : chain[p] = "llm"
      BY <2>2 DEF Beyond
    <3>2. p \in Steps /\ p < s + 1 /\ p \in 1..(s + 1)
      BY <1>1, <2>1, <3>1
    <3>3. chain[s + 1] \in {"ask", "last"}
      BY <1>2, <2>1, <3>1, <3>2
    <3> QED BY <2>1, <3>1, <3>2, <3>3 DEF Beyond
  <2>3. ASSUME ~Beyond(s), Beyond(s + 1) PROVE chain[s + 1] = "llm"
    BY <2>1, <2>3 DEF Beyond
  <2> QED BY <2>1, <2>2, <2>3
<1>5. ASSUME NEW s \in Steps, NEW p \in Steps, chain[s] = "llm", chain[p] = "llm" PROVE s = p
  <2>1. s < p \/ p < s \/ s = p
    BY <1>1
  <2> QED BY <1>2, <1>5, <2>1
<1>6. ~Beyond(0)
  BY DEF Beyond
<1>7. chain[1] # "work"
  BY DEF Simple
<1> QED BY <1>3, <1>4, <1>5, <1>6, <1>7

\* What is done stays done.
LEMMA ReachedStays ==
    ASSUME Typed, chain' = chain, NEW s \in Steps,
           \/ runs' = runs /\ have \subseteq have'
           \/ \E d \in Steps : Done(d)
    PROVE  Reached(s) => Reached(s)'
<1>1. \A p \in 1..(s - 1) : p \in Steps
  BY Shape DEF Typed
<1>2. /\ have \subseteq have'
      /\ \A p \in Steps : runs[p] > 0 => runs'[p] > 0
  <2>1. CASE runs' = runs /\ have \subseteq have'
    BY <2>1
  <2>2. ASSUME NEW d \in Steps, Done(d)
        PROVE  have \subseteq have' /\ \A p \in Steps : runs[p] > 0 => runs'[p] > 0
    <3>1. have \subseteq have' /\ runs' \in [Steps -> Nat] /\ \A p \in Steps : runs'[p] >= runs[p]
      BY <2>2, RunsGrow
    <3>2. runs \in [Steps -> Nat]
      BY DEF Typed, StateTyped
    <3> QED BY <3>1, <3>2
  <2> QED BY <2>1, <2>2
<1> QED BY <1>1, <1>2 DEF Reached

\* The step after one that has been reached and is done now is reached.
LEMMA ReachedNext ==
    ASSUME Typed, chain' = chain, NEW s \in Steps, NEW n, n = After(s),
           Reached(s), Done(s)
    PROVE  Reached(n)' /\ Reached(s)'
<1>1. Reached(s)' /\ runs'[s] > 0
  BY RunsGrow, ReachedStays
<1>2. s \in Nat /\ (n = 0 \/ n = s + 1)
  BY Shape DEF Typed
<1>3. CASE n = 0
  BY <1>1, <1>2, <1>3 DEF Reached
<1>4. CASE n = s + 1
  <2>1. 1..((s + 1) - 1) = (1..(s - 1)) \cup {s} \/ s = 0
    BY <1>2
  <2>2. s # 0
    BY Shape DEF Typed
  <2> QED BY <1>1, <1>2, <1>4, <2>1, <2>2 DEF Reached
<1> QED BY <1>1, <1>2, <1>3, <1>4

\* Where only calls, events and the review change, the phases stay.
LEMMA PhaseStays ==
    ASSUME chain' = chain, current' = current, have' = have
    PROVE  /\ Plain' <=> Plain
           /\ Computing' <=> Computing
           /\ \A s \in Steps : Beyond(s)' <=> Beyond(s)
BY DEF Plain, Computing, Beyond

\* The steps and the phases, where neither data nor the current step change.
LEMMA OrderStays ==
    ASSUME Typed, InOrder, chain' = chain, current' = current, have' = have, runs' = runs
    PROVE  /\ Plain' <=> Plain
           /\ Computing' <=> Computing
           /\ MustAsk(current)' <=> MustAsk(current)
           /\ \A s \in Steps : (Beyond(s)' <=> Beyond(s)) /\ (Reached(s)' <=> Reached(s))
           /\ Ran' /\ Steps' = Steps
<1>1. \A s \in Steps : Reached(s)' <=> Reached(s)
  BY DEF Reached
<1>2. Reached(current)' <=> Reached(current)
  BY DEF Reached
<1>3. Steps' = Steps /\ (MustAsk(current)' <=> MustAsk(current))
  BY DEF Steps, MustAsk, Asks
<1>4. Ran'
  BY <1>1, <1>2, <1>3 DEF InOrder, Ran
<1>5. (Plain' <=> Plain) /\ (Computing' <=> Computing) /\ \A s \in Steps : Beyond(s)' <=> Beyond(s)
  BY PhaseStays
<1> QED BY <1>1, <1>3, <1>4, <1>5

\* The executing threads after a step, by the step each has then.
LEMMA SteppingAfter ==
    ASSUME Typed, Typed', chain' = chain,
           \A u \in Threads, s \in Steps :
              call'[u].at \in {"work", "step"} /\ call'[u].step = s =>
                 /\ Reached(s)'
                 /\ call'[u].at = "work" => chain[s] # "work"
                 /\ Plain' => s = current' /\ u \in Drivers
                 /\ ~Plain' => Beyond(s)' /\ ~awaiting' /\ ~Computing'
    PROVE  Stepping'
<1> SUFFICES ASSUME NEW u \in Threads, (call[u].at \in {"work", "step"})'
             PROVE  (/\ Reached(call[u].step)
                     /\ call[u].at = "work" => chain[call[u].step] # "work"
                     /\ Plain => call[u].step = current /\ u \in Drivers
                     /\ ~Plain => Beyond(call[u].step) /\ ~awaiting /\ ~Computing)'
  BY DEF Stepping
<1>1. PICK s \in Steps : s = call'[u].step
  BY DEF Typed, CallsTyped, Executing, Steps
<1>2. (Reached(s)' <=> Reached(call[u].step)') /\ (Beyond(s)' <=> Beyond(call[u].step)')
  BY <1>1 DEF Reached, Beyond
<1> QED BY <1>1, <1>2

LEMMA CheckInOrder ==
    ASSUME Typed, Typed', Simple(chain), StartOver, InOrder, NEW t \in Threads, Check(t)
    PROVE  StartOver' /\ InOrder'
<1>1. /\ chain' = chain /\ current' = current /\ have' = have /\ runs' = runs
      /\ awaiting' => awaiting
      /\ call[t].at = "check" /\ t \in {"start", "background", "bus", "user"}
  BY DEF Check, Threads
<1>2. /\ Plain' <=> Plain
      /\ Computing' <=> Computing
      /\ MustAsk(current)' <=> MustAsk(current)
      /\ \A s \in Steps : (Beyond(s)' <=> Beyond(s)) /\ (Reached(s)' <=> Reached(s))
      /\ Ran' /\ Steps' = Steps
  BY <1>1, OrderStays
<1>3. /\ call \in [Threads -> Calls] /\ current \in Nat /\ {"start", "user", "bus", "background"} \subseteq Threads
      /\ current \in Steps \cup {0} /\ awaiting \in BOOLEAN /\ "work" \in Places
  BY Shape DEF Typed, CallsTyped, StateTyped, Threads, Places
<1>4. /\ \A u \in Threads \ {t} : call'[u] = call[u]
      /\ call'[t].began = call[t].began /\ call'[t].at \in {"back", "work"}
      /\ call'[t].at = "work" =>
            /\ call'[t].step = current /\ current # 0 /\ ~Computing
            /\ t # "user" => ~MustAsk(current)
            /\ awaiting' = FALSE
  <2>1. \/ \E result \in {"failed", "complete"} : Return(t, result)
        \/ /\ Goto(t, "work", current) /\ current # 0 /\ ~Computing
           /\ t # "user" => ~MustAsk(current)
           /\ awaiting' = FALSE
    BY <1>1, <1>3 DEF Check, Computing
  <2> QED BY <1>1, <1>3, <2>1, CallReturns, CallGoes
<1>5. \A e \in Queued' : \/ e \in Queued \/ e.kind = "input"
                         \/ e.kind = "process" /\ e.step = current /\ Computing /\ ~awaiting
  <2>1. \/ events' = events
        \/ events' = Append(events, Say("input", current))
        \/ Computing /\ ~awaiting /\ events' = Append(events, Say("process", current))
    BY <1>1, <1>3 DEF Check, AskFor, Publish, Computing
  <2> QED BY <1>3, <2>1, Adds, Silent
<1>6. Plain => /\ t \in Drivers /\ chain[current] # "work" /\ ~awaiting
               /\ t = "start" => call'[t].at = "work"
  <2> SUFFICES ASSUME Plain
               PROVE  /\ t \in Drivers /\ chain[current] # "work" /\ ~awaiting
                      /\ t = "start" => call'[t].at = "work"
    OBVIOUS
  <2>1. t \in Drivers /\ ~awaiting /\ (t = "start" => ~MustAsk(current))
    BY <1>1 DEF InOrder, Alone, Resting, Drivers
  <2>2. chain[current] # "work"
    BY <1>1, <2>1 DEF InOrder, Alone, StartOver, Resting, Drivers
  <2>3. ~Computing /\ current # 0
    BY <1>3, SimpleShape DEF Plain, Computing, Typed
  <2>4. ASSUME t = "start" PROVE call'[t].at = "work"
    <3>1. Goto(t, "work", current)
      BY <1>3, <2>1, <2>3, <2>4 DEF Check, Computing
    <3> QED BY <1>3, <3>1, CallGoes
  <2> QED BY <2>1, <2>2, <2>4
<1>7. Computing => call[t].at # "advance" /\ (t # "user" \/ t # "start")
  BY <1>1
<1>8. ~Plain /\ current # 0 => Beyond(current) /\ chain[current] # "work"
  BY <1>3, SimpleShape DEF Plain, Typed
<1>9. StartOver'
  BY <1>1, <1>3, <1>4 DEF StartOver, Resting
<1>10. Stepping'
  <2> SUFFICES ASSUME NEW u \in Threads, NEW s \in Steps,
                      call'[u].at \in {"work", "step"}, call'[u].step = s
               PROVE  /\ Reached(s)
                      /\ call'[u].at = "work" => chain[s] # "work"
                      /\ Plain => s = current /\ u \in Drivers
                      /\ ~Plain => Beyond(s) /\ ~awaiting' /\ ~Computing
    BY <1>1, <1>2, SteppingAfter
  <2>1. CASE u = t
    BY <1>3, <1>4, <1>6, <1>8, <2>1 DEF InOrder, Ran
  <2>2. CASE u # t
    BY <1>1, <1>4, <2>2 DEF InOrder, Stepping
  <2> QED BY <2>1, <2>2
<1>11. Alone'
  <2> SUFFICES ASSUME Plain PROVE Alone'
    BY <1>2 DEF Alone
  <2>1. Alone /\ t \in Drivers /\ chain[current] # "work" /\ ~awaiting /\ ~Computing
    BY <1>3, <1>6, SimpleShape DEF InOrder, Plain, Computing, Typed
  <2>2. \A e \in Queued' : e.kind # "process"
    BY <1>5, <2>1 DEF Alone
  <2>3. Resting("bus")' /\ Resting("background")'
    BY <1>3, <1>4, <2>1 DEF Alone, Resting, Drivers
  <2>4. /\ call'["start"].at \in {"advance", "step", "back"} => call'["start"].began < current
        /\ call'["start"].at \in {"check", "work"} => call'["start"].began = current
        /\ call'["start"].at \in {"check", "work", "step"} => ~MustAsk(current)
    BY <1>1, <1>3, <1>4, <1>6, <2>1 DEF Alone
  <2> QED BY <1>1, <1>2, <2>1, <2>2, <2>3, <2>4 DEF Alone
<1>12. Waits'
  <2> SUFFICES ASSUME Computing PROVE Waits'
    BY <1>2 DEF Waits
  <2>1. Waits /\ call'[t].at = "back" /\ t # "bus"
    BY <1>1, <1>4 DEF InOrder, Waits
  <2>2. \A u \in Threads : call'[u].at = "advance" => call[u].at = "advance"
    BY <1>4, <2>1
  <2>3. ASSUME NEW u \in Threads, call[u].at = "advance" PROVE FALSE
    <3>1. u # t /\ u \in {"start", "user"} /\ t \in {"start", "user"}
      BY <1>1, <2>1, <2>3 DEF Waits, Resting, Threads
    <3> QED BY <1>1, <2>3, <3>1 DEF StartOver, Resting
  <2> QED BY <1>3, <1>4, <2>1, <2>2, <2>3 DEF Waits
<1>13. Advancing'
  BY <1>1, <1>2, <1>4 DEF InOrder, Advancing
<1>14. Awaits'
  <2> SUFFICES ASSUME awaiting' PROVE Awaits'
    BY DEF Awaits
  <2>1. Awaits /\ awaiting
    BY <1>1 DEF InOrder
  <2>2. t \notin {"start", "background"}
    BY <1>1, <2>1 DEF Awaits, Resting
  <2> QED BY <1>1, <1>3, <1>4, <2>1, <2>2 DEF Awaits, Resting
<1>15. Results'
  BY <1>1, <1>3, <1>4, <1>5 DEF InOrder, Results, Computing
<1> QED BY <1>2, <1>9, <1>10, <1>11, <1>12, <1>13, <1>14, <1>15 DEF InOrder

\* A thread that has executed nothing moves on: what it may not do.
LEMMA MovesInOrder ==
    ASSUME Typed, Typed', Simple(chain), InOrder, StartOver',
           chain' = chain, current' = current, have' = have, runs' = runs,
           awaiting' => awaiting,
           \A e \in Queued' : e \in Queued \/ e.kind \notin {"process", "review"},
           NEW t \in Threads, \A u \in Threads \ {t} : call'[u] = call[u],
           Plain /\ chain[current] = "work" => call[t].at \notin {"advance", "step"},
           call'[t].at \notin {"advance", "work", "step"},
           t \in {"bus", "background"} /\ Plain => call'[t].at = "rest",
           t = "background" => call[t].at # "rest" \/ call'[t].at = "rest",
           t = "start" /\ Plain =>
              \/ call'[t].at \in {"rest", "loop"}
              \/ call'[t].at = "check" /\ call'[t].began = current /\ ~MustAsk(current),
           t = "start" /\ awaiting' => call'[t].at \in {"rest", "loop"},
           t = "bus" =>
              /\ call'[t].at \notin {"approve", "approved", "final"}
              /\ call'[t].at = "think" =>
                    /\ chain[call'[t].step] = "llm"
                    /\ \E e \in Queued : e.kind = "process"
              /\ Computing => call'[t].at \in {"rest", "think"}
    PROVE  InOrder'
<1>1. /\ Plain' <=> Plain
      /\ Computing' <=> Computing
      /\ MustAsk(current)' <=> MustAsk(current)
      /\ \A s \in Steps : (Beyond(s)' <=> Beyond(s)) /\ (Reached(s)' <=> Reached(s))
      /\ Ran' /\ Steps' = Steps
  BY OrderStays
<1>2. /\ {"start", "user", "bus", "background"} \subseteq Threads
      /\ awaiting \in BOOLEAN /\ awaiting' \in BOOLEAN
  BY DEF Typed, StateTyped, Threads
<1>3. Stepping'
  <2> SUFFICES ASSUME NEW u \in Threads, NEW s \in Steps,
                      call'[u].at \in {"work", "step"}, call'[u].step = s
               PROVE  /\ Reached(s)
                      /\ call'[u].at = "work" => chain[s] # "work"
                      /\ Plain => s = current /\ u \in Drivers
                      /\ ~Plain => Beyond(s) /\ ~awaiting' /\ ~Computing
    BY <1>1, SteppingAfter
  <2> QED BY DEF InOrder, Stepping
<1>4. Alone'
  <2> SUFFICES ASSUME Plain PROVE Alone'
    BY <1>1 DEF Alone
  <2>1. Alone
    BY DEF InOrder
  <2>2. \A e \in Queued' : e.kind # "process"
    BY <2>1 DEF Alone
  <2>3. Resting("bus")' /\ Resting("background")'
    BY <1>2, <2>1 DEF Alone, Resting
  <2>4. /\ call'["start"].at \in {"advance", "step", "back"} => call'["start"].began < current
        /\ call'["start"].at \in {"check", "work"} => call'["start"].began = current
        /\ call'["start"].at \in {"check", "work", "step"} => ~MustAsk(current)
    BY <1>2, <2>1 DEF Alone
  <2>5. chain[current] = "work" => \E u \in Drivers : call'[u].at \in {"advance", "step"}
    BY <1>2, <2>1 DEF Alone, Drivers
  <2>6. ~awaiting'
    BY <2>1 DEF Alone
  <2> QED BY <1>1, <2>2, <2>3, <2>4, <2>5, <2>6 DEF Alone
<1>5. Waits'
  <2> SUFFICES ASSUME Computing PROVE Waits'
    BY <1>1 DEF Waits
  <2>1. Waits
    BY DEF InOrder
  <2>2. /\ call'["bus"].at \in {"rest", "think"}
        /\ call'["start"].at = "advance" => call'["start"].began < current
    BY <1>2, <2>1 DEF Waits
  <2>3. ASSUME NEW u \in Threads, call'[u].at = "advance"
        PROVE  /\ Resting("background")' /\ Resting("bus")' /\ ~awaiting'
               /\ \A e \in Queued' : e.kind # "process"
    <3>1. u # t /\ call[u].at = "advance"
      BY <2>3
    <3>2. Resting("background") /\ Resting("bus") /\ ~awaiting /\ \A e \in Queued : e.kind # "process"
      BY <2>1, <3>1 DEF Waits
    <3> QED BY <1>2, <2>2, <3>2 DEF Resting
  <2> QED BY <2>2, <2>3 DEF Waits
<1>6. Advancing'
  BY <1>1 DEF InOrder, Advancing
<1>7. Awaits'
  <2> SUFFICES ASSUME awaiting' PROVE Awaits'
    BY DEF Awaits
  <2>1. Awaits /\ awaiting
    BY DEF InOrder
  <2> QED BY <1>2, <2>1 DEF Awaits, Resting
<1>8. Results'
  BY <1>2 DEF InOrder, Results
<1> QED BY <1>1, <1>3, <1>4, <1>5, <1>6, <1>7, <1>8 DEF InOrder

LEMMA CallersInOrder ==
    ASSUME Typed, Typed', Simple(chain), StartOver, InOrder,
           \/ BackgroundBegin \/ BackgroundReport \/ Answer \/ Resume
           \/ \E t \in {"bus", "user"} : ContinueBack(t)
    PROVE  StartOver' /\ InOrder'
<1>1. /\ chain' = chain /\ current' = current /\ have' = have /\ runs' = runs
      /\ awaiting' = awaiting
  BY DEF BackgroundBegin, BackgroundReport, Answer, Resume, ContinueBack
<1>2. /\ call \in [Threads -> Calls] /\ current \in Nat /\ current \in Steps \cup {0}
      /\ {"start", "user", "bus", "background"} \subseteq Threads /\ "check" \in Places
  BY Shape DEF Typed, StateTyped, CallsTyped, Threads, Places
<1>3. \A t \in Threads : Stop(t) => /\ call'[t].at = "rest"
                                    /\ \A u \in Threads \ {t} : call'[u] = call[u]
  BY <1>2, CallStops DEF Rest
<1>4. \A t \in Threads : Goto(t, "check", current) =>
         /\ call'[t].at = "check" /\ \A u \in Threads \ {t} : call'[u] = call[u]
  BY <1>2, CallGoes
<1>5. \A e \in Queued' : e \in Queued \/ e.kind \notin {"process", "review"}
  <2>1. \/ events' = events
        \/ events' = Append(events, Say("complete", 0))
        \/ events' = Append(events, Say("failed", current))
    <3>1. CASE BackgroundReport
      BY <3>1 DEF BackgroundReport, InOrder, Awaits, Resting, Publish
    <3>2. CASE BackgroundBegin \/ Answer \/ Resume \/ \E t \in {"bus", "user"} : ContinueBack(t)
      BY <3>2 DEF BackgroundBegin, Answer, Resume, ContinueBack
    <3> QED BY <3>1, <3>2
  <2> QED BY <1>2, <2>1, Adds, Silent
<1>6. ~Plain \/ (Resting("bus") /\ Resting("background"))
  BY DEF InOrder, Alone
<1>7. CASE BackgroundBegin \/ BackgroundReport
  <2>1. /\ call["background"].at \notin {"rest", "advance", "step"}
        /\ call'["background"].at \in {"rest", "check"}
        /\ \A u \in Threads \ {"background"} : call'[u] = call[u]
    BY <1>2, <1>3, <1>4, <1>7 DEF BackgroundBegin, BackgroundReport
  <2>2. StartOver'
    BY <1>2, <2>1 DEF StartOver, Resting
  <2> QED BY <1>1, <1>2, <1>5, <1>6, <2>1, <2>2, MovesInOrder DEF Resting
<1>8. CASE Answer \/ ContinueBack("user")
  <2>1. /\ call["user"].at \notin {"advance", "step"}
        /\ call'["user"].at \in {"rest", "check"}
        /\ \A u \in Threads \ {"user"} : call'[u] = call[u]
        /\ Answer => call["start"].at = "rest"
        /\ ContinueBack("user") => call'["user"].at = "rest"
    BY <1>2, <1>3, <1>4, <1>8 DEF Answer, ContinueBack, Rest
  <2>2. StartOver'
    BY <1>2, <1>8, <2>1 DEF StartOver, Resting
  <2> QED BY <1>1, <1>2, <1>5, <2>1, <2>2, MovesInOrder
<1>9. CASE Resume \/ ContinueBack("bus")
  <2>1. /\ call["bus"].at \in {"resume", "back"}
        /\ call'["bus"].at \in {"rest", "check"}
        /\ \A u \in Threads \ {"bus"} : call'[u] = call[u]
    BY <1>2, <1>3, <1>4, <1>9 DEF Resume, ContinueBack
  <2>2. StartOver' /\ ~Computing
    BY <1>2, <2>1 DEF StartOver, Resting, InOrder, Waits
  <2> QED BY <1>1, <1>2, <1>5, <1>6, <2>1, <2>2, MovesInOrder DEF Resting
<1> QED BY <1>7, <1>8, <1>9

LEMMA StartInOrder ==
    ASSUME Typed, Typed', Simple(chain), StartOver, InOrder, StartLoop \/ StartBack
    PROVE  StartOver' /\ InOrder'
<1>1. /\ chain' = chain /\ current' = current /\ have' = have /\ runs' = runs
      /\ awaiting' => awaiting
  BY DEF StartLoop, StartBack
<1>2. /\ call \in [Threads -> Calls] /\ current \in Nat /\ current \in Steps \cup {0}
      /\ {"start", "user", "bus", "background"} \subseteq Threads
      /\ awaiting \in BOOLEAN
  BY Shape DEF Typed, StateTyped, CallsTyped, Threads
<1>3. call["start"].at \in {"loop", "back"} /\ call["user"].at = "rest"
  BY DEF StartLoop, StartBack, StartOver, Resting
<1>4. CASE StartLoop
  <2>1. /\ call'["start"].at = "rest" \/ (/\ call'["start"].at = "check" /\ call'["start"].began = current
                                          /\ ~MustAsk(current) /\ ~awaiting')
        /\ \A u \in Threads \ {"start"} : call'[u] = call[u]
    <3>1. CASE Stop("start")
      BY <1>2, <3>1, CallStops DEF Rest
    <3>2. CASE /\ call' = [call EXCEPT !["start"] = [Rest EXCEPT !.at = "check", !.began = current]]
               /\ ~MustAsk(current) /\ ~awaiting'
      BY <1>2, <3>2 DEF Rest
    <3> QED BY <1>4, <3>1, <3>2 DEF StartLoop
  <2>2. \A e \in Queued' : e \in Queued \/ e.kind \notin {"process", "review"}
    <3>1. \/ events' = events
          \/ events' = Append(events, Say("complete", 0))
          \/ events' = Append(events, Say("input", current))
      BY <1>4 DEF StartLoop, Publish
    <3> QED BY <1>2, <3>1, Adds, Silent
  <2>3. StartOver'
    BY <1>2, <1>3, <2>1 DEF StartOver, Resting
  <2> QED BY <1>1, <1>2, <1>3, <2>1, <2>2, <2>3, MovesInOrder
<1>5. ASSUME StartBack, ~(current # 0 /\ call["start"].began = current) PROVE StartOver' /\ InOrder'
  <2>1. call'["start"].at = "loop" /\ \A u \in Threads \ {"start"} : call'[u] = call[u]
    BY <1>2, <1>5 DEF StartBack, Rest
  <2>2. Queued' = Queued
    BY <1>5, Silent DEF StartBack
  <2>3. StartOver'
    BY <1>2, <1>3, <2>1 DEF StartOver, Resting
  <2> QED BY <1>1, <1>2, <1>3, <2>1, <2>2, <2>3, MovesInOrder
<1>6. ASSUME StartBack, current # 0, call["start"].began = current PROVE StartOver' /\ InOrder'
  <2>1. /\ call'["start"].at = "rest" /\ call'["background"].at = "begin"
        /\ call["start"].at = "back"
        /\ \A u \in Threads \ {"start", "background"} : call'[u] = call[u]
    BY <1>2, <1>6 DEF StartBack, Rest
  <2>2. Queued' = Queued /\ awaiting' = awaiting
    BY <1>6, Silent DEF StartBack
  <2>3. ~Plain /\ ~awaiting
    BY <1>2, <1>6, <2>1 DEF InOrder, Alone, Awaits
  <2>4. /\ Plain' <=> Plain
        /\ Computing' <=> Computing
        /\ \A s \in Steps : (Beyond(s)' <=> Beyond(s)) /\ (Reached(s)' <=> Reached(s))
        /\ Ran' /\ Steps' = Steps
    BY <1>1, OrderStays
  <2>5. StartOver'
    BY <1>2, <2>1 DEF StartOver, Resting
  <2>6. Stepping'
    <3> SUFFICES ASSUME NEW u \in Threads, NEW s \in Steps,
                        call'[u].at \in {"work", "step"}, call'[u].step = s
                 PROVE  /\ Reached(s)
                        /\ call'[u].at = "work" => chain[s] # "work"
                        /\ Beyond(s) /\ ~awaiting /\ ~Computing
      BY <1>1, <2>2, <2>3, <2>4, SteppingAfter
    <3>1. call'[u] = call[u]
      BY <2>1
    <3> QED BY <2>3, <3>1 DEF InOrder, Stepping
  <2>7. Waits'
    <3> SUFFICES ASSUME Computing PROVE Waits'
      BY <2>4 DEF Waits
    <3>1. ASSUME NEW u \in Threads, call'[u].at = "advance" PROVE FALSE
      <4>1. call[u].at = "advance" /\ u # "start" /\ u # "background" /\ u \in {"bus", "user"}
        BY <2>1, <3>1 DEF Threads
      <4> QED BY <1>3, <4>1 DEF InOrder, Waits, Resting
    <3> QED BY <1>2, <2>1, <3>1 DEF InOrder, Waits
  <2>8. Alone' /\ Advancing' /\ Awaits'
    BY <2>2, <2>3, <2>4 DEF Alone, Advancing, Awaits
  <2>9. Results'
    BY <1>1, <1>2, <2>1, <2>2 DEF InOrder, Results
  <2> QED BY <2>4, <2>5, <2>6, <2>7, <2>8, <2>9 DEF InOrder
<1> QED BY <1>4, <1>5, <1>6

LEMMA DispatchInOrder ==
    ASSUME Typed, Typed', Simple(chain), StartOver, InOrder, Dispatch
    PROVE  StartOver' /\ InOrder'
<1>1. /\ chain' = chain /\ current' = current /\ have' = have /\ runs' = runs
      /\ awaiting' = awaiting /\ call["bus"].at = "rest"
  BY DEF Dispatch, Rest
<1>2. /\ call \in [Threads -> Calls] /\ "think" \in Places
      /\ {"start", "user", "bus", "background"} \subseteq Threads
  BY DEF Typed, CallsTyped, Threads, Places
<1>3. Head(events) \in Event /\ Head(events) \in Queued /\ Queued' \subseteq Queued
  BY Taken DEF Dispatch, Typed, EventsTyped
<1>4. Head(events).step \in Nat /\ Head(events).kind # "review"
  BY <1>3, Shape DEF Event, Typed, InOrder, Results
<1>5. \/ call' = call
      \/ Head(events).kind = "process" /\ Goto("bus", "think", Head(events).step)
  BY <1>4 DEF Dispatch
<1>6. /\ \A u \in Threads \ {"bus"} : call'[u] = call[u]
      /\ \/ call'["bus"].at = "rest"
         \/ call'["bus"].at = "think" /\ call'["bus"].step = Head(events).step
            /\ Head(events).kind = "process"
  BY <1>1, <1>2, <1>4, <1>5, CallGoes
<1>7. StartOver'
  BY <1>2, <1>6 DEF StartOver, Resting
<1>8. /\ Plain => Head(events).kind # "process"
      /\ Head(events).kind = "process" => chain[Head(events).step] = "llm"
  BY <1>3 DEF InOrder, Alone, Results
<1> QED BY <1>1, <1>2, <1>3, <1>6, <1>7, <1>8, MovesInOrder

LEMMA ThinkInOrder ==
    ASSUME Typed, Typed', Simple(chain), StartOver, InOrder, Think, ~broken'
    PROVE  StartOver' /\ InOrder'
<1> DEFINE s == call["bus"].step
<1>1. /\ chain' = chain /\ current' = current /\ runs' = runs /\ awaiting' = awaiting
      /\ events' = events /\ have' = have \cup {s} /\ call["bus"].at = "think"
      /\ Goto("bus", "resume", 0)
  BY DEF Think
<1>2. /\ call \in [Threads -> Calls] /\ "resume" \in Places /\ Steps' = Steps
      /\ {"start", "user", "bus", "background"} \subseteq Threads
      /\ current \in Steps \cup {0} /\ s \in Steps
  BY <1>1 DEF Typed, StateTyped, CallsTyped, Executing, Threads, Places, Steps
<1>3. call'["bus"].at = "resume" /\ \A u \in Threads \ {"bus"} : call'[u] = call[u]
  BY <1>1, <1>2, CallGoes
<1>4. ~Plain /\ ~Plain'
  BY <1>1 DEF InOrder, Alone, Resting, Plain, Beyond
<1>5. ~Computing'
  <2>1. chain[s] = "llm"
    BY <1>1 DEF InOrder, Results
  <2>2. current \in Steps /\ chain[current] = "llm" => current = s
    BY <1>2, <2>1, SimpleShape DEF Typed
  <2> QED BY <1>1, <1>2, <2>2 DEF Computing
<1>6. /\ \A p \in Steps : (Reached(p) => Reached(p)') /\ (Beyond(p)' <=> Beyond(p))
      /\ Reached(current) => Reached(current)'
  BY <1>1 DEF Reached, Beyond
<1>7. StartOver' /\ Ran' /\ Alone' /\ Waits'
  BY <1>1, <1>2, <1>3, <1>4, <1>5, <1>6 DEF StartOver, Resting, InOrder, Ran, Alone, Waits
<1>8. Stepping'
  <2> SUFFICES ASSUME NEW u \in Threads, NEW p \in Steps,
                      call'[u].at \in {"work", "step"}, call'[u].step = p
               PROVE  /\ Reached(p)
                      /\ call'[u].at = "work" => chain[p] # "work"
                      /\ Beyond(p) /\ ~awaiting
    BY <1>1, <1>4, <1>5, <1>6, SteppingAfter
  <2>1. call'[u] = call[u]
    BY <1>3
  <2> QED BY <1>4, <2>1 DEF InOrder, Stepping
<1>9. Advancing'
  <2> SUFFICES ASSUME NEW u \in Threads, call'[u].at = "advance" PROVE ~awaiting
    BY <1>1 DEF Advancing
  <2>1. call[u].at = "advance"
    BY <1>3
  <2>2. ~Computing
    BY <1>1, <2>1 DEF InOrder, Waits, Resting
  <2> QED BY <1>4, <2>1, <2>2 DEF InOrder, Advancing
<1>10. Awaits' /\ Results'
  <2>1. Queued' = Queued
    BY <1>1, Silent
  <2> QED BY <1>1, <1>2, <1>3, <2>1 DEF InOrder, Awaits, Results, Resting
<1> QED BY <1>7, <1>8, <1>9, <1>10 DEF InOrder

LEMMA AdvanceInOrder ==
    ASSUME Typed, Typed', Simple(chain), StartOver, InOrder, NEW t \in Threads, Advance(t)
    PROVE  StartOver' /\ InOrder'
<1>1. /\ chain' = chain /\ current' = current /\ have' = have /\ runs' = runs
      /\ call[t].at = "advance" /\ t \in {"start", "background", "bus", "user"}
  BY DEF Advance, Threads
<1>2. /\ Plain' <=> Plain
      /\ Computing' <=> Computing
      /\ MustAsk(current)' <=> MustAsk(current)
      /\ \A s \in Steps : (Beyond(s)' <=> Beyond(s)) /\ (Reached(s)' <=> Reached(s))
      /\ Ran' /\ Steps' = Steps
  BY <1>1, OrderStays
<1>3. /\ call \in [Threads -> Calls] /\ current \in Nat /\ {"start", "user", "bus", "background"} \subseteq Threads
      /\ current \in Steps \cup {0} /\ awaiting \in BOOLEAN /\ "step" \in Places
  BY Shape DEF Typed, CallsTyped, StateTyped, Threads, Places
<1>4. \/ ~Computing /\ Return(t, "ok") /\ awaiting' = awaiting
         /\ (current # 0 => MustAsk(current))
      \/ Computing /\ Return(t, "ok")
      \/ /\ ~Computing /\ Goto(t, "step", current) /\ current # 0 /\ awaiting' = awaiting
         /\ ~MustAsk(current)
  BY DEF Advance, Computing, MustAsk, Asks
<1>5. /\ \A u \in Threads \ {t} : call'[u] = call[u]
      /\ call'[t].began = call[t].began
      /\ \/ call'[t].at = "back" /\ ~Computing /\ (current # 0 => MustAsk(current))
         \/ call'[t].at = "back" /\ Computing
         \/ call'[t].at = "step" /\ call'[t].step = current /\ current # 0 /\ ~MustAsk(current)
            /\ ~Computing
  BY <1>3, <1>4, CallReturns, CallGoes
<1>6. ~awaiting /\ (~Computing => ~awaiting')
  BY <1>1, <1>4 DEF InOrder, Alone, Waits, Advancing
<1>7. \A e \in Queued' : \/ e \in Queued \/ e.kind = "input"
                         \/ e.kind = "process" /\ e.step = current /\ Computing
  <2>1. \/ events' = events
        \/ events' = Append(events, Say("input", current))
        \/ Computing /\ events' = Append(events, Say("process", current))
    BY DEF Advance, AskFor, Publish, Computing
  <2> QED BY <1>3, <2>1, Adds, Silent
<1>8. Plain \/ Computing => t \in Drivers
  BY <1>1 DEF InOrder, Alone, Waits, Resting, Drivers
<1>9. ~(Plain /\ Computing) /\ (~Plain /\ current # 0 => Beyond(current))
  BY <1>3, SimpleShape DEF Plain, Computing, Typed
<1>10. StartOver'
  BY <1>1, <1>3, <1>5 DEF StartOver, Resting
<1>11. Stepping'
  <2> SUFFICES ASSUME NEW u \in Threads, NEW s \in Steps,
                      call'[u].at \in {"work", "step"}, call'[u].step = s
               PROVE  /\ Reached(s)
                      /\ call'[u].at = "work" => chain[s] # "work"
                      /\ Plain => s = current /\ u \in Drivers
                      /\ ~Plain => Beyond(s) /\ ~awaiting' /\ ~Computing
    BY <1>1, <1>2, SteppingAfter
  <2>1. CASE u = t
    BY <1>5, <1>6, <1>8, <1>9, <2>1 DEF InOrder, Ran
  <2>2. CASE u # t
    BY <1>1, <1>5, <1>6, <2>2 DEF InOrder, Stepping
  <2> QED BY <2>1, <2>2
<1>12. Alone'
  <2> SUFFICES ASSUME Plain PROVE Alone'
    BY <1>2 DEF Alone
  <2>1. Alone /\ t \in Drivers /\ ~Computing
    BY <1>8, <1>9 DEF InOrder
  <2>2. \A e \in Queued' : e.kind # "process"
    BY <1>7, <2>1 DEF Alone
  <2>3. Resting("bus")' /\ Resting("background")'
    BY <1>3, <1>5, <2>1 DEF Alone, Resting, Drivers
  <2>4. /\ call'["start"].at \in {"advance", "step", "back"} => call'["start"].began < current
        /\ call'["start"].at \in {"check", "work"} => call'["start"].began = current
        /\ call'["start"].at \in {"check", "work", "step"} => ~MustAsk(current)
    BY <1>1, <1>3, <1>5, <2>1 DEF Alone
  <2>5. chain[current] = "work" => \E u \in Drivers : call'[u].at \in {"advance", "step"}
    <3>1. chain[current] = "work" => ~MustAsk(current)
      BY DEF MustAsk, Asks
    <3> QED BY <1>5, <2>1, <3>1 DEF Plain
  <2> QED BY <1>1, <1>2, <1>6, <2>1, <2>2, <2>3, <2>4, <2>5 DEF Alone
<1>13. ASSUME Computing PROVE Waits' /\ Awaits'
  <2>1. /\ Waits /\ call'[t].at = "back" /\ t \in Drivers
        /\ Resting("background") /\ Resting("bus")
    BY <1>1, <1>5, <1>8, <1>13 DEF InOrder, Waits
  <2>2. ASSUME NEW u \in Threads, call'[u].at = "advance" PROVE FALSE
    <3>1. u # t /\ call[u].at = "advance" /\ u \in Drivers
      BY <1>5, <2>1, <2>2 DEF Resting, Drivers, Threads
    <3> QED BY <1>1, <2>1, <3>1 DEF StartOver, Resting, Drivers
  <2>3. Resting("background")' /\ Resting("bus")'
    BY <1>3, <1>5, <2>1 DEF Resting, Drivers
  <2>4. call'["start"].at \in {"rest", "back"} /\ (call'["start"].at = "back" => call'["start"].began < current)
    <3>1. CASE t = "start"
      BY <1>1, <1>3, <1>5, <1>13, <2>1, <3>1 DEF Waits
    <3>2. CASE t # "start"
      BY <1>1, <1>3, <1>5, <2>1, <3>2 DEF StartOver, Resting, Drivers
    <3> QED BY <3>1, <3>2
  <2> QED BY <1>1, <1>3, <1>13, <2>2, <2>3, <2>4 DEF Waits, Awaits, Computing, Resting
<1>14. ASSUME ~Computing PROVE Waits' /\ Awaits'
  BY <1>2, <1>6, <1>14 DEF Waits, Awaits
<1>15. Advancing'
  BY <1>2, <1>6 DEF Advancing
<1>16. Results'
  BY <1>1, <1>3, <1>5, <1>7 DEF InOrder, Results, Computing
<1> QED BY <1>2, <1>10, <1>11, <1>12, <1>13, <1>14, <1>15, <1>16 DEF InOrder

LEMMA FailureInOrder ==
    ASSUME Typed, Typed', Simple(chain), StartOver, InOrder, NEW t \in Threads,
           Work(t) \/ AdvanceStep(t), Return(t, "failed"), Fails(call[t].step),
           Breaks(call[t].step), ~broken', current' = current, have' = have, runs' = runs,
           awaiting' = awaiting, events' = events
    PROVE  StartOver' /\ InOrder'
<1> DEFINE s == call[t].step
<1>1. /\ chain' = chain /\ Queued' = Queued
      /\ call[t].at \in {"work", "step"}
      /\ call \in [Threads -> Calls] /\ {"start", "user", "bus", "background"} \subseteq Threads
  BY Silent DEF Work, AdvanceStep, Typed, CallsTyped, Threads
<1>2. call'[t].at = "back" /\ \A u \in Threads \ {t} : call'[u] = call[u]
  BY <1>1, CallReturns
<1>3. chain[s] = "ask" /\ s \notin have /\ MustAsk(s)
  BY Shape DEF Breaks, Fails, Asks, MustAsk, Typed, CallsTyped, Executing
<1>4. StartOver'
  BY <1>1, <1>2 DEF StartOver, Resting
<1>5. Plain => t = "user" /\ chain[current] = "ask"
  BY <1>1, <1>3 DEF InOrder, Stepping, Alone, Drivers
<1>6. (t = "start" => ~awaiting) /\ (t = "bus" => ~Computing)
  BY <1>1 DEF InOrder, Awaits, Waits
<1> QED BY <1>1, <1>2, <1>4, <1>5, <1>6, MovesInOrder

LEMMA ExecutesInOrder ==
    ASSUME Typed, Typed', Simple(chain), StartOver, InOrder, NEW t \in Threads,
           Work(t) \/ AdvanceStep(t), ~broken'
    PROVE  StartOver' /\ InOrder'
<1>s. PICK s \in Steps : s = call[t].step
  BY DEF Work, AdvanceStep, Typed, CallsTyped, Executing
<1>n. PICK n \in Steps \cup {0} : n = After(s)
  BY Shape DEF Typed
<1>1. /\ chain' = chain /\ Steps' = Steps /\ call[t].at \in {"work", "step"}
      /\ call \in [Threads -> Calls] /\ {"start", "user", "bus", "background"} \subseteq Threads
      /\ awaiting \in BOOLEAN /\ current \in Steps \cup {0}
      /\ t \in {"start", "background", "bus", "user"} /\ "advance" \in Places
  BY DEF Work, AdvanceStep, Steps, Typed, CallsTyped, StateTyped, Threads, Places
<1>2. /\ s \in Nat /\ current \in Nat /\ (n # 0 => n = s + 1)
      /\ (chain[s] = "last" <=> n = 0) /\ chain[s] \in Kinds
      /\ call[t].at = "work" => chain[s] # "work"
  <2>1. chain[s] = "last" <=> n = 0
    BY <1>n, Shape DEF Typed
  <2>2. /\ s \in Nat /\ current \in Nat /\ chain[s] \in Kinds
        /\ n # 0 => n = s + 1
    BY <1>1, <1>n, Shape DEF Typed
  <2>3. call[t].at = "work" => chain[s] # "work"
    BY <1>s, <1>1 DEF InOrder, Stepping
  <2> QED BY <2>1, <2>2, <2>3
<1>3. CASE /\ Return(t, "failed") /\ Fails(s) /\ Breaks(s) /\ current' = current /\ have' = have
           /\ runs' = runs /\ awaiting' = awaiting /\ events' = events
  BY <1>s, <1>3, FailureInOrder
<1>4. CASE /\ Done(s) /\ current' = n /\ awaiting' = awaiting
           /\ \/ Return(t, "ok") /\ MustAsk(n)
              \/ Return(t, "complete") /\ n = 0
              \/ Goto(t, "advance", 0)
           /\ \/ events' = events \/ events' = Append(events, Say("inputDone", s))
              \/ events' = Append(events, Say("input", n))
              \/ events' = Append(Append(events, Say("inputDone", s)), Say("input", n))
  <2>1. /\ \A u \in Threads \ {t} : call'[u] = call[u]
        /\ call'[t].began = call[t].began
        /\ \/ call'[t].at = "back" /\ (n # 0 => MustAsk(n))
           \/ call'[t].at = "advance"
    BY <1>1, <1>4, CallReturns, CallGoes
  <2>2. \A e \in Queued' : e \in Queued \/ e.kind \in {"inputDone", "input"}
    <3>1. CASE events' = events
      BY <3>1, Silent
    <3>2. CASE events' \in {Append(events, Say("inputDone", s)), Append(events, Say("input", n))}
      BY <1>1, <3>2, Adds
    <3>3. CASE events' = Append(Append(events, Say("inputDone", s)), Say("input", n))
      <4>1. /\ Say("inputDone", s) \in Event /\ Say("inputDone", s).kind = "inputDone"
            /\ Say("input", n) \in Event /\ Say("input", n).kind = "input"
        BY <1>1, Events
      <4> QED BY <3>3, <4>1, SaysTwo DEF Typed, EventsTyped
    <3> QED BY <1>4, <3>1, <3>2, <3>3
  <2>3. ~awaiting /\ ~Computing
    BY <1>1, SimpleShape DEF InOrder, Stepping, Alone, Plain, Computing, Typed
  <2>4. /\ Reached(s) /\ (~Plain => Beyond(s))
        /\ Plain => /\ s = current /\ t \in Drivers
                    /\ Resting("bus") /\ Resting("background")
                    /\ \A u \in Drivers \ {t} : Resting(u)
    BY <1>s, <1>1 DEF InOrder, Stepping, Alone, StartOver, Resting, Drivers
  <2>5. Ran'
    <3>1. Reached(n)'
      BY <1>1, <1>n, <1>4, <2>4, ReachedNext
    <3>2. Reached(current)' <=> Reached(n)'
      BY <1>1, <1>4 DEF Reached
    <3>3. ASSUME NEW p \in Steps, runs'[p] > 0 PROVE Reached(p)'
      <4>1. CASE p = s
        BY <1>1, <1>4, <2>4, <4>1, ReachedStays
      <4>2. CASE p # s
        <5>1. runs[p] > 0
          BY <1>1, <1>4, <3>3, <4>2 DEF Done, Typed, StateTyped
        <5>2. Reached(p)
          BY <5>1 DEF InOrder, Ran
        <5> QED BY <1>1, <1>4, <5>2, ReachedStays
      <4> QED BY <4>1, <4>2
    <3> QED BY <1>1, <3>1, <3>2, <3>3 DEF Ran
  <2>6. (Plain' => Plain) /\ (Computing' => Plain) /\ \A p \in Steps : Beyond(p)' <=> Beyond(p)
    <3>1. \A p \in Steps \cup {0} : Beyond(p)' <=> Beyond(p)
      BY <1>1 DEF Beyond
    <3>2. Beyond(current)' <=> Beyond(n)
      BY <1>1, <1>4 DEF Beyond
    <3>3. Beyond(s) /\ n # 0 => Beyond(n) /\ chain[n] # "llm"
      BY <1>1, <1>n, SimpleShape DEF Typed
    <3> QED BY <1>1, <1>4, <2>4, <3>1, <3>2, <3>3 DEF Plain, Computing
  <2>7. StartOver'
    BY <1>1, <2>1 DEF StartOver, Resting
  <2>8. Stepping'
    <3> SUFFICES ASSUME NEW u \in Threads, NEW p \in Steps,
                        call'[u].at \in {"work", "step"}, call'[u].step = p
                 PROVE  /\ Reached(p)'
                        /\ call'[u].at = "work" => chain[p] # "work"
                        /\ ~Plain' /\ Beyond(p) /\ ~awaiting' /\ ~Computing'
      BY <1>1, <2>6, SteppingAfter
    <3>1. u # t /\ call'[u] = call[u]
      BY <2>1
    <3>2. ~Plain
      BY <1>1, <2>4, <3>1 DEF Resting, Drivers, Threads
    <3>3. Reached(p) /\ Beyond(p) /\ (call[u].at = "work" => chain[p] # "work")
      BY <3>1, <3>2 DEF InOrder, Stepping
    <3> QED BY <1>1, <1>4, <2>3, <2>6, <3>1, <3>2, <3>3, ReachedStays
  <2>9. ASSUME Plain
        PROVE  /\ Resting("bus")' /\ Resting("background")'
               /\ call'["start"].at # "rest" => call'["start"].began < s + 1
               /\ call'["start"].at \in {"rest", "advance", "back"}
    <3>1. call["start"].at # "rest" => call["start"].at \in {"work", "step"}
      BY <1>1, <2>4, <2>9 DEF Resting, Drivers
    <3>2. call["start"].at # "rest" => call["start"].began < s + 1
      <4>1. call["start"].began \in Nat
        BY <1>1 DEF Calls
      <4> QED BY <1>2, <2>4, <2>9, <3>1, <4>1 DEF InOrder, Alone
    <3> QED BY <1>1, <2>1, <2>4, <2>9, <3>1, <3>2 DEF Resting, Drivers
  <2>10. Alone'
    <3> SUFFICES ASSUME Plain' PROVE Alone'
      BY DEF Alone
    <3>1. Plain /\ current' = n /\ n = s + 1
      BY <1>2, <1>4, <2>6 DEF Plain
    <3>2. \A e \in Queued' : e.kind # "process"
      BY <2>2, <3>1 DEF InOrder, Alone
    <3>3. chain[n] = "work" => call'[t].at = "advance"
      BY <2>1, <3>1, <1>2 DEF MustAsk, Asks
    <3> QED BY <1>1, <1>4, <2>3, <2>4, <2>9, <3>1, <3>2, <3>3 DEF Alone
  <2>11. Waits'
    <3> SUFFICES ASSUME Computing' PROVE Waits'
      BY DEF Waits
    <3>1. Plain /\ current' = n /\ n = s + 1
      BY <1>2, <1>4, <2>6 DEF Computing
    <3>2. \A e \in Queued' : e.kind # "process"
      BY <2>2, <3>1 DEF InOrder, Alone
    <3> QED BY <1>4, <2>3, <2>9, <3>1, <3>2 DEF Waits, Resting
  <2>12. Advancing' /\ Awaits'
    BY <1>4, <2>3 DEF Advancing, Awaits
  <2>13. Results'
    BY <1>1, <2>1, <2>2 DEF InOrder, Results
  <2> QED BY <2>5, <2>7, <2>8, <2>10, <2>11, <2>12, <2>13 DEF InOrder
<1>5. \/ /\ Return(t, "failed") /\ Fails(s) /\ Breaks(s) /\ current' = current /\ have' = have
         /\ runs' = runs /\ awaiting' = awaiting /\ events' = events
      \/ /\ Done(s) /\ current' = n /\ awaiting' = awaiting
         /\ \/ Return(t, "ok") /\ MustAsk(n)
            \/ Return(t, "complete") /\ n = 0
            \/ Goto(t, "advance", 0)
         /\ \/ events' = events \/ events' = Append(events, Say("inputDone", s))
            \/ events' = Append(events, Say("input", n))
            \/ events' = Append(Append(events, Say("inputDone", s)), Say("input", n))
  <2>1. CASE Work(t)
    <3>1. CASE chain[s] = "last"
      BY <1>s, <1>n, <1>2, <2>1, <3>1 DEF Work
    <3>2. CASE chain[s] \in {"ask", "llm"}
      BY <1>s, <1>n, <2>1, <3>2 DEF Work
    <3> QED BY <1>s, <1>2, <2>1, <3>1, <3>2 DEF Kinds, Work
  <2>2. CASE AdvanceStep(t)
    BY <1>s, <1>n, <1>2, <2>2 DEF AdvanceStep
  <2> QED BY <2>1, <2>2
<1> QED BY <1>3, <1>4, <1>5

LEMMA InitInOrder ==
    ASSUME Init, \A c \in Chains : Simple(c)
    PROVE  StartOver /\ InOrder
<1>1. /\ Typed /\ Simple(chain) /\ current = 1 /\ 1 \in Steps
      /\ {"start", "user", "bus", "background"} \subseteq Threads
      /\ \A s \in Steps : s \in Nat
  BY InitTyped, Shape DEF Init, Threads
<1>2. /\ \A t \in Threads \ {"start"} : call[t].at = "rest"
      /\ call["start"].at = "loop" /\ call["start"].began = 0
      /\ awaiting = FALSE
  BY <1>1 DEF Init, Rest
<1>3. Queued = {}
  <2>1. events = <<>> /\ Len(<<>>) = 0
    BY EmptySeq DEF Init
  <2> QED BY <2>1 DEF Queued
<1>4. Ran
  <2>1. Reached(1)
    BY DEF Reached
  <2>2. \A s \in Steps : ~(runs[s] > 0)
    BY DEF Init
  <2> QED BY <1>1, <2>1, <2>2 DEF Ran
<1>5. chain[current] # "work"
  BY <1>1 DEF Simple
<1> QED BY <1>1, <1>2, <1>3, <1>4, <1>5
    DEF InOrder, StartOver, Resting, Stepping, Alone, Waits, Advancing, Awaits, Results

\* Nothing is said of the order once a step has failed.
OrderUnlessBroken == ~broken => StartOver /\ InOrder

LEMMA OrderStep ==
    ASSUME Typed, Typed', Simple(chain), OrderUnlessBroken, [Next]_vars
    PROVE  OrderUnlessBroken'
<1> SUFFICES ASSUME ~broken' PROVE StartOver' /\ InOrder'
  BY DEF OrderUnlessBroken
<1>1. CASE UNCHANGED vars
  <2>1. /\ chain' = chain /\ call' = call /\ events' = events /\ current' = current
        /\ runs' = runs /\ broken' = broken /\ have' = have /\ awaiting' = awaiting
    BY <1>1 DEF vars
  <2>2. StartOver /\ InOrder /\ Queued' = Queued
    BY <2>1, Silent DEF OrderUnlessBroken
  <2>3. /\ Plain' <=> Plain
        /\ Computing' <=> Computing
        /\ MustAsk(current)' <=> MustAsk(current)
        /\ \A s \in Steps : (Beyond(s)' <=> Beyond(s)) /\ (Reached(s)' <=> Reached(s))
        /\ Ran' /\ Steps' = Steps
    BY <2>1, <2>2, OrderStays
  <2>4. Stepping'
    <3> SUFFICES ASSUME NEW u \in Threads, NEW s \in Steps,
                        call'[u].at \in {"work", "step"}, call'[u].step = s
                 PROVE  /\ Reached(s)
                        /\ call'[u].at = "work" => chain[s] # "work"
                        /\ Plain => s = current /\ u \in Drivers
                        /\ ~Plain => Beyond(s) /\ ~awaiting /\ ~Computing
      BY <2>1, <2>3, SteppingAfter
    <3> QED BY <2>1, <2>2 DEF InOrder, Stepping
  <2>5. StartOver' /\ Alone' /\ Waits' /\ Advancing' /\ Awaits' /\ Results'
    BY <2>1, <2>2, <2>3
    DEF InOrder, StartOver, Resting, Alone, Waits, Advancing, Awaits, Results
  <2> QED BY <2>3, <2>4, <2>5 DEF InOrder
<1>2. CASE Next
  <2>1. /\ StartStep => StartLoop \/ StartBack \/ ProcessInput("start")
        /\ BackgroundStep => BackgroundBegin \/ BackgroundReport \/ ProcessInput("background")
        /\ BusStep => \/ Dispatch \/ Think \/ Approve \/ ApprovedStep
                      \/ Resume \/ ProcessInput("bus") \/ ContinueBack("bus")
        /\ UserStep => ProcessInput("user") \/ ContinueBack("user")
        /\ {"start", "background", "bus", "user"} \subseteq Threads
    BY DEF StartStep, BackgroundStep, BusStep, UserStep, Threads
  <2>2. StartOver /\ InOrder
    BY <1>2, BrokenStays DEF OrderUnlessBroken
  <2>3. ASSUME NEW t \in Threads, ProcessInput(t) PROVE StartOver' /\ InOrder'
    BY <2>2, <2>3, CheckInOrder, AdvanceInOrder, ExecutesInOrder DEF ProcessInput
  <2>4. ~Approve /\ ~ApprovedStep
    BY <2>2 DEF InOrder, Results, Approve, ApprovedStep
  <2> QED BY <1>2, <2>1, <2>2, <2>3, <2>4, StartInOrder, CallersInOrder, DispatchInOrder,
             ThinkInOrder DEF Next
<1> QED BY <1>1, <1>2

\* No step is skipped, however the four threads interleave and whatever they
\* are answered, in every workflow whose chain has the repository's shape.
THEOREM NoStepSkipped ==
    ASSUME \A c \in Chains : Simple(c)
    PROVE  Spec => []NothingSkipped
<1>1. Typed => Simple(chain)
  BY DEF Typed
<1>2. Typed /\ OrderUnlessBroken => NothingSkipped
  BY DEF OrderUnlessBroken, InOrder, Ran, Reached, NothingSkipped
<1>3. Init => Typed /\ OrderUnlessBroken
  BY InitTyped, InitInOrder DEF OrderUnlessBroken
<1>4. Typed /\ OrderUnlessBroken /\ [Next]_vars => (Typed /\ OrderUnlessBroken)'
  BY <1>1, TypedStep, OrderStep
<1> QED BY <1>2, <1>3, <1>4, PTL DEF Spec

-----------------------------------------------------------------------------
(* Nobody is forgotten.                                                    *)
(*                                                                         *)
(* When the threads rest, somebody must have been left to bring a workflow *)
(* on: the user, who has been asked.  The invariant says for each kind of  *)
(* current step who is on it.  A second "ask" behind the "llm" step breaks *)
(* it: what a thread that is late says of the first one, inputDone, may    *)
(* take the user's prompt for the second one away.                         *)

\* What is asked behind the "llm" step is asked right behind it.
AsksAtOnce(c) == \A i, j \in DOMAIN c : i < j /\ c[i] = "llm" /\ c[j] = "ask" => j = i + 1

\* Has the LLM been told of an end, or will it be?
Over == told \/ \E e \in Queued : e.kind \in {"complete", "failed"}

\* The working context says input is wanted, or comes to say so.
Prompting ==
    \/ prompted /\ \A i \in 1..Len(events) : events[i].kind # "inputDone"
    \/ \E i \in 1..Len(events) :
          /\ events[i].kind = "input"
          /\ \A j \in 1..Len(events) : j > i => events[j].kind # "inputDone"

Driving == \E t \in Threads : call[t].at \in {"check", "work", "advance", "step"}
Looping == call["start"].at = "loop"
Failing == call["user"].at = "back" /\ call["user"].result = "failed"

\* An "ask" or an "llm" step that runs, or has run, has its data, but for the
\* one that the user's answer is about to bring.
DataKept ==
    /\ \A s \in Steps : chain[s] \in {"ask", "llm"} /\ runs[s] > 0 => s \in have
    /\ \A t \in Threads : call[t].at \in {"work", "step"} =>
          \/ call[t].step \in have \/ chain[call[t].step] \notin {"ask", "llm"}
          \/ chain[call[t].step] = "ask" /\ t = "user" /\ call[t].at = "work"

\* The background task begins when the start is over.
OneStart == ~Resting("start") => Resting("background")

\* A step computed has its result, or is being computed.
Computed == \A s \in seen : s \in have \/ (call["bus"].at = "think" /\ call["bus"].step = s)

\* An ended engine has failed or completed its workflow.
Ended == ~alive => Over \/ LastRun

\* Before the "llm" step, a step that has been asked for is the current one,
\* and nobody runs steps.
AskedLast == (Plain /\ asked # 0) =>
    /\ asked = current /\ MustAsk(current)
    /\ \A t \in Threads : call[t].at \notin {"work", "advance", "step"}

\* A step that has been asked for is known to the user.
AskedFor == MustAsk(asked) => Prompting

\* Who is on a current step that wants input, one whose result is awaited, any
\* other, and on the end.
Asking == MustAsk(current) =>
    \/ Over \/ Prompting \/ Looping \/ Failing
    \/ \E t \in Threads : call[t].at = "advance"
    \/ call["user"].at = "work" /\ call["user"].step = current
Wanted == Computing =>
    \/ current \in seen \/ Looping \/ call["start"].at = "check"
    \/ \E e \in Queued : e.kind = "process" /\ e.step = current
    \/ \E t \in Threads : call[t].at = "advance"
Moving == current # 0 /\ ~MustAsk(current) /\ ~Computing =>
    \/ Over \/ Driving \/ Looping \/ Failing
    \/ call["bus"].at = "resume" /\ ~LastRun
Ending == current = 0 =>
    \/ Over \/ Looping
    \/ \E t \in Threads : call[t].at = "back" /\ call[t].result = "complete"

Kept == DataKept /\ OneStart /\ Computed /\ Ended /\ AskedLast /\ AskedFor
OnIt == Asking /\ Wanted /\ Moving /\ Ending

\* The shape, as the proofs need it.
LEMMA AsksApart ==
    ASSUME chain \in Chains, Simple(chain), AsksAtOnce(chain),
           NEW s \in Steps, Beyond(s), chain[s] = "ask"
    PROVE  \A a \in Steps : a > s => chain[a] # "ask"
<1>1. Steps = 1..Len(chain) /\ Len(chain) \in Nat /\ \A p \in Steps : p \in Nat
  BY Shape
<1>2. PICK p \in 1..s : chain[p] = "llm"
  BY DEF Beyond
<1>3. p \in Steps /\ p < s /\ p \in Nat
  BY <1>1, <1>2
<1>4. \A a \in Steps : p < a /\ chain[a] = "ask" => a = p + 1
  BY <1>2, <1>3 DEF AsksAtOnce, Steps
<1> QED BY <1>1, <1>3, <1>4

\* What has been reached has been supplied with its data, and so has the end.
LEMMA Supplied ==
    ASSUME Typed, DataKept, NEW s, Reached(s),
           NEW p \in Steps, p \in 1..(s - 1), chain[p] \in {"ask", "llm"}
    PROVE  p \in have
BY DEF Reached, DataKept

LEMMA AllSupplied ==
    ASSUME Typed, InOrder, DataKept, LastRun
    PROVE  /\ \A p \in Steps : chain[p] \in {"ask", "llm"} => p \in have
           /\ ~MustAsk(current) /\ ~Computing
<1>1. /\ Steps = 1..Len(chain) /\ Len(chain) \in Nat /\ Len(chain) \in Steps
      /\ \A s \in Steps : chain[s] = "last" <=> s = Len(chain)
      /\ current \in Steps \cup {0}
  BY Shape DEF Typed, StateTyped
<1>2. Reached(Len(chain))
  BY <1>1 DEF InOrder, Ran, LastRun
<1>3. ASSUME NEW p \in Steps, chain[p] \in {"ask", "llm"} PROVE p \in have
  <2>1. p \in 1..(Len(chain) - 1)
    BY <1>1, <1>3
  <2> QED BY <1>2, <1>3, <2>1, Supplied
<1> QED BY <1>1, <1>3 DEF MustAsk, Asks, Computing

\* An end that is heard of, or will be, stays so.
LEMMA OverStays ==
    ASSUME told => told', Queued \subseteq Queued'
    PROVE  Over => Over'
BY DEF Over

\* The prompt and the bus's queue.
LEMMA PromptStays ==
    ASSUME events' = events, prompted => prompted'
    PROVE  Prompting => Prompting'
BY DEF Prompting

LEMMA PromptSays ==
    ASSUME Typed,
           NEW kind \in {"input", "inputDone", "process", "review", "prompt",
                         "complete", "failed"},
           NEW s \in Steps \cup {0}, events' = Append(events, Say(kind, s))
    PROVE  /\ Over /\ (told => told') => Over'
           /\ Queued \subseteq Queued' /\ Say(kind, s) \in Queued'
           /\ kind = "input" => Prompting'
           /\ kind # "inputDone" /\ (prompted => prompted') => (Prompting => Prompting')
<1> DEFINE e == Say(kind, s)
<1>1. e \in Event /\ e.kind = kind
  BY Events
<1>2. events \in Seq(Event)
  BY DEF Typed, EventsTyped
<1>3. /\ Len(events) \in Nat /\ Len(events') = Len(events) + 1
      /\ \A i \in 1..Len(events) : events'[i] = events[i]
      /\ events'[Len(events) + 1] = e
  BY <1>1, <1>2, AppendProperties, LenProperties
<1>4. Queued' = Queued \cup {e}
  BY <1>1, <1>2, Says
<1>5. ASSUME kind = "input" PROVE Prompting'
  BY <1>1, <1>3, <1>5 DEF Prompting
<1>6. ASSUME kind # "inputDone", prompted => prompted', Prompting PROVE Prompting'
  <2>1. \A i \in 1..Len(events') : i \in 1..Len(events) \/ events'[i].kind = kind
    BY <1>1, <1>3
  <2>2. CASE prompted /\ \A i \in 1..Len(events) : events[i].kind # "inputDone"
    BY <1>3, <1>6, <2>1, <2>2 DEF Prompting
  <2>3. CASE \E i \in 1..Len(events) :
               /\ events[i].kind = "input"
               /\ \A j \in 1..Len(events) : j > i => events[j].kind # "inputDone"
    <3>1. PICK i \in 1..Len(events) :
               /\ events[i].kind = "input"
               /\ \A j \in 1..Len(events) : j > i => events[j].kind # "inputDone"
      BY <2>3
    <3>2. i \in 1..Len(events') /\ events'[i].kind = "input"
      BY <1>3, <3>1
    <3>3. \A j \in 1..Len(events') : j > i => events'[j].kind # "inputDone"
      BY <1>3, <1>6, <2>1, <3>1
    <3> QED BY <3>2, <3>3 DEF Prompting
  <2> QED BY <1>6, <2>2, <2>3 DEF Prompting
<1> QED BY <1>4, <1>5, <1>6, OverStays

\* An answer that is done and the next question: the user is asked.
LEMMA PromptSaysTwo ==
    ASSUME Typed, NEW s \in Steps, NEW n \in Steps,
           events' = Append(Append(events, Say("inputDone", s)), Say("input", n))
    PROVE  Prompting' /\ Queued \subseteq Queued'
<1>1. Say("inputDone", s) \in Event /\ Say("input", n) \in Event /\ Say("input", n).kind = "input"
  BY Events
<1>2. PICK q \in Seq(Event) : q = Append(events, Say("inputDone", s))
  BY <1>1, AppendProperties DEF Typed, EventsTyped
<1>3. events' = Append(q, Say("input", n))
  BY <1>2
<1>4. Len(events') = Len(q) + 1 /\ Len(q) \in Nat /\ events'[Len(q) + 1] = Say("input", n)
  BY <1>1, <1>2, <1>3, AppendProperties, LenProperties
<1>5. Prompting'
  BY <1>1, <1>4 DEF Prompting
<1>6. Queued \subseteq Queued'
  BY <1>1, SaysTwo DEF Typed, EventsTyped
<1> QED BY <1>5, <1>6

\* The bus takes the event in front.
LEMMA PromptTaken ==
    ASSUME Typed, Dispatch
    PROVE  (Prompting => Prompting') /\ (Over => Over')
<1> DEFINE e == Head(events)
<1>1. /\ events \in Seq(Event) /\ events # <<>> /\ events' = Tail(events)
      /\ prompted' = (e.kind = "input" \/ (prompted /\ e.kind # "inputDone"))
      /\ told' = (told \/ e.kind \in {"complete", "failed"})
  BY DEF Dispatch, Typed, EventsTyped
<1>2. /\ Len(events) \in Nat \ {0} /\ Len(events') = Len(events) - 1
      /\ \A i \in 1..Len(events') : events'[i] = events[i + 1]
      /\ e = events[1]
  BY <1>1, HeadTailProperties, LenProperties, EmptySeq
<1> HIDE DEF e
<1>3. ASSUME Prompting PROVE Prompting'
  <2>1. CASE prompted /\ \A i \in 1..Len(events) : events[i].kind # "inputDone"
    <3>1. 1 \in 1..Len(events) /\ \A i \in 1..Len(events') : i + 1 \in 1..Len(events)
      BY <1>2
    <3>2. e.kind # "inputDone"
      BY <1>2, <2>1, <3>1
    <3>3. prompted'
      BY <1>1, <2>1, <3>2
    <3>4. \A i \in 1..Len(events') : events'[i].kind # "inputDone"
      BY <1>2, <2>1, <3>1
    <3> QED BY <3>3, <3>4 DEF Prompting
  <2>2. ASSUME NEW i \in 1..Len(events), events[i].kind = "input",
               \A j \in 1..Len(events) : j > i => events[j].kind # "inputDone"
        PROVE  Prompting'
    <3>1. CASE i = 1
      <4>1. \A j \in 1..Len(events') : j + 1 \in 1..Len(events) /\ j + 1 > 1
        BY <1>2
      <4>2. prompted'
        BY <1>1, <1>2, <2>2, <3>1
      <4>3. \A j \in 1..Len(events') : events'[j].kind # "inputDone"
        BY <1>2, <2>2, <3>1, <4>1
      <4> QED BY <4>2, <4>3 DEF Prompting
    <3>2. CASE i # 1
      <4>1. /\ i - 1 \in 1..Len(events') /\ events'[i - 1] = events[i]
            /\ \A j \in 1..Len(events') : j > i - 1 => j + 1 \in 1..Len(events) /\ j + 1 > i
        BY <1>2, <2>2, <3>2
      <4>2. \A j \in 1..Len(events') : j > i - 1 => events'[j].kind # "inputDone"
        BY <1>2, <2>2, <4>1
      <4> QED BY <2>2, <4>1, <4>2 DEF Prompting
    <3> QED BY <3>1, <3>2
  <2> QED BY <1>3, <2>1, <2>2 DEF Prompting
<1>4. ASSUME Over PROVE Over'
  <2>1. \A d \in Queued : d = e \/ d \in Queued'
    <3>1. \A i \in 1..Len(events) : i = 1 \/ (i - 1 \in 1..Len(events') /\ events'[i - 1] = events[i])
      BY <1>2
    <3> QED BY <1>2, <3>1 DEF Queued
  <2> QED BY <1>1, <1>4, <2>1 DEF Over
<1> QED BY <1>3, <1>4

\* A move in which nobody executes a step: who was on the workflow still is,
\* has seen to its end, or has left it to another.
LEMMA MovesOn ==
    ASSUME Typed, Typed', InOrder, Finished, Kept, OnIt,
           chain' = chain, current' = current, have' = have, runs' = runs, asked' = asked,
           Over => Over', Prompting => Prompting', seen \subseteq seen', OneStart',
           ~alive' => ~alive \/ Over' \/ LastRun,
           \A u \in Threads : call'[u].at \in {"work", "advance", "step"}
                                 \/ call[u].at \in {"work", "advance", "step"} => call'[u] = call[u],
           \A s \in seen' : s \in seen \/ (call'["bus"].at = "think" /\ call'["bus"].step = s),
           call["bus"].at = "think" => call'["bus"] = call["bus"],
           \A e \in Queued : e.kind = "process" => e \in Queued' \/ e.step \in seen',
           \A u \in Threads : call[u].at = "check" => call'[u].at = "check",
           \A u \in Threads : call[u].at = "back" /\ call[u].result = "complete" =>
              \/ call'[u] = call[u] \/ Over'
              \/ current = 0 => call'["start"].at = "loop",
           Looping => \/ Looping'
                      \/ current = 0 /\ Over'
                      \/ MustAsk(current) /\ Prompting'
                      \/ /\ current # 0 /\ ~MustAsk(current)
                         /\ call'["start"].at = "check",
           Failing => Failing' \/ Over',
           call["bus"].at = "resume" =>
              call'["bus"].at \in {"resume", "check"} \/ Over' \/ LastRun
    PROVE  Kept' /\ OnIt'
<1>1. /\ {"start", "user", "bus", "background"} \subseteq Threads
      /\ call \in [Threads -> Calls] /\ Steps' = Steps
  BY DEF Typed, CallsTyped, Threads, Steps
<1>2. /\ Plain' <=> Plain
      /\ Computing' <=> Computing
      /\ MustAsk(current)' <=> MustAsk(current)
      /\ MustAsk(asked)' <=> MustAsk(asked)
      /\ LastRun' <=> LastRun
  BY PhaseStays DEF MustAsk, Asks, LastRun
<1>3. DataKept'
  BY <1>1 DEF Kept, DataKept
<1>4. Computed' /\ Ended' /\ AskedFor'
  BY <1>2 DEF Kept, Computed, Ended, AskedFor
<1>5. AskedLast'
  BY <1>1, <1>2 DEF Kept, AskedLast
<1>6. Asking'
  BY <1>1, <1>2 DEF OnIt, Asking, MustAsk, Asks
<1>7. Wanted'
  <2> SUFFICES ASSUME Computing PROVE Wanted'
    BY <1>2 DEF Wanted
  <2>1. ~MustAsk(current) /\ current # 0
    BY DEF Computing, MustAsk, Asks
  <2> QED BY <1>1, <1>2, <2>1 DEF OnIt, Wanted, Looping
<1>8. Moving'
  BY <1>1, <1>2 DEF OnIt, Moving, Driving
<1>9. Ending'
  BY <1>1, <1>2 DEF OnIt, Ending, Looping, MustAsk, Asks
<1> QED BY <1>3, <1>4, <1>5, <1>6, <1>7, <1>8, <1>9 DEF Kept, OnIt

LEMMA StartOnIt ==
    ASSUME Typed, Typed', InOrder, Finished, Kept, OnIt, StartLoop \/ StartBack
    PROVE  Kept' /\ OnIt'
<1>1. /\ chain' = chain /\ current' = current /\ have' = have /\ runs' = runs
      /\ asked' = asked /\ prompted' = prompted /\ alive' = alive /\ told' = told /\ seen' = seen
  BY DEF StartLoop, StartBack
<1>2. /\ call \in [Threads -> Calls] /\ current \in Steps \cup {0}
      /\ {"start", "user", "bus", "background"} \subseteq Threads
      /\ call["start"].at \in {"loop", "back"} /\ call["background"].at = "rest"
  BY DEF Typed, StateTyped, CallsTyped, Threads, Kept, OneStart, Resting, StartLoop, StartBack
<1>3. CASE StartLoop
  <2>1. /\ (Over => Over') /\ (Prompting => Prompting') /\ Queued \subseteq Queued'
        /\ events' = Append(events, Say("complete", 0)) => Over'
        /\ events' = Append(events, Say("input", current)) => Prompting'
    <3>1. \/ events' = events
          \/ \E kind \in {"complete", "input"}, s \in {0, current} : events' = Append(events, Say(kind, s))
      BY <1>3 DEF StartLoop, Publish
    <3>2. Say("complete", 0).kind = "complete"
      BY Events
    <3>3. events' = events => (Over => Over') /\ (Prompting => Prompting') /\ Queued \subseteq Queued'
      BY <1>1, Silent, PromptStays DEF Over
    <3>4. \A kind \in {"complete", "input"}, s \in {0, current} :
             events' = Append(events, Say(kind, s)) =>
                /\ (Over => Over') /\ (Prompting => Prompting') /\ Queued \subseteq Queued'
                /\ Say(kind, s) \in Queued'
                /\ kind = "input" => Prompting'
      BY <1>1, <1>2, PromptSays
    <3>5. events' = Append(events, Say("complete", 0)) => Over'
      BY <3>2, <3>4 DEF Over
    <3> QED BY <3>1, <3>3, <3>4, <3>5
  <2>2. \/ current = 0 /\ Over' /\ call'["start"].at = "rest"
        \/ MustAsk(current) /\ Prompting' /\ call'["start"].at = "rest"
        \/ current # 0 /\ ~MustAsk(current) /\ call'["start"].at = "check"
    <3>1. Stop("start") => call'["start"].at = "rest"
      BY <1>2, CallStops DEF Rest
    <3>2. \/ current = 0 /\ Over' /\ Stop("start")
          \/ MustAsk(current) /\ Prompting' /\ Stop("start")
          \/ /\ current # 0 /\ ~MustAsk(current)
             /\ call' = [call EXCEPT !["start"] = [Rest EXCEPT !.at = "check", !.began = current]]
      BY <1>3, <2>1 DEF StartLoop, Publish
    <3> QED BY <1>2, <3>1, <3>2 DEF Rest
  <2>3. call["start"].at = "loop" /\ \A u \in Threads \ {"start"} : call'[u] = call[u]
    BY <1>2, <1>3, CallStops DEF StartLoop
  <2>4. OneStart'
    BY <1>2, <2>3 DEF OneStart, Resting
  <2> QED BY <1>1, <1>2, <2>1, <2>2, <2>3, <2>4, MovesOn DEF Failing
<1>4. CASE StartBack
  <2>1. /\ \A u \in Threads \ {"start", "background"} : call'[u] = call[u]
        /\ call["start"].at = "back"
        /\ \/ /\ current # 0 /\ call'["start"].at = "rest" /\ call'["background"].at = "begin"
           \/ call'["start"].at = "loop" /\ call'["background"] = call["background"]
    BY <1>2, <1>4 DEF StartBack, Rest
  <2>2. (Over => Over') /\ (Prompting => Prompting') /\ Queued' = Queued
    BY <1>1, <1>4, Silent, PromptStays DEF StartBack, Over
  <2>3. OneStart'
    BY <1>2, <2>1 DEF OneStart, Resting
  <2> QED BY <1>1, <1>2, <2>1, <2>2, <2>3, MovesOn DEF Failing, Looping
<1> QED BY <1>3, <1>4

LEMMA CallersOnIt ==
    ASSUME Typed, Typed', InOrder, Finished, Kept, OnIt,
           \/ BackgroundBegin \/ BackgroundReport \/ Answer \/ Resume
           \/ \E t \in {"bus", "user"} : ContinueBack(t)
    PROVE  Kept' /\ OnIt'
<1>1. /\ chain' = chain /\ current' = current /\ have' = have /\ runs' = runs
      /\ asked' = asked /\ prompted' = prompted /\ told' = told /\ seen' = seen
  BY DEF BackgroundBegin, BackgroundReport, Answer, Resume, ContinueBack
<1>2. /\ call \in [Threads -> Calls] /\ current \in Steps \cup {0} /\ current \in Nat
      /\ {"start", "user", "bus", "background"} \subseteq Threads /\ "check" \in Places
  BY Shape DEF Typed, StateTyped, CallsTyped, Threads, Places
<1>3. /\ (Over => Over') /\ (Prompting => Prompting') /\ Queued \subseteq Queued'
      /\ events' = Append(events, Say("complete", 0)) => Over'
      /\ events' = Append(events, Say("failed", current)) => Over'
  <2>1. \/ events' = events
        \/ \E kind \in {"complete", "prompt", "review", "failed"}, s \in {0, current} :
              events' = Append(events, Say(kind, s))
    BY DEF BackgroundBegin, BackgroundReport, Answer, Resume, ContinueBack, Publish
  <2>2. Say("complete", 0).kind = "complete" /\ Say("failed", current).kind = "failed"
    BY <1>2, Events
  <2>3. events' = events => (Over => Over') /\ (Prompting => Prompting') /\ Queued \subseteq Queued'
    BY <1>1, Silent, PromptStays DEF Over
  <2>4. \A kind \in {"complete", "prompt", "review", "failed"}, s \in {0, current} :
           events' = Append(events, Say(kind, s)) =>
              /\ (Over => Over') /\ (Prompting => Prompting') /\ Queued \subseteq Queued'
              /\ Say(kind, s) \in Queued'
    BY <1>1, <1>2, PromptSays
  <2> QED BY <2>1, <2>2, <2>3, <2>4 DEF Over
<1>4. /\ \A t \in Threads : Stop(t) => /\ call'[t].at = "rest"
                                       /\ \A u \in Threads \ {t} : call'[u] = call[u]
      /\ \A t \in Threads : Goto(t, "check", current) =>
            /\ call'[t].at = "check" /\ \A u \in Threads \ {t} : call'[u] = call[u]
  BY <1>2, CallStops, CallGoes DEF Rest
<1>5. CASE BackgroundBegin \/ BackgroundReport
  <2>1. /\ call["background"].at \in {"begin", "back"}
        /\ call'["background"].at \in {"rest", "check"}
        /\ \A u \in Threads \ {"background"} : call'[u] = call[u]
        /\ call["background"].at = "back" /\ call["background"].result = "complete" => Over'
        /\ alive' = alive
    BY <1>2, <1>3, <1>4, <1>5 DEF BackgroundBegin, BackgroundReport, Publish
  <2>2. OneStart'
    BY <1>2, <2>1 DEF Kept, OneStart, Resting
  <2> QED BY <1>1, <1>2, <1>3, <2>1, <2>2, MovesOn DEF Looping, Failing
<1>6. CASE Answer
  <2>1. /\ call["user"].at = "rest" /\ call'["user"].at = "check"
        /\ \A u \in Threads \ {"user"} : call'[u] = call[u]
        /\ alive' = alive
    BY <1>2, <1>4, <1>6 DEF Answer, Rest
  <2>2. OneStart'
    BY <1>2, <2>1 DEF Kept, OneStart, Resting
  <2> QED BY <1>1, <1>2, <1>3, <2>1, <2>2, MovesOn DEF Looping, Failing
<1>7. CASE Resume
  <2>1. /\ call["bus"].at = "resume" /\ alive' = alive
        /\ call'["bus"].at = "check" \/ (~alive /\ call'["bus"].at = "rest")
        /\ \A u \in Threads \ {"bus"} : call'[u] = call[u]
    BY <1>2, <1>4, <1>7 DEF Resume
  <2>2. OneStart' /\ (~alive => Over' \/ LastRun)
    BY <1>2, <1>3, <2>1 DEF Kept, OneStart, Ended, Resting
  <2> QED BY <1>1, <1>2, <1>3, <2>1, <2>2, MovesOn DEF Looping, Failing
<1>8. ASSUME NEW t \in {"bus", "user"}, ContinueBack(t) PROVE Kept' /\ OnIt'
  <2>1. /\ call[t].at = "back" /\ call'[t].at = "rest"
        /\ \A u \in Threads \ {t} : call'[u] = call[u]
        /\ call[t].result \in {"complete", "failed"} => Over'
        /\ ~alive' => ~alive \/ Over' \/ current = 0
    BY <1>2, <1>3, <1>4, <1>8 DEF ContinueBack
  <2>2. OneStart' /\ (~alive' => ~alive \/ Over' \/ LastRun)
    BY <1>2, <2>1 DEF Kept, OneStart, Resting, Finished
  <2> QED BY <1>1, <1>2, <1>3, <2>1, <2>2, MovesOn DEF Looping, Failing
<1> QED BY <1>5, <1>6, <1>7, <1>8

LEMMA DispatchOnIt ==
    ASSUME Typed, Typed', InOrder, Finished, Kept, OnIt, Dispatch
    PROVE  Kept' /\ OnIt'
<1> DEFINE e == Head(events)
<1>1. /\ chain' = chain /\ current' = current /\ have' = have /\ runs' = runs
      /\ asked' = asked /\ alive' = alive /\ call["bus"].at = "rest"
      /\ seen' = IF e.kind = "process" THEN seen \cup {e.step} ELSE seen
  BY DEF Dispatch, Rest
<1>2. /\ call \in [Threads -> Calls] /\ "think" \in Places
      /\ {"start", "user", "bus", "background"} \subseteq Threads
  BY DEF Typed, CallsTyped, Threads, Places
<1>3. /\ e \in Event /\ e \in Queued /\ e.step \in Nat /\ e.kind # "review"
      /\ \A d \in Queued : d = e \/ d \in Queued'
  <2>1. e \in Event /\ e \in Queued
    BY Taken DEF Dispatch, Typed, EventsTyped
  <2>2. /\ events' = Tail(events) /\ events \in Seq(Event) /\ events # <<>>
    BY DEF Dispatch, Typed, EventsTyped
  <2>3. /\ Len(events) \in Nat \ {0} /\ Len(events') = Len(events) - 1 /\ e = events[1]
        /\ \A i \in 1..Len(events') : events'[i] = events[i + 1]
    BY <2>2, HeadTailProperties, LenProperties, EmptySeq
  <2>4. \A i \in 1..Len(events) : i = 1 \/ (i - 1 \in 1..Len(events') /\ events'[i - 1] = events[i])
    BY <2>3
  <2>5. e.step \in Nat
    BY <2>1, Shape DEF Event, Typed
  <2>6. e.kind # "review"
    BY <2>1 DEF InOrder, Results
  <2>7. \A d \in Queued : d = e \/ d \in Queued'
    BY <2>3, <2>4 DEF Queued
  <2> QED BY <2>1, <2>5, <2>6, <2>7
<1>4. \/ /\ e.kind = "process" /\ e.step \notin seen
         /\ call'["bus"].at = "think" /\ call'["bus"].step = e.step
      \/ call' = call /\ (e.kind = "process" => e.step \in seen)
  <2>1. \/ e.kind = "process" /\ e.step \notin seen /\ Goto("bus", "think", e.step)
        \/ call' = call /\ (e.kind = "process" => e.step \in seen)
    BY <1>3 DEF Dispatch
  <2> QED BY <1>2, <1>3, <2>1, CallGoes
<1>5. \A u \in Threads \ {"bus"} : call'[u] = call[u]
  <2>1. call' = call \/ Goto("bus", "think", e.step)
    BY <1>3 DEF Dispatch
  <2> QED BY <1>2, <1>3, <2>1, CallGoes
<1>6. OneStart'
  BY <1>2, <1>5 DEF Kept, OneStart, Resting
<1>7. (Prompting => Prompting') /\ (Over => Over')
  BY PromptTaken
<1> HIDE DEF e
<1> QED BY <1>1, <1>2, <1>3, <1>4, <1>5, <1>6, <1>7, MovesOn DEF Looping, Failing

LEMMA ThinkOnIt ==
    ASSUME Typed, Typed', Simple(chain), InOrder, Finished, Kept, OnIt, Think, ~broken'
    PROVE  Kept' /\ OnIt'
<1> DEFINE s == call["bus"].step
<1>1. /\ chain' = chain /\ current' = current /\ runs' = runs /\ asked' = asked
      /\ prompted' = prompted /\ alive' = alive /\ told' = told /\ seen' = seen
      /\ events' = events /\ have' = have \cup {s} /\ call["bus"].at = "think"
      /\ Goto("bus", "resume", 0)
  BY DEF Think
<1>2. /\ call \in [Threads -> Calls] /\ "resume" \in Places /\ Steps' = Steps
      /\ {"start", "user", "bus", "background"} \subseteq Threads
      /\ current \in Steps \cup {0} /\ s \in Steps
  BY <1>1 DEF Typed, StateTyped, CallsTyped, Executing, Threads, Places, Steps
<1>3. call'["bus"].at = "resume" /\ \A u \in Threads \ {"bus"} : call'[u] = call[u]
  BY <1>1, <1>2, CallGoes
<1>4. chain[s] = "llm" /\ ~Plain /\ ~Plain'
  BY <1>1 DEF InOrder, Results, Alone, Resting, Plain, Beyond
<1>5. /\ \A a : MustAsk(a)' => MustAsk(a)
      /\ MustAsk(current) <=> MustAsk(current)'
      /\ LastRun' <=> LastRun
      /\ (Over' <=> Over) /\ (Prompting' <=> Prompting) /\ Queued' = Queued
  BY <1>1, <1>2, <1>4, Silent DEF MustAsk, Asks, LastRun, Over, Prompting
<1>6. ~Computing'
  <2>1. current \in Steps /\ chain[current] = "llm" => current = s
    BY <1>2, <1>4, SimpleShape DEF Typed
  <2> QED BY <1>1, <1>2, <2>1 DEF Computing
<1>7. Kept'
  <2>1. DataKept' /\ OneStart' /\ Computed'
    BY <1>1, <1>2, <1>3 DEF Kept, DataKept, OneStart, Resting, Computed
  <2>2. Ended' /\ AskedLast' /\ AskedFor'
    BY <1>1, <1>4, <1>5 DEF Kept, Ended, AskedLast, AskedFor, MustAsk
  <2> QED BY <2>1, <2>2 DEF Kept
<1>8. Asking' /\ Wanted' /\ Ending'
  BY <1>1, <1>2, <1>3, <1>5, <1>6 DEF OnIt, Asking, Wanted, Ending, Looping, Failing
<1>9. Moving'
  <2>1. Computing => ~LastRun
    BY AllSupplied DEF Kept
  <2> QED BY <1>1, <1>2, <1>3, <1>5, <2>1 DEF OnIt, Moving, Driving, Looping, Failing
<1> QED BY <1>7, <1>8, <1>9 DEF OnIt

LEMMA CheckOnIt ==
    ASSUME Typed, Typed', Simple(chain), StartOver, InOrder, Finished, Kept, OnIt,
           NEW t \in Threads, Check(t)
    PROVE  Kept' /\ OnIt'
<1> DEFINE Works == /\ call'[t].at = "work" /\ call'[t].step = current
                    /\ current # 0 /\ ~Computing
                    /\ MustAsk(current) => t = "user"
                    /\ IF t = "user" THEN prompted' = FALSE /\ asked' = 0
                                     ELSE prompted' = prompted /\ asked' = asked
                    /\ events' = events
           Back == call'[t].at = "back"
<1>1. /\ chain' = chain /\ current' = current /\ have' = have /\ runs' = runs
      /\ alive' = alive /\ told' = told /\ seen' = seen
      /\ call[t].at = "check" /\ t \in {"start", "background", "bus", "user"}
  BY DEF Check, Threads
<1>2. /\ call \in [Threads -> Calls] /\ current \in Steps \cup {0} /\ current \in Nat
      /\ {"start", "user", "bus", "background"} \subseteq Threads /\ "work" \in Places
      /\ Steps' = Steps
  BY <1>1, Shape DEF Typed, StateTyped, CallsTyped, Threads, Places, Steps
<1>3. /\ Plain' <=> Plain
      /\ Computing' <=> Computing
      /\ \A a : MustAsk(a)' <=> MustAsk(a)
      /\ LastRun' <=> LastRun
  BY <1>1, PhaseStays DEF MustAsk, Asks, LastRun
<1>4. \/ Back /\ Computing /\ awaiting /\ UNCHANGED <<prompted, asked, events>>
      \/ /\ Back /\ current = 0 /\ call'[t].result = "complete"
         /\ UNCHANGED <<prompted, asked, events>>
      \/ Back /\ MustAsk(current) /\ t # "user" /\ prompted' = TRUE /\ AskFor(current)
      \/ /\ Back /\ Computing /\ events' = Append(events, Say("process", current))
         /\ UNCHANGED <<prompted, asked>>
      \/ Works
  <2>1. awaiting => current # 0 /\ chain[current] = "llm"
    BY DEF InOrder, Awaits
  <2>2. \/ Return(t, "failed") /\ Computing /\ awaiting /\ UNCHANGED <<prompted, asked, events>>
        \/ Return(t, "complete") /\ current = 0 /\ UNCHANGED <<prompted, asked, events>>
        \/ Return(t, "failed") /\ MustAsk(current) /\ t # "user" /\ prompted' = TRUE /\ AskFor(current)
        \/ /\ Return(t, "failed") /\ Computing /\ events' = Append(events, Say("process", current))
           /\ UNCHANGED <<prompted, asked>>
        \/ /\ Goto(t, "work", current) /\ current # 0 /\ ~Computing
           /\ MustAsk(current) => t = "user"
           /\ IF t = "user" THEN prompted' = FALSE /\ asked' = 0
                            ELSE prompted' = prompted /\ asked' = asked
           /\ events' = events
    BY <2>1 DEF Check, Computing, Publish
  <2> QED BY <1>2, <2>2, CallReturns, CallGoes
<1>5. \A u \in Threads \ {t} : call'[u] = call[u]
  <2>1. Return(t, "failed") \/ Return(t, "complete") \/ Goto(t, "work", current)
    BY DEF Check
  <2> QED BY <1>2, <2>1, CallReturns, CallGoes
<1>6. (Over => Over') /\ Queued \subseteq Queued'
  <2>1. \/ events' = events
        \/ \E kind \in {"input", "process"} : events' = Append(events, Say(kind, current))
    BY <1>4 DEF AskFor, Publish
  <2> QED BY <1>1, <1>2, <2>1, Silent, OverStays, PromptSays
<1>7. Prompting => Prompting' \/ (Works /\ t = "user")
  <2>1. \/ events' = events /\ (prompted => prompted')
        \/ \E kind \in {"input", "process"} :
              events' = Append(events, Say(kind, current)) /\ (prompted => prompted')
        \/ Works /\ t = "user"
    BY <1>4 DEF AskFor, Publish
  <2> QED BY <1>2, <2>1, PromptStays, PromptSays
<1>8. ASSUME Back, MustAsk(current), prompted' = TRUE, AskFor(current)
      PROVE  asked' = current /\ Prompting'
  <2>1. CASE asked = current /\ events' = events
    BY <1>1, <1>8, <2>1, PromptStays DEF Kept, AskedFor, AskFor
  <2>2. CASE asked' = current /\ events' = Append(events, Say("input", current))
    BY <1>2, <2>2, PromptSays
  <2> QED BY <1>8, <2>1, <2>2 DEF AskFor, Publish
<1>9. ASSUME Plain
      PROVE  Works /\ (t = "start" => ~MustAsk(current)) /\ t \in Drivers
  <2>1. t \in Drivers /\ ~awaiting /\ (t = "start" => ~MustAsk(current))
    BY <1>1, <1>9 DEF InOrder, Alone, Resting, Drivers
  <2>2. ~Computing /\ current # 0
    BY <1>2, <1>9, SimpleShape DEF Plain, Computing, Typed
  <2> QED BY <1>4, <2>1, <2>2 DEF Drivers
<1> HIDE DEF Works
<1>10. Works => /\ call'[t].at = "work" /\ call'[t].step = current /\ current # 0 /\ ~Computing
                /\ MustAsk(current) => t = "user"
                /\ t = "user" => asked' = 0
                /\ t # "user" => asked' = asked
  BY DEF Works
<1>11. DataKept'
  <2>1. ASSUME NEW u \in Threads, call'[u].at \in {"work", "step"}
        PROVE  \/ call'[u].step \in have \/ chain[call'[u].step] \notin {"ask", "llm"}
               \/ chain[call'[u].step] = "ask" /\ u = "user" /\ call'[u].at = "work"
    <3>1. CASE u = t
      BY <1>4, <1>10, <2>1, <3>1 DEF MustAsk, Asks, Computing
    <3>2. CASE u # t
      BY <1>5, <2>1, <3>2 DEF Kept, DataKept
    <3> QED BY <3>1, <3>2
  <2> QED BY <1>1, <1>2, <2>1 DEF Kept, DataKept
<1>12. OneStart' /\ Computed' /\ Ended'
  BY <1>1, <1>2, <1>3, <1>4, <1>5, <1>6, <1>10 DEF Kept, OneStart, Resting, Computed, Ended
<1>13. AskedLast'
  <2> SUFFICES ASSUME Plain PROVE asked' = 0
    BY <1>3 DEF AskedLast
  <2> QED BY <1>9, <1>10 DEF Kept, AskedLast, Drivers
<1>14. AskedFor'
  <2>2. ~MustAsk(0)
    BY DEF MustAsk, Asks
  <2>3. ASSUME MustAsk(asked)' PROVE Prompting'
    <3>1. MustAsk(asked')
      BY <1>1, <2>3 DEF MustAsk, Asks
    <3>2. CASE asked' = asked
      BY <1>7, <1>10, <2>2, <3>1, <3>2 DEF Kept, AskedFor
    <3>3. CASE asked' # asked
      BY <1>4, <1>8, <1>10, <2>2, <3>1, <3>3
    <3> QED BY <3>2, <3>3
  <2> QED BY <2>3 DEF AskedFor
<1>15. Asking'
  <2> SUFFICES ASSUME MustAsk(current) PROVE Asking'
    BY <1>1, <1>3 DEF Asking, MustAsk, Asks
  <2>1. CASE Works
    <3>1. call'["user"].at = "work" /\ call'["user"].step = current'
      BY <1>1, <1>10, <2>1
    <3> QED BY <3>1 DEF Asking
  <2>2. CASE ~Works
    BY <1>1, <1>2, <1>5, <1>6, <1>7, <2>2 DEF OnIt, Asking, Looping, Failing
  <2> QED BY <2>1, <2>2
<1>16. Wanted'
  <2> SUFFICES ASSUME Computing PROVE Wanted'
    BY <1>3 DEF Wanted
  <2>1. ~MustAsk(current) /\ current # 0
    BY DEF Computing, MustAsk, Asks
  <2>2. CASE events' = Append(events, Say("process", current))
    <3>1. Say("process", current) \in Queued'
      BY <1>2, <2>2, PromptSays
    <3>2. Say("process", current).kind = "process" /\ Say("process", current).step = current'
      BY <1>1, <1>2, Events
    <3> QED BY <3>1, <3>2 DEF Wanted
  <2>3. CASE awaiting /\ events' = events
    <3>1. t # "start"
      BY <1>1, <2>3 DEF InOrder, Awaits
    <3> QED BY <1>1, <1>2, <1>5, <1>6, <3>1 DEF OnIt, Wanted, Looping
  <2> QED BY <1>4, <1>10, <2>1, <2>2, <2>3
<1>17. Moving'
  BY <1>1, <1>3, <1>4, <1>10 DEF Moving, Driving
<1>18. Ending'
  BY <1>1, <1>2, <1>5, <1>6 DEF OnIt, Ending, Looping
<1> QED BY <1>11, <1>12, <1>13, <1>14, <1>15, <1>16, <1>17, <1>18 DEF Kept, OnIt

\* A thread that executes a step: where it is, and that it is alone where one
\* thread drives the workflow.
LEMMA Executes ==
    ASSUME Typed, Simple(chain), StartOver, InOrder, Kept, NEW t \in Threads,
           call[t].at \in {"work", "advance", "step"}
    PROVE  /\ Plain => /\ asked = 0
                       /\ \A u \in Threads \ {t} : call[u].at \notin {"work", "advance", "step"}
           /\ call[t].at # "advance" =>
                 /\ call[t].step \in Steps /\ Reached(call[t].step)
                 /\ Plain => call[t].step = current
                 /\ ~Plain => Beyond(call[t].step) /\ ~Computing
                 /\ ~Computing
<1>1. /\ {"start", "user", "bus", "background"} = Threads
      /\ call[t].at # "advance" => call[t].step \in Steps
  BY DEF Threads, Typed, CallsTyped, Executing
<1>2. Plain => asked = 0
  BY DEF Kept, AskedLast
<1>3. ASSUME Plain, NEW u \in Threads \ {t}, call[u].at \in {"work", "advance", "step"} PROVE FALSE
  BY <1>1, <1>3 DEF InOrder, Alone, StartOver, Resting
<1>4. Plain => ~Computing
  BY SimpleShape DEF Typed, StateTyped, Plain, Computing
<1> QED BY <1>1, <1>2, <1>3, <1>4 DEF InOrder, Stepping

\* A step that is done: the state after it, for what comes next.
LEMMA DoneKept ==
    ASSUME Typed, Typed', InOrder, Kept, chain' = chain, alive' = alive, seen' = seen,
           NEW t \in Threads, call[t].at \in {"work", "step"}, Done(call[t].step),
           call'[t].at \in {"advance", "back"},
           \A u \in Threads \ {t} : call'[u] = call[u], Over => Over'
    PROVE  /\ DataKept' /\ OneStart' /\ Computed' /\ Ended' /\ (LastRun => LastRun')
           /\ have \subseteq have'
           /\ \A a : MustAsk(a)' => MustAsk(a) /\ a # call[t].step
<1> DEFINE s == call[t].step
<1>1. /\ s \in Steps /\ 0 \notin Steps /\ Steps' = Steps /\ \A p \in Steps : p \in Nat
      /\ {"start", "user", "bus", "background"} \subseteq Threads
      /\ runs \in [Steps -> Nat]
  BY Shape DEF Typed, StateTyped, CallsTyped, Executing, Threads, Steps
<1>2. /\ runs' = [runs EXCEPT ![s] = @ + 1]
      /\ have' = have \cup (IF Asks(s) THEN {s} ELSE {})
  BY DEF Done
<1>3. s \in have' \/ chain[s] \notin {"ask", "llm"}
  BY <1>1, <1>2 DEF Kept, DataKept, Asks
<1>4. DataKept'
  <2>1. \A p \in Steps : chain[p] \in {"ask", "llm"} /\ runs'[p] > 0 => p \in have'
    BY <1>1, <1>2, <1>3 DEF Kept, DataKept
  <2>2. \A u \in Threads : call'[u].at \in {"work", "step"} => u # t
    OBVIOUS
  <2> QED BY <1>1, <1>2, <2>1, <2>2 DEF Kept, DataKept
<1>5. LastRun => LastRun'
  BY <1>1, LastRunStays
<1>6. OneStart' /\ Computed' /\ Ended'
  BY <1>1, <1>2, <1>5 DEF Kept, OneStart, Resting, Computed, Ended
<1>7. \A a : MustAsk(a)' => MustAsk(a) /\ a # s
  <2>1. ASSUME NEW a, MustAsk(a)' PROVE MustAsk(a) /\ a # s
    <3>1. a # 0 /\ chain[a] = "ask" /\ a \notin have'
      BY <2>1 DEF MustAsk, Asks
    <3> QED BY <1>2, <1>3, <3>1 DEF MustAsk, Asks
  <2> QED BY <2>1
<1> QED BY <1>2, <1>4, <1>5, <1>6, <1>7

\* The last step is done.
LEMMA LastOnIt ==
    ASSUME Typed, Typed', InOrder, Kept, OnIt, chain' = chain, alive' = alive, seen' = seen,
           asked' = asked, prompted' = prompted, events' = events, told' = told,
           NEW t \in Threads, call[t].at \in {"work", "step"}, Done(call[t].step),
           current' = 0, Return(t, "complete")
    PROVE  Kept' /\ OnIt'
<1>1. /\ call'[t].at = "back" /\ call'[t].result = "complete"
      /\ \A u \in Threads \ {t} : call'[u] = call[u]
  BY CallReturns DEF Typed, CallsTyped
<1>2. (Over => Over') /\ (Prompting => Prompting')
  BY Silent, PromptStays DEF Over
<1>3. /\ DataKept' /\ OneStart' /\ Computed' /\ Ended'
      /\ \A a : MustAsk(a)' => MustAsk(a)
  BY <1>1, <1>2, DoneKept
<1>4. ~Plain' /\ ~Computing' /\ ~MustAsk(current)'
  BY DEF Plain, Computing, MustAsk, Asks
<1>5. AskedLast' /\ AskedFor'
  <2>1. MustAsk(asked)' => MustAsk(asked)
    BY DEF MustAsk, Asks, Done
  <2> QED BY <1>2, <1>4, <2>1 DEF Kept, AskedLast, AskedFor
<1>6. OnIt'
  BY <1>1, <1>4 DEF OnIt, Asking, Wanted, Moving, Ending
<1> QED BY <1>3, <1>5, <1>6 DEF Kept

LEMMA AdvanceOnIt ==
    ASSUME Typed, Typed', Simple(chain), StartOver, InOrder, Finished, Kept, OnIt,
           NEW t \in Threads, Advance(t)
    PROVE  Kept' /\ OnIt'
<1>1. /\ chain' = chain /\ current' = current /\ have' = have /\ runs' = runs
      /\ alive' = alive /\ told' = told /\ seen' = seen /\ prompted' = prompted
      /\ call[t].at = "advance"
  BY DEF Advance
<1>2. /\ call \in [Threads -> Calls] /\ current \in Steps \cup {0} /\ current \in Nat
      /\ {"start", "user", "bus", "background"} \subseteq Threads /\ "step" \in Places
      /\ Steps' = Steps
  BY <1>1, Shape DEF Typed, StateTyped, CallsTyped, Threads, Places, Steps
<1>3. /\ Plain' <=> Plain
      /\ Computing' <=> Computing
      /\ \A a : MustAsk(a)' <=> MustAsk(a)
      /\ LastRun' <=> LastRun
  BY <1>1, PhaseStays DEF MustAsk, Asks, LastRun
<1>4. /\ \A u \in Threads \ {t} : call'[u] = call[u]
      /\ call'[t].at \in {"back", "step"}
      /\ call'[t].at = "step" =>
            /\ call'[t].step = current /\ current # 0 /\ ~MustAsk(current) /\ ~Computing
            /\ asked' = asked
      /\ call'[t].at = "back" => current = 0 \/ MustAsk(current) \/ Computing
  <2>1. \/ Return(t, "ok") /\ (current = 0 \/ MustAsk(current) \/ Computing)
        \/ /\ Goto(t, "step", current) /\ current # 0 /\ ~MustAsk(current) /\ ~Computing
           /\ asked' = asked
    BY DEF Advance, Computing
  <2> QED BY <1>2, <2>1, CallReturns, CallGoes
<1>5. /\ (Over => Over') /\ (Prompting => Prompting') /\ Queued \subseteq Queued'
      /\ Computing => events' = Append(events, Say("process", current))
      /\ MustAsk(current) => asked' = current /\ Prompting'
      /\ ~MustAsk(current) => asked' = asked
  <2>1. ~(MustAsk(current) /\ Computing) /\ (MustAsk(current) => current # 0) /\ (Computing => current # 0)
    BY DEF MustAsk, Asks, Computing
  <2>2. \/ /\ ~MustAsk(current) /\ ~Computing /\ events' = events /\ asked' = asked
        \/ Computing /\ events' = Append(events, Say("process", current)) /\ asked' = asked
        \/ MustAsk(current) /\ asked = current /\ asked' = asked /\ events' = events
        \/ MustAsk(current) /\ asked' = current /\ events' = Append(events, Say("input", current))
    BY <2>1 DEF Advance, AskFor, Publish, Computing
  <2>3. CASE events' = events
    BY <1>1, <2>1, <2>2, <2>3, Silent, PromptStays, OverStays, PromptSays DEF Kept, AskedFor
  <2>4. ASSUME NEW kind \in {"input", "process"}, events' = Append(events, Say(kind, current))
        PROVE  /\ (Over => Over') /\ (Prompting => Prompting') /\ Queued \subseteq Queued'
               /\ kind = "input" => Prompting'
    BY <1>1, <1>2, <2>4, PromptSays
  <2>5. (Over => Over') /\ (Prompting => Prompting') /\ Queued \subseteq Queued'
    BY <2>2, <2>3, <2>4
  <2>6. MustAsk(current) => asked' = current /\ Prompting'
    BY <2>1, <2>2, <2>4, <2>5 DEF Kept, AskedFor
  <2> QED BY <2>1, <2>2, <2>5, <2>6
<1>6. DataKept' /\ OneStart' /\ Computed' /\ Ended'
  <2>1. call'[t].at = "step" => /\ current \in Steps /\ call'[t].step = current
                                /\ current \in have \/ chain[current] \notin {"ask", "llm"}
    BY <1>2, <1>4 DEF MustAsk, Asks, Computing
  <2>2. DataKept'
    <3> SUFFICES ASSUME NEW u \in Threads, call'[u].at \in {"work", "step"}
                 PROVE  \/ call'[u].step \in have \/ chain[call'[u].step] \notin {"ask", "llm"}
                        \/ chain[call'[u].step] = "ask" /\ u = "user" /\ call'[u].at = "work"
      BY <1>1, <1>2 DEF Kept, DataKept
    <3> QED BY <1>4, <2>1 DEF Kept, DataKept
  <2> QED BY <1>1, <1>2, <1>3, <1>4, <1>5, <2>2 DEF Kept, OneStart, Resting, Computed, Ended
<1>7. AskedLast'
  <2> SUFFICES ASSUME Plain, asked' # 0
               PROVE  /\ asked' = current /\ MustAsk(current)
                      /\ \A u \in Threads : call'[u].at \notin {"work", "advance", "step"}
    BY <1>1, <1>3 DEF AskedLast, MustAsk, Asks
  <2>1. asked = 0 /\ \A u \in Threads \ {t} : call[u].at \notin {"work", "advance", "step"}
    BY <1>1, Executes
  <2> QED BY <1>4, <1>5, <2>1
<1>8. AskedFor'
  <2>1. MustAsk(asked)' => (asked' = asked /\ MustAsk(asked)) \/ Prompting'
    BY <1>1, <1>5 DEF MustAsk, Asks
  <2> QED BY <1>5, <2>1 DEF Kept, AskedFor
<1>9. Asking'
  BY <1>1, <1>3, <1>5 DEF Asking, MustAsk, Asks
<1>10. Wanted'
  <2> SUFFICES ASSUME Computing PROVE Wanted'
    BY <1>3 DEF Wanted
  <2>1. Say("process", current) \in Queued'
    BY <1>2, <1>5, PromptSays
  <2>2. Say("process", current).kind = "process" /\ Say("process", current).step = current'
    BY <1>1, <1>2, Events
  <2> QED BY <2>1, <2>2 DEF Wanted
<1>11. Moving'
  BY <1>1, <1>3, <1>4 DEF Moving, Driving, MustAsk, Asks
<1>12. Ending'
  BY <1>1, <1>2, <1>4, <1>5 DEF OnIt, Ending, Looping
<1> QED BY <1>6, <1>7, <1>8, <1>9, <1>10, <1>11, <1>12 DEF Kept, OnIt

LEMMA AdvanceStepOnIt ==
    ASSUME Typed, Typed', Simple(chain), StartOver, InOrder, Finished, Kept, OnIt,
           NEW t \in Threads, AdvanceStep(t), ~broken'
    PROVE  Kept' /\ OnIt'
<1> DEFINE s == call[t].step
           n == After(s)
<1>1. /\ chain' = chain /\ alive' = alive /\ told' = told /\ seen' = seen
      /\ prompted' = prompted /\ asked' = asked /\ events' = events
      /\ call[t].at = "step"
  BY DEF AdvanceStep
<1>2. /\ call \in [Threads -> Calls] /\ s \in Steps /\ 0 \notin Steps
      /\ "advance" \in Places /\ 0 \in Nat
      /\ chain[s] # "last" => n \in Steps
      /\ Plain => asked = 0
      /\ ~Plain => Beyond(s)
  <2>1. s \in Steps /\ (~Plain => Beyond(s)) /\ (Plain => asked = 0)
    BY <1>1, Executes
  <2> QED BY <2>1, Shape DEF Typed, CallsTyped, Places
<1>3. ~Fails(s) \/ ~Breaks(s)
  BY <1>1, <1>2 DEF Fails, Breaks, Kept, DataKept, Asks
<1>4. CASE chain[s] = "last" /\ Done(s) /\ current' = 0 /\ Return(t, "complete")
  BY <1>1, <1>4, LastOnIt
<1>5. CASE chain[s] # "last" /\ Done(s) /\ current' = n /\ Goto(t, "advance", 0)
  <2>1. call'[t].at = "advance" /\ \A u \in Threads \ {t} : call'[u] = call[u]
    BY <1>2, <1>5, CallGoes
  <2>2. (Over => Over') /\ (Prompting => Prompting')
    BY <1>1, Silent, PromptStays DEF Over
  <2>3. /\ DataKept' /\ OneStart' /\ Computed' /\ Ended'
        /\ \A a : MustAsk(a)' => MustAsk(a)
    BY <1>1, <1>5, <2>1, <2>2, DoneKept
  <2>4. AskedLast'
    <3>1. Plain' => Plain
      <4>1. ASSUME ~Plain, Plain' PROVE FALSE
        <5>1. Beyond(n) /\ current' = n
          BY <1>2, <1>5, <2>1, <4>1, SimpleShape DEF Typed
        <5> QED BY <1>1, <4>1, <5>1 DEF Plain, Beyond
      <4> QED BY <4>1
    <3> QED BY <1>1, <1>2, <3>1 DEF AskedLast
  <2>5. AskedFor'
    <3>1. MustAsk(asked)' => MustAsk(asked)
      BY <1>1, <1>5 DEF MustAsk, Asks, Done
    <3> QED BY <2>2, <3>1 DEF Kept, AskedFor
  <2>6. current' # 0
    BY <1>2, <1>5
  <2>7. OnIt'
    BY <2>1, <2>6 DEF OnIt, Asking, Wanted, Moving, Ending, Driving
  <2> QED BY <2>3, <2>4, <2>5, <2>7 DEF Kept
<1> QED BY <1>1, <1>3, <1>4, <1>5 DEF AdvanceStep

\* A step with a question or a result behind it: who asked does not ask again.
LEMMA WorkOnIt ==
    ASSUME Typed, Typed', Simple(chain), AsksAtOnce(chain), StartOver, InOrder, Finished,
           Kept, OnIt, NEW t \in Threads, Work(t), ~broken'
    PROVE  Kept' /\ OnIt'
<1> DEFINE s == call[t].step
           n == After(s)
           finished == IF Asks(s) THEN Append(events, Say("inputDone", s)) ELSE events
<1>1. /\ chain' = chain /\ alive' = alive /\ told' = told /\ seen' = seen
      /\ prompted' = prompted /\ call[t].at = "work"
  BY DEF Work
<1>2. /\ call \in [Threads -> Calls] /\ s \in Steps /\ s \in Nat /\ 0 \notin Steps
      /\ "advance" \in Places /\ 0 \in Nat /\ Steps' = Steps
      /\ {"start", "user", "bus", "background"} \subseteq Threads
      /\ chain[s] # "last" => n \in Steps /\ n = s + 1 /\ n \in Nat
      /\ Plain => asked = 0 /\ \A u \in Threads \ {t} : call[u].at \notin {"work", "advance", "step"}
      /\ ~Plain => Beyond(s)
      /\ ~Computing /\ Reached(s) /\ chain[s] # "work"
  <2>1. /\ s \in Steps /\ (~Plain => Beyond(s)) /\ ~Computing /\ Reached(s)
        /\ Plain => asked = 0 /\ \A u \in Threads \ {t} : call[u].at \notin {"work", "advance", "step"}
    BY <1>1, Executes
  <2>2. chain[s] # "work"
    BY <1>1 DEF InOrder, Stepping
  <2>3. chain[s] # "last" => n \in Steps /\ n = s + 1 /\ n \in Nat
    BY <2>1, Shape DEF Typed
  <2> QED BY <1>1, <2>1, <2>2, <2>3, Shape DEF Typed, CallsTyped, Places, Threads, Steps
\* A question behind the "llm" step that is asked for already is not this one's.
<1>3. ASSUME ~Plain, chain[s] = "ask", NEW a \in Steps, chain[a] = "ask", a # s PROVE a \in have
  <2>1. ~(a > s)
    BY <1>2, <1>3, AsksApart DEF Typed
  <2>2. a \in 1..(s - 1)
    BY <1>2, <1>3, <2>1, Shape DEF Typed
  <2> QED BY <1>2, <1>3, <2>2, Supplied DEF Kept
<1>4. CASE Fails(s) /\ Return(t, "failed") /\ Breaks(s)
           /\ UNCHANGED <<have, current, awaiting, asked, runs, events>>
  <2>1. /\ call'[t].at = "back" /\ call'[t].result = "failed"
        /\ \A u \in Threads \ {t} : call'[u] = call[u]
    BY <1>2, <1>4, CallReturns
  <2>2. t = "user"
    BY <1>1, <1>4 DEF Fails, Breaks, Kept, DataKept, Asks
  <2>3. /\ (Over => Over') /\ (Prompting => Prompting')
        /\ Plain' <=> Plain
        /\ Computing' <=> Computing
        /\ MustAsk(current)' <=> MustAsk(current)
        /\ MustAsk(asked)' <=> MustAsk(asked)
        /\ LastRun' <=> LastRun
    BY <1>1, <1>4, Silent, PromptStays, PhaseStays DEF Over, MustAsk, Asks, LastRun
  <2>4. DataKept' /\ OneStart' /\ Computed' /\ Ended' /\ AskedFor'
    BY <1>1, <1>2, <1>4, <2>1, <2>3
    DEF Kept, DataKept, OneStart, Resting, Computed, Ended, AskedFor
  <2>5. AskedLast'
    BY <1>2, <1>4, <2>3 DEF AskedLast
  <2>6. Asking' /\ Wanted' /\ Moving'
    BY <1>2, <2>1, <2>2, <2>3 DEF Asking, Wanted, Moving, Failing
  <2>7. Ending'
    BY <1>1, <1>2, <1>4, <2>1, <2>3 DEF OnIt, Ending, Looping
  <2> QED BY <2>4, <2>5, <2>6, <2>7 DEF Kept, OnIt
<1>5. CASE chain[s] = "last" /\ Done(s) /\ current' = 0 /\ Return(t, "complete")
           /\ UNCHANGED <<awaiting, asked, events>>
  BY <1>1, <1>5, LastOnIt
<1>6. ASSUME chain[s] \in {"ask", "llm"}, Done(s), current' = n,
             \/ /\ MustAsk(n) /\ asked' = n /\ Return(t, "ok")
                /\ events' = IF asked # n THEN Append(finished, Say("input", n)) ELSE finished
             \/ ~MustAsk(n) /\ Goto(t, "advance", 0) /\ events' = finished /\ asked' = asked
      PROVE  Kept' /\ OnIt'
  <2>1. /\ \A u \in Threads \ {t} : call'[u] = call[u]
        /\ MustAsk(n) => call'[t].at = "back"
        /\ ~MustAsk(n) => call'[t].at = "advance"
    BY <1>2, <1>6, CallReturns, CallGoes
  <2>2. n \in Steps /\ n # s /\ n # 0
    BY <1>2, <1>6
  <2>3. MustAsk(n) <=> MustAsk(current)'
    BY <1>1, <1>2, <1>6, <2>2 DEF MustAsk, Asks, Done
  <2>4. Over => Over'
    <3>1. CASE events' = events
      BY <1>1, <3>1, Silent, OverStays
    <3>2. CASE events' = Append(events, Say("inputDone", s))
      BY <1>1, <1>2, <3>2, PromptSays
    <3>3. CASE events' = Append(events, Say("input", n))
      BY <1>1, <2>2, <3>3, PromptSays
    <3>4. CASE events' = Append(Append(events, Say("inputDone", s)), Say("input", n))
      BY <1>1, <1>2, <2>2, <3>4, PromptSaysTwo, OverStays
    <3> QED BY <1>6, <3>1, <3>2, <3>3, <3>4
  <2>5. ASSUME MustAsk(n) PROVE Prompting'
    <3>1. CASE asked # n
      <4>1. \/ events' = Append(events, Say("input", n))
            \/ events' = Append(Append(events, Say("inputDone", s)), Say("input", n))
        BY <1>6, <2>5, <3>1
      <4> QED BY <1>2, <2>2, <4>1, PromptSays, PromptSaysTwo
    <3>2. CASE asked = n
      <4>1. ~Plain
        BY <1>2, <2>2, <3>2
      <4>2. ~Asks(s)
        BY <1>3, <2>2, <2>5, <4>1 DEF MustAsk, Asks
      <4>3. events' = events
        BY <1>6, <2>5, <3>2, <4>2
      <4> QED BY <1>1, <2>5, <3>2, <4>3, PromptStays DEF Kept, AskedFor
    <3> QED BY <3>1, <3>2
  <2>6. /\ DataKept' /\ OneStart' /\ Computed' /\ Ended'
        /\ \A a : MustAsk(a)' => MustAsk(a) /\ a # s
    BY <1>1, <1>6, <2>1, <2>4, DoneKept
  <2>7. AskedLast'
    <3>1. Plain' => Plain
      <4>1. ASSUME ~Plain, Plain' PROVE FALSE
        <5>1. Beyond(n)
          BY <1>2, <2>2, <4>1, SimpleShape DEF Typed
        <5> QED BY <1>1, <1>6, <4>1, <5>1 DEF Plain, Beyond
      <4> QED BY <4>1
    <3>2. Plain /\ asked' # 0 => asked' = n /\ MustAsk(n)
      BY <1>2, <1>6
    <3> QED BY <1>2, <1>6, <2>1, <2>3, <3>1, <3>2 DEF AskedLast, MustAsk, Asks
  <2>8. AskedFor'
    <3> SUFFICES ASSUME MustAsk(asked)', ~MustAsk(n) PROVE Prompting'
      BY <2>5 DEF AskedFor
    <3>1. asked' = asked /\ MustAsk(asked) /\ asked # s /\ events' = finished
      <4>1. asked' = asked /\ events' = finished
        BY <1>6
      <4>2. MustAsk(asked)
        BY <1>1, <1>6, <4>1 DEF MustAsk, Asks, Done
      <4>3. asked # s
        BY <1>1, <1>6, <2>6, <4>1 DEF MustAsk, Asks, Done, Kept, DataKept
      <4> QED BY <4>1, <4>2, <4>3
    <3>2. ~Plain /\ asked \in Steps /\ chain[asked] = "ask" /\ asked \notin have
      BY <1>2, <3>1 DEF MustAsk, Asks, Typed, StateTyped
    <3>3. ~Asks(s)
      BY <1>2, <1>3, <3>1, <3>2 DEF Asks
    <3> QED BY <1>1, <3>1, <3>3, PromptStays DEF Kept, AskedFor
  <2>9. CASE MustAsk(n)
    <3>1. MustAsk(current)' /\ current' # 0
      BY <1>1, <1>6, <2>2, <2>3, <2>9 DEF MustAsk, Asks
    <3>2. ~Computing'
      BY <3>1 DEF MustAsk, Asks, Computing
    <3> QED BY <2>5, <2>6, <2>7, <2>8, <2>9, <3>1, <3>2
        DEF Kept, OnIt, Asking, Wanted, Moving, Ending
  <2>10. CASE ~MustAsk(n)
    <3>1. current' # 0 /\ call'[t].at = "advance"
      BY <1>6, <2>1, <2>2, <2>10
    <3> QED BY <2>6, <2>7, <2>8, <3>1
        DEF Kept, OnIt, Asking, Wanted, Moving, Ending, Driving
  <2> QED BY <2>9, <2>10
<1> QED BY <1>1, <1>2, <1>4, <1>5, <1>6 DEF Work

LEMMA InitOnIt == Init => Kept /\ OnIt
<1> SUFFICES ASSUME Init PROVE Kept /\ OnIt
  OBVIOUS
<1>1. /\ chain \in Chains /\ current = 1 /\ "start" \in Threads
      /\ current # 0 /\ asked = 0 /\ seen = {} /\ alive = TRUE
      /\ call["start"].at = "loop"
      /\ \A t \in Threads : call[t].at \notin {"work", "step"}
      /\ \A t \in Threads \ {"start"} : call[t].at = "rest"
      /\ \A s \in Steps : ~(runs[s] > 0)
  BY DEF Init, Rest, Threads
<1>2. DataKept /\ OneStart /\ Computed /\ Ended /\ AskedLast /\ AskedFor
  BY <1>1 DEF DataKept, OneStart, Resting, Threads, Computed, Ended, AskedLast, AskedFor,
     MustAsk, Asks
<1>3. Asking /\ Wanted /\ Moving /\ Ending
  BY <1>1 DEF Asking, Wanted, Moving, Ending, Looping
<1> QED BY <1>2, <1>3 DEF Kept, OnIt

OnItUnlessBroken == ~broken => Kept /\ OnIt

LEMMA OnItStep ==
    ASSUME Typed, Typed', Simple(chain), AsksAtOnce(chain), FinishedUnlessBroken,
           OrderUnlessBroken, OnItUnlessBroken, [Next]_vars
    PROVE  OnItUnlessBroken'
<1> SUFFICES ASSUME ~broken' PROVE Kept' /\ OnIt'
  BY DEF OnItUnlessBroken
<1>1. CASE UNCHANGED vars
  <2>1. /\ chain' = chain /\ call' = call /\ events' = events /\ current' = current
        /\ runs' = runs /\ broken' = broken /\ have' = have /\ asked' = asked
        /\ prompted' = prompted /\ alive' = alive /\ told' = told /\ seen' = seen
    BY <1>1 DEF vars
  <2>2. Kept /\ OnIt /\ InOrder /\ Finished
    BY <2>1 DEF OnItUnlessBroken, OrderUnlessBroken, FinishedUnlessBroken
  <2>3. (Over => Over') /\ (Prompting => Prompting') /\ OneStart' /\ Queued' = Queued
    BY <2>1, <2>2, Silent, PromptStays DEF Over, Kept, OneStart, Resting
  <2> QED BY <2>1, <2>2, <2>3, MovesOn DEF Looping, Failing
<1>2. CASE Next
  <2>1. /\ StartStep => StartLoop \/ StartBack \/ ProcessInput("start")
        /\ BackgroundStep => BackgroundBegin \/ BackgroundReport \/ ProcessInput("background")
        /\ BusStep => \/ Dispatch \/ Think \/ Approve \/ ApprovedStep
                      \/ Resume \/ ProcessInput("bus") \/ ContinueBack("bus")
        /\ UserStep => ProcessInput("user") \/ ContinueBack("user")
        /\ {"start", "background", "bus", "user"} \subseteq Threads
    BY DEF StartStep, BackgroundStep, BusStep, UserStep, Threads
  <2>2. StartOver /\ InOrder /\ Finished /\ Kept /\ OnIt
    BY <1>2, BrokenStays DEF OrderUnlessBroken, FinishedUnlessBroken, OnItUnlessBroken
  <2>3. ASSUME NEW t \in Threads, ProcessInput(t) PROVE Kept' /\ OnIt'
    BY <2>2, <2>3, CheckOnIt, WorkOnIt, AdvanceOnIt, AdvanceStepOnIt DEF ProcessInput
  <2>4. ~Approve /\ ~ApprovedStep
    BY <2>2 DEF InOrder, Results, Approve, ApprovedStep
  <2> QED BY <1>2, <2>1, <2>2, <2>3, <2>4, StartOnIt, CallersOnIt, DispatchOnIt, ThinkOnIt
      DEF Next
<1> QED BY <1>1, <1>2

\* Nobody waits for nobody: while no step has failed, a workflow at rest whose
\* end the LLM has not been told has a live engine and a current step that
\* wants input, and the user has been asked for it, for every number of steps,
\* every order of the threads' calls and every answer that is refused.
THEOREM NobodyForgotten ==
    ASSUME \A c \in Chains : Simple(c) /\ AsksAtOnce(c)
    PROVE  Spec => []NeverForgotten
<1> DEFINE Inv == Typed /\ FinishedUnlessBroken /\ OrderUnlessBroken /\ OnItUnlessBroken
<1>1. Typed => Simple(chain) /\ AsksAtOnce(chain)
  BY DEF Typed
<1>2. Inv => NeverForgotten
  <2> SUFFICES ASSUME Inv, ~broken, Idle, events = <<>>, ~told
               PROVE  prompted /\ MustAsk(current) /\ alive
    BY DEF NeverForgotten, WaitsForTheUser
  <2>1. /\ InOrder /\ Kept /\ OnIt
        /\ \A t \in Threads : call[t].at = "rest"
        /\ {"start", "user", "bus"} \subseteq Threads
    BY DEF OrderUnlessBroken, OnItUnlessBroken, Idle, Rest, Threads
  <2>2. ~Over /\ Queued = {} /\ (Prompting => prompted)
    <3>1. 1..Len(events) = {}
      BY EmptySeq
    <3> QED BY <3>1 DEF Over, Prompting, Queued
  <2>3. ~Looping /\ ~Failing /\ ~Driving
    BY <2>1 DEF Looping, Failing, Driving
  <2>4. ~Computing
    <3>1. Computing => current \notin have
      BY DEF Computing
    <3> QED BY <2>1, <2>2, <2>3, <3>1 DEF OnIt, Wanted, Kept, Computed
  <2>5. current # 0
    BY <2>1, <2>2, <2>3 DEF OnIt, Ending
  <2>6. MustAsk(current)
    BY <2>1, <2>2, <2>3, <2>4, <2>5 DEF OnIt, Moving
  <2>7. prompted
    BY <2>1, <2>2, <2>3, <2>6 DEF OnIt, Asking
  <2>8. ~LastRun
    BY <2>1, <2>6, AllSupplied DEF Kept
  <2> QED BY <2>1, <2>2, <2>6, <2>7, <2>8 DEF Kept, Ended, Typed, StateTyped
<1>3. Init => Inv
  BY InitTyped, InitFinished, InitInOrder, InitOnIt
  DEF OrderUnlessBroken, FinishedUnlessBroken, OnItUnlessBroken
<1>4. Inv /\ [Next]_vars => Inv'
  BY <1>1, TypedStep, FinishedStep, OrderStep, OnItStep
<1> QED BY <1>2, <1>3, <1>4, PTL DEF Spec
=============================================================================
