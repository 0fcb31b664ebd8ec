---------------------------- MODULE SpeechOutput ----------------------------
(***************************************************************************)
(* How a reply is spoken.  The coordinator starts a thread for each reply, *)
(* which calls the TTS module under the lock that every module is invoked  *)
(* under, the LLM by the bus's thread included; mischief speaks from the   *)
(* loop's thread and calls the TTS module without it.  The TTS module      *)
(* speaks under one asyncio.Lock, in an event loop of the calling thread:  *)
(* a short text is synthesised and then played, a long one is cut into     *)
(* chunks, which a producer synthesises and puts into a queue of two and a *)
(* consumer takes and plays.                                               *)
(*                                                                         *)
(* asyncio.Lock is not made for several threads, and the model has what it *)
(* does there (Python 3.10): a look at the lock and taking it are two      *)
(* steps; a waiter binds the lock to its own loop for good; a release      *)
(* signals a waiter without waking its loop.  Temporary files, volume and  *)
(* metrics are left out.                                                   *)
(***************************************************************************)
EXTENDS Integers, Sequences, SequencesExt

CONSTANTS
    Replies,        \* what the coordinator has the TTS module say
    Mischief,       \* what mischief has it say, one text after another
    Chunks,         \* the number of chunks of each text; one is not streamed
    Faulty,         \* the texts of which a chunk may fail to be synthesised
    Unplayable,     \* the texts of which a chunk may fail to be played
    Player          \* is simpleaudio installed?

Texts == Replies \cup Mischief
Nobody == "nobody"

ASSUME SpeechAssumption ==
    /\ Replies \cap Mischief = {}
    /\ Replies \cap {"bus", "loop", Nobody} = {}
    /\ Chunks \in [Texts -> Nat \ {0}]
    /\ Faulty \subseteq Texts /\ Unplayable \subseteq Texts
    /\ Player \in BOOLEAN

VARIABLES
    bus,            \* the bus's thread: at rest, calling the LLM, in the LLM
    holder,         \* who holds _invocation_lock
    pc,             \* how far the call of TTSModule.handle for a text is
    locked, waiters,    \* _playback_lock's _locked and _waiters
    bound,          \* the loop _playback_lock is bound to
    signalled,      \* the waiters whose future is done
    speech,         \* producer, queue and consumer of a text; the consumer
                    \* gives what it has `played` to the player
    silent,         \* the texts of which a chunk was played without a sound
    result,         \* the reply's status
    told            \* the texts whose OUTPUT_LAYER_COMPLETE was published

lock == <<locked, waiters, bound, signalled>>
vars == <<bus, holder, pc, locked, waiters, bound, signalled, speech, silent, result, told>>

QueueSize == 2

\* A chunk in the queue is its number; a failed one and the end are marks.
Failed == 0
Nothing == -1
End(t) == Chunks[t] + 1

\* Each output thread makes a loop of its own; the loop's thread keeps one.
LoopOf(t) == IF t \in Mischief THEN "loop" ELSE t

Init ==
    /\ bus = "rest" /\ holder = Nobody
    /\ pc = [t \in Texts |-> "none"]
    /\ locked = FALSE /\ waiters = <<>>
    /\ bound = Nobody /\ signalled = {}
    /\ speech = [t \in Texts |-> [made |-> 0, item |-> Nothing, queue |-> <<>>,
                                  played |-> <<>>, stopped |-> FALSE, failed |-> 0]]
    /\ silent = {}
    /\ result = [t \in Texts |-> "none"]
    /\ told = {}

Go(t, from, to) == pc[t] = from /\ pc' = [pc EXCEPT ![t] = to]

-----------------------------------------------------------------------------
(* The callers. *)

\* An input or a report reaches the bus's thread, which invokes the LLM.
BusCalls ==
    /\ bus = "rest"
    /\ \E t \in Replies : pc[t] = "none"
    /\ bus' = "calls"
    /\ UNCHANGED <<holder, pc, lock, speech, silent, result, told>>

BusInvokes ==
    /\ bus = "calls" /\ holder = Nobody
    /\ bus' = "thinks" /\ holder' = "bus"
    /\ UNCHANGED <<pc, lock, speech, silent, result, told>>

\* The LLM's reply is given to a new output thread.
BusReplies(t) ==
    /\ bus = "thinks" /\ t \in Replies
    /\ Go(t, "none", "called")
    /\ bus' = "rest" /\ holder' = Nobody
    /\ UNCHANGED <<lock, speech, silent, result, told>>

Invoke(t) ==
    /\ t \in Replies
    /\ Go(t, "called", "looks") /\ holder = Nobody
    /\ holder' = t
    /\ UNCHANGED <<bus, lock, speech, silent, result, told>>

\* Mischief's texts are spoken one after another.
Tease(t) ==
    /\ t \in Mischief
    /\ \A s \in Mischief : pc[s] \in {"none", "over"}
    /\ Go(t, "none", "looks")
    /\ UNCHANGED <<bus, holder, lock, speech, silent, result, told>>

-----------------------------------------------------------------------------
(* asyncio.Lock, entered from several threads. *)

\* acquire: free and nobody waits, or not.
Look(t) ==
    /\ Go(t, "looks", IF ~locked /\ waiters = <<>> THEN "takes" ELSE "enrols")
    /\ UNCHANGED <<bus, holder, lock, speech, silent, result, told>>

Take(t) ==
    /\ Go(t, "takes", "works")
    /\ locked' = TRUE
    /\ UNCHANGED <<bus, holder, waiters, bound, signalled, speech, silent, result, told>>

\* _get_loop binds the lock to the first waiter's loop, and raises for any
\* other loop ever after; the reply is then an error.
Enrol(t) ==
    \/ /\ Go(t, "enrols", "waits")
       /\ bound \in {Nobody, LoopOf(t)}
       /\ bound' = LoopOf(t)
       /\ waiters' = Append(waiters, t)
       /\ UNCHANGED <<bus, holder, locked, signalled, speech, silent, result, told>>
    \/ /\ Go(t, "enrols", "tells")
       /\ bound \notin {Nobody, LoopOf(t)}
       /\ result' = [result EXCEPT ![t] = "error"]
       /\ UNCHANGED <<bus, holder, lock, speech, silent, told>>

\* The waiter's loop has nothing else to do: it runs the callback of its
\* future, if that is done by now, or sleeps in select.
Select(t) ==
    \/ /\ Go(t, "waits", "works")
       /\ t \in signalled
       /\ signalled' = signalled \ {t}
       /\ \E i \in DOMAIN waiters :
             waiters[i] = t /\ waiters' = RemoveAt(waiters, i)
       /\ locked' = TRUE
       /\ UNCHANGED <<bus, holder, bound, speech, silent, result, told>>
    \/ /\ Go(t, "waits", "asleep")
       /\ t \notin signalled
       /\ UNCHANGED <<bus, holder, lock, speech, silent, result, told>>

\* release: the first waiter's future is done, which does not wake its loop; a
\* lock that is not taken, since two took it at once, raises.  A short text is
\* played when the lock is free again.
Release(t) ==
    /\ \/ /\ locked
          /\ Go(t, "releases",
                IF Chunks[t] = 1 /\ result[t] = "success" THEN "plays" ELSE "tells")
          /\ locked' = FALSE
          /\ signalled' = signalled \cup {waiters[i] : i \in DOMAIN waiters \cap {1}}
          /\ UNCHANGED result
       \/ /\ ~locked
          /\ Go(t, "releases", "tells")
          /\ result' = [result EXCEPT ![t] = "error"]
          /\ UNCHANGED <<locked, signalled>>
    /\ UNCHANGED <<bus, holder, waiters, bound, speech, silent, told>>

-----------------------------------------------------------------------------
(* What is said under the lock. *)

\* The first chunk that fails is remembered, for the properties only.
Fails(t, n) ==
    [speech[t] EXCEPT !.made = n, !.item = Failed,
                      !.failed = IF @ = 0 THEN n ELSE @]

\* A short text is synthesised.
Synthesise(t) ==
    /\ Chunks[t] = 1
    /\ Go(t, "works", "releases")
    /\ \/ /\ speech' = [speech EXCEPT ![t].made = 1]
          /\ result' = [result EXCEPT ![t] = "success"]
       \/ /\ t \in Faulty
          /\ speech' = [speech EXCEPT ![t] = Fails(t, 1)]
          /\ result' = [result EXCEPT ![t] = "error"]
    /\ UNCHANGED <<bus, holder, lock, silent, told>>

\* A chunk is given to the player: it is heard, or playing it raises.  Without
\* simpleaudio nothing is played, and nothing raises.
Sounds(t) == silent' = IF Player THEN silent ELSE silent \cup {t}
Raises(t) == Player /\ t \in Unplayable /\ silent' = silent \cup {t}

\* Mutant: an error of the player is swallowed, as it is for a chunk.
PlayQuietly(t) ==
    /\ Go(t, "plays", "tells")
    /\ speech' = [speech EXCEPT ![t].played = <<1>>]
    /\ Sounds(t) \/ Raises(t)
    /\ UNCHANGED <<bus, holder, lock, result, told>>

\* A short text is played, which makes the reply an error if it raises.
Play(t) ==
    /\ Go(t, "plays", "tells")
    /\ \/ /\ Sounds(t)
          /\ speech' = [speech EXCEPT ![t].played = <<1>>]
          /\ result' = result
       \/ /\ Raises(t)
          /\ result' = [result EXCEPT ![t] = "error"]
          /\ speech' = speech
    /\ UNCHANGED <<bus, holder, lock, told>>

\* The producer makes the next chunk, or the mark of the end.
Produce(t) ==
    LET n == speech[t].made + 1 IN
    /\ pc[t] = "works" /\ Chunks[t] > 1
    /\ speech[t].item = Nothing /\ n <= End(t)
    /\ \/ speech' = [speech EXCEPT ![t].made = n, ![t].item = n]
       \/ t \in Faulty /\ n < End(t) /\ speech' = [speech EXCEPT ![t] = Fails(t, n)]
    /\ UNCHANGED <<bus, holder, pc, lock, silent, result, told>>

\* Mutant: the producer does not wait for room.
PutAnyway(t) ==
    /\ pc[t] = "works" /\ speech[t].item # Nothing
    /\ speech' = [speech EXCEPT ![t].queue = Append(@, speech[t].item),
                                ![t].item = Nothing]
    /\ UNCHANGED <<bus, holder, pc, lock, silent, result, told>>

\* queue.put waits for room.
Put(t) ==
    /\ pc[t] = "works"
    /\ speech[t].item # Nothing /\ Len(speech[t].queue) < QueueSize
    /\ speech' = [speech EXCEPT ![t].queue = Append(@, speech[t].item),
                                ![t].item = Nothing]
    /\ UNCHANGED <<bus, holder, pc, lock, silent, result, told>>

\* The consumer takes what is next; playing a chunk may raise, which it swallows.
Taken(t, c) ==
    IF c \in 1 .. Chunks[t] THEN Sounds(t) \/ Raises(t) ELSE UNCHANGED silent

\* Mutant: the consumer leaves a failed chunk out and goes on.
GetPastFailures(t) ==
    LET c == Head(speech[t].queue) IN
    /\ pc[t] = "works"
    /\ speech[t].queue # <<>> /\ ~speech[t].stopped
    /\ speech' = [speech EXCEPT
           ![t].queue = Tail(@),
           ![t].played = IF c \in 1 .. Chunks[t] THEN Append(@, c) ELSE @,
           ![t].stopped = c = End(t)]
    /\ Taken(t, c)
    /\ UNCHANGED <<bus, holder, pc, lock, result, told>>

\* The consumer plays a chunk, or stops at the end or at a failed chunk.
Get(t) ==
    LET c == Head(speech[t].queue) IN
    /\ pc[t] = "works"
    /\ speech[t].queue # <<>> /\ ~speech[t].stopped
    /\ speech' = [speech EXCEPT
           ![t].queue = Tail(@),
           ![t].played = IF c \in 1 .. Chunks[t] THEN Append(@, c) ELSE @,
           ![t].stopped = c \notin 1 .. Chunks[t]]
    /\ Taken(t, c)
    /\ UNCHANGED <<bus, holder, pc, lock, result, told>>

\* Both tasks are awaited; the reply is a success whatever failed.
Streamed(t) ==
    /\ Chunks[t] > 1
    /\ Go(t, "works", "releases")
    /\ speech[t].made = End(t) /\ speech[t].item = Nothing /\ speech[t].stopped
    /\ result' = [result EXCEPT ![t] = "success"]
    /\ UNCHANGED <<bus, holder, lock, speech, silent, told>>

\* Mutant: only a success gives the lock back.
TellAndKeep(t) ==
    /\ Go(t, "tells", "over")
    /\ told' = told \cup {s \in {t} : result[s] = "success"}
    /\ holder' = IF holder = t /\ result[t] = "success" THEN Nobody ELSE holder
    /\ UNCHANGED <<bus, lock, speech, silent, result>>

\* _on_output_complete publishes a success; then handle returns.
Tell(t) ==
    /\ Go(t, "tells", "over")
    /\ told' = told \cup {s \in {t} : result[s] = "success"}
    /\ holder' = IF holder = t THEN Nobody ELSE holder
    /\ UNCHANGED <<bus, lock, speech, silent, result>>

-----------------------------------------------------------------------------
Speak(t) ==
    \/ Look(t) \/ Take(t) \/ Enrol(t) \/ Select(t) \/ Release(t)
    \/ Synthesise(t) \/ Play(t) \/ Produce(t) \/ Put(t) \/ Get(t) \/ Streamed(t) \/ Tell(t)

BusStep == BusInvokes \/ \E t \in Replies : BusReplies(t)

Next ==
    \/ BusCalls \/ BusStep
    \/ \E t \in Texts : Invoke(t) \/ Tease(t) \/ Speak(t)

Spec == Init /\ [][Next]_vars

\* Threads that can go on do so, and a lock that stays free is taken.
FairSpec ==
    /\ Spec
    /\ WF_vars(BusStep)
    /\ \A t \in Texts : WF_vars(Invoke(t)) /\ WF_vars(Speak(t))

-----------------------------------------------------------------------------
\* The fields of the coordinator, of the lock and of each call of handle.
TypeOK ==
    /\ bus \in {"rest", "calls", "thinks"}
    /\ holder \in Replies \cup {"bus", Nobody}
    /\ pc \in [Texts -> {"none", "called", "looks", "takes", "enrols", "waits",
                         "asleep", "works", "releases", "plays", "tells", "over"}]
    /\ locked \in BOOLEAN
    /\ waiters \in Seq(Texts) /\ signalled \subseteq Texts
    /\ bound \in Replies \cup {"loop", Nobody}
    /\ speech \in [Texts -> [made : Nat, item : Int, queue : Seq(Int),
                             played : Seq(Nat), stopped : BOOLEAN, failed : Nat]]
    /\ \A t \in Texts :
          /\ speech[t].made <= End(t)
          /\ speech[t].item \in Nothing .. End(t)
          /\ Len(speech[t].queue) <= QueueSize
    /\ silent \subseteq Texts
    /\ result \in [Texts -> {"none", "success", "error"}]
    /\ told \subseteq Texts

\* The last chunk of a text that can be played.
Reach(t, said) == IF said.failed = 0 THEN Chunks[t] ELSE said.failed - 1

\* Where there is a player, a short text is heard, or its playing has raised.
Mute(t) == Player /\ Chunks[t] = 1 /\ t \in silent

\* A text is played from its start, in order and without a gap, up to the
\* first chunk that could not be synthesised.  A text told to be spoken was
\* played that far (tts_module.py:562), and was heard if it is short; of a long
\* one nobody knows, since its playing may fail unnoticed.  And unless mischief
\* has spoken too, a reply that is over and neither had a failed chunk nor was
\* a short one that could not be played was told: replies never meet at the
\* playback lock, since each holds the invocation lock
\* (module_coordinator.py:1283).
HeardAsTold ==
    \A t \in Texts :
        LET last == Reach(t, speech[t])
        IN  /\ \A i \in DOMAIN speech[t].played : speech[t].played[i] = i
            /\ Len(speech[t].played) <= last
            /\ t \in told => Len(speech[t].played) = last /\ ~Mute(t)
            /\ pc[t] = "over" /\ speech[t].failed = 0 /\ ~Mute(t)
               /\ (\A s \in Mischief : pc[s] = "none") => t \in told

\* A text whose producer can never end: its consumer stopped at a failed
\* chunk, and what comes after is more than the queue holds.
Stuck(t) == speech[t].failed # 0 /\ End(t) - speech[t].failed > QueueSize

\* A reply that waits at the playback lock and has slept through its signal,
\* which takes mischief to have the lock.
Missed(t) == pc[t] = "asleep" /\ \E s \in Mischief : pc[s] # "none"

\* A call ends, and the bus's thread goes on, unless a text got stuck or
\* missed its signal: one such text, whoever speaks it, is the only thing
\* that can hold up the others.
SpeechEnds ==
    \/ <>(\E t \in Texts : Stuck(t) \/ Missed(t))
    \/ /\ \A t \in Texts : (pc[t] \notin {"none", "over"}) ~> (pc[t] = "over")
       /\ (bus # "rest") ~> (bus = "rest")
=============================================================================
