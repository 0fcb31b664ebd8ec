------------------------- MODULE SpeechOutputProofs -------------------------
(***************************************************************************)
(* Proofs about SpeechOutput for any replies, any texts of mischief and    *)
(* any numbers of chunks: its types, and that what is told was played.     *)
(*                                                                         *)
(* A streamed text is a line of chunks, cut in three: played, in the queue *)
(* and in the producer's hand.  The invariant numbers the line, says which *)
(* of its places may hold a failed chunk, and where the call is when the   *)
(* line has come to its end.                                               *)
(***************************************************************************)
EXTENDS SpeechOutput, TLAPS

Said == [made : Nat, item : Int, queue : Seq(Int),
         played : Seq(Nat), stopped : BOOLEAN, failed : Nat]

\* What is at place k of the line of t.
Content(t, said, k, v) ==
    /\ v \in {k, Failed}
    /\ v = Failed => said.failed \in 1 .. k /\ k <= Chunks[t]
    /\ k = said.failed => v = Failed

Got(said) == Len(said.played) + (IF said.stopped THEN 1 ELSE 0)
Gone(said) == said.made - (IF said.item = Nothing THEN 0 ELSE 1)

\* A streamed text.
Line(t, said) ==
    /\ said.made <= End(t)
    /\ said.failed <= said.made /\ said.failed <= Chunks[t]
    /\ Len(said.queue) = Gone(said) - Got(said)
    /\ \A j \in 1 .. Len(said.queue) : Content(t, said, Got(said) + j, said.queue[j])
    /\ said.item # Nothing => said.made > 0 /\ Content(t, said, said.made, said.item)
    /\ \A i \in 1 .. Len(said.played) : said.played[i] = i
    /\ ~said.stopped => /\ said.failed = 0 \/ said.failed > Len(said.played)
                        /\ Len(said.played) <= Chunks[t]
    /\ said.stopped => Len(said.played) = Reach(t, said)

\* A short text has no queue, and is played after the lock is released.
Short(said, at, res) ==
    /\ said.queue = <<>> /\ ~said.stopped
    /\ said.played = <<>> \/ (said.played = <<1>> /\ said.failed = 0)
    /\ said.failed <= said.made /\ said.made <= 1
    /\ at \notin {"releases", "plays", "tells", "over"} =>
          said.made = 0 /\ said.item = Nothing /\ said.played = <<>>
    /\ at = "releases" => /\ said.played = <<>>
                          /\ res = (IF said.failed = 0 THEN "success" ELSE "error")
    /\ at = "plays" => said.played = <<>> /\ said.failed = 0
    /\ at = "tells" /\ res = "success" => said.played = <<1>>

\* Where a call is when its text has come to its end.
Place(t, said, at, res, ts) ==
    /\ res # "none" => at \in {"releases", "plays", "tells", "over"}
    /\ at \in {"plays", "tells", "over"} => res # "none"
    /\ at = "plays" => Chunks[t] = 1
    /\ at = "releases" /\ Chunks[t] > 1 => said.stopped /\ res = "success"
    /\ at = "tells" /\ res = "success" => Len(said.played) = Reach(t, said)
    /\ t \in ts => /\ at = "over" /\ res = "success"
                   /\ Len(said.played) = Reach(t, said)
    /\ at = "over" /\ res = "success" => t \in ts

Spoken(t, said, at, res, ts) ==
    /\ IF Chunks[t] > 1 THEN Line(t, said) ELSE Short(said, at, res)
    /\ Place(t, said, at, res, ts)

Told == \A t \in Texts : Spoken(t, speech[t], pc[t], result[t], told)

\* A short text that made no sound is over, or about to be, with an error.
Muted == \A t \in Texts : Mute(t) => pc[t] \in {"tells", "over"} /\ result[t] = "error"

\* As long as mischief keeps still, the invocation lock does the playback
\* lock's work.
Still(at) == \A s \in Mischief : at[s] = "none"

Alone ==
    Still(pc) =>
        /\ waiters = <<>> /\ (bus = "thinks" => holder = "bus")
        /\ \A t \in Texts : pc[t] \notin {"enrols", "waits", "asleep"}
        /\ \A t \in Replies : holder = t <=> pc[t] \notin {"none", "called", "over"}
        /\ locked <=> \E t \in Texts : pc[t] \in {"works", "releases"}
        /\ \A t \in Texts : result[t] = "error" => speech[t].failed # 0 \/ Mute(t)

-----------------------------------------------------------------------------
LEMMA Ends == \A t \in Texts : Chunks[t] \in Nat /\ Chunks[t] > 0 /\ End(t) = Chunks[t] + 1
BY SpeechAssumption DEF End

\* What a step of the speech of t makes of its record.
LEMMA SaidTypes ==
    ASSUME TypeOK, NEW t \in Texts
    PROVE  /\ speech[t] \in Said
           /\ speech[t].made \in Nat /\ speech[t].item \in Int
           /\ speech[t].queue \in Seq(Int) /\ speech[t].played \in Seq(Nat)
           /\ speech[t].stopped \in BOOLEAN /\ speech[t].failed \in Nat
BY DEF TypeOK, Said

SpeechTypes ==
    /\ speech \in [Texts -> Said]
    /\ \A t \in Texts : /\ speech[t].made <= End(t)
                        /\ speech[t].item \in Nothing .. End(t)
                        /\ Len(speech[t].queue) <= QueueSize

LEMMA SaidChanges ==
    ASSUME TypeOK, NEW t \in Texts, NEW r \in Said,
           speech' = [speech EXCEPT ![t] = r],
           r.made <= End(t), r.item \in Nothing .. End(t), Len(r.queue) <= QueueSize
    PROVE  SpeechTypes'
<1>1. speech \in [Texts -> Said]
  BY DEF TypeOK, Said
<1>2. speech' \in [Texts -> Said]
  BY <1>1
<1>3. \A s \in Texts : speech'[s] = IF s = t THEN r ELSE speech[s]
  BY <1>1
<1> QED BY <1>2, <1>3 DEF SpeechTypes, TypeOK, End

\* Records that differ in some fields.
Making(r, m, i, f) == [r EXCEPT !.made = m, !.item = i, !.failed = f]
Producing(r, m, i) == [r EXCEPT !.made = m, !.item = i]
Queueing(r, w, i) == [r EXCEPT !.queue = w, !.item = i]
Playing(r, w, h) == [r EXCEPT !.queue = w, !.played = h, !.stopped = FALSE]
Stopping(r, w) == [r EXCEPT !.queue = w, !.stopped = TRUE]

LEMMA Made ==
    ASSUME NEW r \in Said, NEW m \in Nat, NEW i \in Int, NEW f \in Nat
    PROVE  LET q == Making(r, m, i, f) IN
           /\ q \in Said
           /\ q.made = m /\ q.item = i /\ q.failed = f
           /\ q.queue = r.queue /\ q.played = r.played /\ q.stopped = r.stopped
BY DEF Said, Making

LEMMA Produced ==
    ASSUME NEW r \in Said, NEW m \in Nat, NEW i \in Int
    PROVE  LET q == Producing(r, m, i) IN
           /\ q \in Said
           /\ q.made = m /\ q.item = i /\ q.failed = r.failed
           /\ q.queue = r.queue /\ q.played = r.played /\ q.stopped = r.stopped
BY DEF Said, Producing

LEMMA Queued ==
    ASSUME NEW r \in Said, NEW w \in Seq(Int), NEW i \in Int
    PROVE  LET q == Queueing(r, w, i) IN
           /\ q \in Said
           /\ q.made = r.made /\ q.item = i /\ q.failed = r.failed
           /\ q.queue = w /\ q.played = r.played /\ q.stopped = r.stopped
BY DEF Said, Queueing

LEMMA Played ==
    ASSUME NEW r \in Said, NEW w \in Seq(Int), NEW h \in Seq(Nat)
    PROVE  LET q == Playing(r, w, h) IN
           /\ q \in Said
           /\ q.made = r.made /\ q.item = r.item /\ q.failed = r.failed
           /\ q.queue = w /\ q.played = h /\ ~q.stopped
BY DEF Said, Playing

LEMMA Stops ==
    ASSUME NEW r \in Said, NEW w \in Seq(Int)
    PROVE  LET q == Stopping(r, w) IN
           /\ q \in Said
           /\ q.made = r.made /\ q.item = r.item /\ q.failed = r.failed
           /\ q.queue = w /\ q.played = r.played /\ q.stopped
BY DEF Said, Stopping

LEMMA PlaySays ==
    ASSUME TypeOK, NEW t \in Texts, Play(t)
    PROVE  \/ /\ speech' = [speech EXCEPT ![t] = [speech[t] EXCEPT !.played = <<1>>]]
              /\ result' = result /\ Sounds(t)
           \/ /\ speech' = speech
              /\ result' = [result EXCEPT ![t] = "error"] /\ Raises(t)
<1>1. speech \in [Texts -> Said]
  BY DEF TypeOK, Said
<1> QED BY <1>1 DEF Play, Said

LEMMA PutSays ==
    ASSUME TypeOK, NEW t \in Texts, Put(t)
    PROVE  speech' = [speech EXCEPT ![t] =
              Queueing(speech[t], Append(speech[t].queue, speech[t].item), Nothing)]
<1>1. speech \in [Texts -> Said]
  BY DEF TypeOK, Said
<1> QED BY <1>1 DEF Put, Said, Queueing

LEMMA SynthesiseSays ==
    ASSUME TypeOK, NEW t \in Texts, Synthesise(t)
    PROVE  \/ /\ speech' = [speech EXCEPT ![t] = [speech[t] EXCEPT !.made = 1]]
              /\ result' = [result EXCEPT ![t] = "success"]
           \/ /\ speech' = [speech EXCEPT ![t] = Fails(t, 1)]
              /\ result' = [result EXCEPT ![t] = "error"]
<1>1. speech \in [Texts -> Said]
  BY DEF TypeOK, Said
<1> QED BY <1>1 DEF Synthesise, Said

LEMMA ProduceSays ==
    ASSUME TypeOK, NEW t \in Texts, Produce(t)
    PROVE  LET n == speech[t].made + 1 IN
           \/ speech' = [speech EXCEPT ![t] = Producing(speech[t], n, n)]
           \/ n < End(t) /\ speech' = [speech EXCEPT ![t] = Fails(t, n)]
<1>1. speech \in [Texts -> Said]
  BY DEF TypeOK, Said
<1> QED BY <1>1 DEF Produce, Said, Producing

LEMMA GetSays ==
    ASSUME TypeOK, NEW t \in Texts, Get(t)
    PROVE  LET c == Head(speech[t].queue) IN
           \/ /\ c \in 1 .. Chunks[t]
              /\ speech' = [speech EXCEPT ![t] =
                    Playing(speech[t], Tail(speech[t].queue), Append(speech[t].played, c))]
           \/ /\ c \notin 1 .. Chunks[t]
              /\ speech' = [speech EXCEPT ![t] =
                    Stopping(speech[t], Tail(speech[t].queue))]
<1>1. speech \in [Texts -> Said]
  BY DEF TypeOK, Said
<1>2. CASE Head(speech[t].queue) \in 1 .. Chunks[t]
  BY <1>1, <1>2 DEF Get, Said, Playing, Stopping
<1>3. CASE Head(speech[t].queue) \notin 1 .. Chunks[t]
  BY <1>1, <1>3 DEF Get, Said, Playing, Stopping
<1> QED BY <1>2, <1>3

LEMMA FailsTyped ==
    ASSUME TypeOK, NEW t \in Texts, NEW n \in Nat \ {0}
    PROVE  /\ Fails(t, n) \in Said
           /\ Fails(t, n).made = n /\ Fails(t, n).item = Failed
           /\ Fails(t, n).queue = speech[t].queue
           /\ Fails(t, n).played = speech[t].played
           /\ Fails(t, n).stopped = speech[t].stopped
           /\ Fails(t, n).failed = IF speech[t].failed = 0 THEN n ELSE speech[t].failed
<1> DEFINE f == IF speech[t].failed = 0 THEN n ELSE speech[t].failed
<1>1. speech[t] \in Said /\ f \in Nat /\ Failed \in Int
  BY SaidTypes DEF Failed
<1>2. Fails(t, n) = Making(speech[t], n, Failed, f)
  BY DEF Fails, Making
<1> HIDE DEF f
<1>3. Fails(t, n).failed = f
  BY <1>1, <1>2, Made
<1> QED BY <1>1, <1>2, <1>3, Made DEF f

-----------------------------------------------------------------------------
OtherTypes ==
    /\ bus \in {"rest", "calls", "thinks"}
    /\ holder \in Replies \cup {"bus", Nobody}
    /\ pc \in [Texts -> {"none", "called", "looks", "takes", "enrols", "waits",
                         "asleep", "works", "releases", "plays", "tells", "over"}]
    /\ locked \in BOOLEAN
    /\ waiters \in Seq(Texts) /\ signalled \subseteq Texts
    /\ bound \in Replies \cup {"loop", Nobody}
    /\ silent \subseteq Texts
    /\ result \in [Texts -> {"none", "success", "error"}]
    /\ told \subseteq Texts

LEMMA TypesSplit ==
    /\ TypeOK <=> OtherTypes /\ SpeechTypes
    /\ TypeOK' <=> OtherTypes' /\ SpeechTypes'
BY DEF TypeOK, OtherTypes, SpeechTypes, Said

LEMMA TypesStart == Init => TypeOK
<1> SUFFICES ASSUME Init PROVE OtherTypes /\ SpeechTypes
  BY TypesSplit
<1>1. OtherTypes
  <2>1. bus \in {"rest", "calls", "thinks"} /\ holder \in Replies \cup {"bus", Nobody}
    BY DEF Init
  <2>2. pc \in [Texts -> {"none", "called", "looks", "takes", "enrols", "waits",
                       "asleep", "works", "releases", "plays", "tells", "over"}]
    BY DEF Init
  <2>3. waiters \in Seq(Texts) /\ signalled \subseteq Texts
    BY DEF Init
  <2>6. locked \in BOOLEAN
    BY Zenon DEF Init
  <2>4. /\ bound \in Replies \cup {"loop", Nobody} /\ told \subseteq Texts
        /\ silent \subseteq Texts
    BY DEF Init
  <2>5. result \in [Texts -> {"none", "success", "error"}]
    BY DEF Init
  <2> QED BY <2>1, <2>2, <2>3, <2>4, <2>5, <2>6 DEF OtherTypes
<1>2. SpeechTypes
  BY Ends DEF Init, SpeechTypes, Said, Nothing, QueueSize
<1> QED BY <1>1, <1>2

LEMMA TypesKept == TypeOK /\ [Next]_vars => TypeOK'
<1> SUFFICES ASSUME TypeOK, [Next]_vars PROVE OtherTypes' /\ SpeechTypes'
  BY TypesSplit
<1>0. OtherTypes /\ SpeechTypes
  BY TypesSplit
<1>1. CASE UNCHANGED vars
  BY <1>0, <1>1 DEF vars, OtherTypes, SpeechTypes, lock
<1>2. CASE BusCalls \/ BusInvokes
  BY <1>0, <1>2 DEF BusCalls, BusInvokes, OtherTypes, SpeechTypes, lock
<1>3. ASSUME NEW t \in Texts, BusReplies(t) \/ Invoke(t) \/ Tease(t) \/ Look(t) \/ Take(t)
      PROVE  OtherTypes' /\ SpeechTypes'
  <2>1. UNCHANGED speech
    BY <1>3 DEF BusReplies, Invoke, Tease, Look, Take
  <2> QED BY <1>0, <1>3, <2>1 DEF BusReplies, Invoke, Tease, Look, Take, Go,
             OtherTypes, SpeechTypes, lock, Texts
<1>4. ASSUME NEW t \in Texts, Enrol(t) PROVE OtherTypes' /\ SpeechTypes'
  <2>1. SpeechTypes' /\ UNCHANGED <<bus, holder, locked, signalled, silent, told>>
    BY <1>0, <1>4 DEF Enrol, SpeechTypes, lock
  <2>2. /\ waiters' \in Seq(Texts)
        /\ bound' \in Replies \cup {"loop", Nobody}
    BY <1>0, <1>4 DEF Enrol, LoopOf, OtherTypes, lock, Texts
  <2>3. /\ pc' \in [Texts -> {"none", "called", "looks", "takes", "enrols", "waits",
                             "asleep", "works", "releases", "plays", "tells", "over"}]
        /\ result' \in [Texts -> {"none", "success", "error"}]
    BY <1>0, <1>4 DEF Enrol, Go, OtherTypes
  <2> QED BY <1>0, <2>1, <2>2, <2>3 DEF OtherTypes
<1>5. ASSUME NEW t \in Texts, Select(t) PROVE OtherTypes' /\ SpeechTypes'
  <2>1. SpeechTypes' /\ UNCHANGED <<bus, holder, bound, silent, result, told>>
    BY <1>0, <1>5 DEF Select, SpeechTypes, lock
  <2>2. waiters' \in Seq(Texts) /\ signalled' \subseteq Texts
    <3>1. CASE UNCHANGED lock
      BY <1>0, <3>1 DEF lock, OtherTypes
    <3>2. ASSUME NEW i \in DOMAIN waiters, waiters' = RemoveAt(waiters, i)
          PROVE  waiters' \in Seq(Texts)
      BY <1>0, <3>2 DEF RemoveAt, OtherTypes
    <3> QED BY <1>0, <1>5, <3>1, <3>2 DEF Select, OtherTypes
  <2>3. locked' \in BOOLEAN
    BY <1>0, <1>5, Zenon DEF Select, lock, OtherTypes
  <2>4. pc' \in [Texts -> {"none", "called", "looks", "takes", "enrols", "waits",
                          "asleep", "works", "releases", "plays", "tells", "over"}]
    BY <1>0, <1>5 DEF Select, Go, OtherTypes
  <2> QED BY <1>0, <2>1, <2>2, <2>3, <2>4 DEF OtherTypes
<1>6. ASSUME NEW t \in Texts, Release(t) PROVE OtherTypes' /\ SpeechTypes'
  <2>1. locked' \in BOOLEAN
    BY <1>0, <1>6, Zenon DEF Release, OtherTypes
  <2>2. signalled' \subseteq Texts
    BY <1>0, <1>6 DEF Release, OtherTypes
  <2>3. /\ pc' \in [Texts -> {"none", "called", "looks", "takes", "enrols", "waits",
                             "asleep", "works", "releases", "plays", "tells", "over"}]
        /\ result' \in [Texts -> {"none", "success", "error"}]
    BY <1>0, <1>6 DEF Release, Go, OtherTypes
  <2>4. UNCHANGED <<bus, holder, waiters, bound, speech, silent, told>>
    BY <1>6 DEF Release
  <2> QED BY <1>0, <2>1, <2>2, <2>3, <2>4 DEF OtherTypes, SpeechTypes
<1>7. ASSUME NEW t \in Texts, Synthesise(t) PROVE OtherTypes' /\ SpeechTypes'
  <2>1. OtherTypes'
    BY <1>0, <1>7 DEF Synthesise, Go, OtherTypes, lock
  <2>2. [speech[t] EXCEPT !.made = 1] \in Said
    BY SaidTypes DEF Said
  <2>3. Failed \in Nothing .. End(t) /\ 1 <= End(t)
    BY Ends DEF Failed, Nothing
  <2>4. CASE speech' = [speech EXCEPT ![t] = [speech[t] EXCEPT !.made = 1]]
    <3> DEFINE r == [speech[t] EXCEPT !.made = 1]
    <3>1. /\ r \in Said /\ speech' = [speech EXCEPT ![t] = r]
          /\ r.made <= End(t) /\ r.item \in Nothing .. End(t)
          /\ Len(r.queue) <= QueueSize
      BY <1>0, <2>2, <2>3, <2>4, SaidTypes DEF SpeechTypes, Said
    <3> HIDE DEF r
    <3> QED BY <2>1, <3>1, SaidChanges
  <2>5. CASE speech' = [speech EXCEPT ![t] = Fails(t, 1)]
    <3> DEFINE r == Fails(t, 1)
    <3>1. /\ r \in Said /\ speech' = [speech EXCEPT ![t] = r]
          /\ r.made <= End(t) /\ r.item \in Nothing .. End(t)
          /\ Len(r.queue) <= QueueSize
      BY <1>0, <2>3, <2>5, FailsTyped DEF SpeechTypes
    <3> HIDE DEF r
    <3> QED BY <2>1, <3>1, SaidChanges
  <2> QED BY <1>7, <2>1, <2>4, <2>5, SynthesiseSays
<1>8. ASSUME NEW t \in Texts, Produce(t) PROVE OtherTypes' /\ SpeechTypes'
  <2> DEFINE n == speech[t].made + 1
  <2>1. OtherTypes'
    BY <1>0, <1>8 DEF Produce, OtherTypes, lock
  <2>2. n \in Nat \ {0} /\ n <= End(t)
    BY <1>8, SaidTypes DEF Produce
  <2>3. Producing(speech[t], n, n) \in Said
    BY <2>2, SaidTypes, Produced
  <2>4. Failed \in Nothing .. End(t) /\ n \in Nothing .. End(t)
    BY <2>2, Ends DEF Failed, Nothing
  <2> HIDE DEF n
  <2>5. CASE speech' = [speech EXCEPT ![t] = Producing(speech[t], n, n)]
    <3> DEFINE r == Producing(speech[t], n, n)
    <3>1. r.made = n /\ r.item = n /\ r.queue = speech[t].queue
      BY <2>2, SaidTypes, Produced
    <3>2. r \in Said /\ speech' = [speech EXCEPT ![t] = r]
      BY <2>3, <2>5
    <3> HIDE DEF r
    <3> QED BY <1>0, <2>1, <2>2, <2>4, <3>1, <3>2, SaidChanges DEF SpeechTypes
  <2>6. CASE speech' = [speech EXCEPT ![t] = Fails(t, n)]
    <3> DEFINE r == Fails(t, n)
    <3>1. /\ r \in Said /\ speech' = [speech EXCEPT ![t] = r]
          /\ r.made = n /\ r.item = Failed /\ r.queue = speech[t].queue
      BY <2>2, <2>6, FailsTyped
    <3> HIDE DEF r
    <3> QED BY <1>0, <2>1, <2>2, <2>4, <3>1, SaidChanges DEF SpeechTypes
  <2>7. \/ speech' = [speech EXCEPT ![t] = Producing(speech[t], n, n)]
        \/ speech' = [speech EXCEPT ![t] = Fails(t, n)]
    BY <1>8, ProduceSays DEF n
  <2> QED BY <2>1, <2>5, <2>6, <2>7
<1>9. ASSUME NEW t \in Texts, Put(t) PROVE OtherTypes' /\ SpeechTypes'
  <2> DEFINE r == Queueing(speech[t], Append(speech[t].queue, speech[t].item), Nothing)
  <2>1. OtherTypes'
    BY <1>0, <1>9 DEF Put, OtherTypes, lock
  <2>2. r \in Said /\ r.made = speech[t].made /\ r.item = Nothing
        /\ Len(r.queue) <= QueueSize
    <3>1. speech[t].queue \in Seq(Int) /\ speech[t].item \in Int /\ Nothing \in Int
          /\ Len(speech[t].queue) < QueueSize
      BY <1>9, SaidTypes DEF Put, Nothing
    <3>2. Append(speech[t].queue, speech[t].item) \in Seq(Int)
          /\ Len(Append(speech[t].queue, speech[t].item)) <= QueueSize
      BY <3>1 DEF QueueSize
    <3> QED BY <3>1, <3>2, SaidTypes, Queued
  <2>3. Nothing \in Nothing .. End(t)
    BY Ends DEF Nothing
  <2>4. speech' = [speech EXCEPT ![t] = r]
    BY <1>9, PutSays
  <2> QED BY <1>0, <2>1, <2>2, <2>3, <2>4, SaidChanges DEF SpeechTypes
<1>10. ASSUME NEW t \in Texts, Get(t) PROVE OtherTypes' /\ SpeechTypes'
  <2> DEFINE c == Head(speech[t].queue)
             r1 == Playing(speech[t], Tail(speech[t].queue), Append(speech[t].played, c))
             r2 == Stopping(speech[t], Tail(speech[t].queue))
  <2>1. OtherTypes'
    <3>1. silent' \subseteq Texts
      BY <1>0, <1>10 DEF Get, Taken, Sounds, Raises, OtherTypes
    <3> QED BY <1>0, <1>10, <3>1 DEF Get, OtherTypes, lock
  <2>2. speech[t].queue # <<>>
    BY <1>10 DEF Get
  <2>3. Tail(speech[t].queue) \in Seq(Int) /\ Len(Tail(speech[t].queue)) <= QueueSize
    BY <1>0, <2>2, SaidTypes DEF SpeechTypes, QueueSize
  <2>4. c \in 1 .. Chunks[t] => r1 \in Said
    <3> SUFFICES ASSUME c \in 1 .. Chunks[t] PROVE r1 \in Said
      OBVIOUS
    <3>1. Append(speech[t].played, c) \in Seq(Nat)
      BY SaidTypes, Ends
    <3> QED BY <2>3, <3>1, SaidTypes, Played
  <2>5. r2 \in Said
    BY <2>3, SaidTypes, Stops
  <2>6. /\ c \in 1 .. Chunks[t] =>
              /\ r1.made = speech[t].made /\ r1.item = speech[t].item
              /\ r1.queue = Tail(speech[t].queue)
        /\ r2.made = speech[t].made /\ r2.item = speech[t].item
        /\ r2.queue = Tail(speech[t].queue)
    <3>1. c \in 1 .. Chunks[t] => Append(speech[t].played, c) \in Seq(Nat)
      BY SaidTypes, Ends
    <3>2. c \in 1 .. Chunks[t] =>
              /\ r1.made = speech[t].made /\ r1.item = speech[t].item
              /\ r1.queue = Tail(speech[t].queue)
      BY SaidTypes DEF Playing, Said
    <3>3. /\ r2.made = speech[t].made /\ r2.item = speech[t].item
          /\ r2.queue = Tail(speech[t].queue)
      BY <2>3, SaidTypes, Stops
    <3> QED BY <3>2, <3>3
  <2>7. \/ c \in 1 .. Chunks[t] /\ speech' = [speech EXCEPT ![t] = r1]
        \/ speech' = [speech EXCEPT ![t] = r2]
    BY <1>10, GetSays
  <2> HIDE DEF r1, r2
  <2> QED BY <1>0, <2>1, <2>3, <2>4, <2>5, <2>6, <2>7, SaidChanges DEF SpeechTypes
<1>11. ASSUME NEW t \in Texts, Streamed(t) \/ Tell(t) PROVE OtherTypes' /\ SpeechTypes'
  BY <1>0, <1>11 DEF Streamed, Tell, Go, OtherTypes, SpeechTypes, lock
<1>12. ASSUME NEW t \in Texts, Play(t) PROVE OtherTypes' /\ SpeechTypes'
  <2>1. /\ silent' \subseteq Texts
        /\ UNCHANGED <<bus, holder, locked, waiters, bound, signalled, told>>
    BY <1>0, <1>12 DEF Play, Sounds, Raises, OtherTypes, lock
  <2>2. /\ pc' \in [Texts -> {"none", "called", "looks", "takes", "enrols", "waits",
                             "asleep", "works", "releases", "plays", "tells", "over"}]
        /\ result' \in [Texts -> {"none", "success", "error"}]
    BY <1>0, <1>12 DEF Play, Go, OtherTypes
  <2>3. OtherTypes'
    BY <1>0, <2>1, <2>2 DEF OtherTypes
  <2>4. CASE UNCHANGED speech
    BY <1>0, <2>3, <2>4 DEF SpeechTypes
  <2>5. CASE speech' = [speech EXCEPT ![t] = [speech[t] EXCEPT !.played = <<1>>]]
    <3> DEFINE q == [speech[t] EXCEPT !.played = <<1>>]
    <3>1. /\ q \in Said /\ q.made = speech[t].made /\ q.item = speech[t].item
          /\ q.queue = speech[t].queue
      <4>1. speech[t] \in Said /\ <<1>> \in Seq(Nat)
        BY SaidTypes
      <4> QED BY <4>1 DEF Said
    <3>2. speech' = [speech EXCEPT ![t] = q]
      BY <2>5
    <3> HIDE DEF q
    <3> QED BY <1>0, <2>3, <3>1, <3>2, SaidChanges DEF SpeechTypes
  <2> QED BY <1>12, <2>4, <2>5, PlaySays
<1> QED BY <1>1, <1>2, <1>3, <1>4, <1>5, <1>6, <1>7, <1>8, <1>9, <1>10, <1>11, <1>12
        DEF Next, Speak, BusStep, Texts

\* Every variable and every text's record keep their types, whoever speaks.
THEOREM TypeCorrect == Spec => []TypeOK
BY TypesStart, TypesKept, PTL DEF Spec

-----------------------------------------------------------------------------
(* The line of a streamed text, one operation at a time. *)

LEMMA Fields ==
    ASSUME NEW r \in Said
    PROVE  /\ r.made \in Nat /\ r.item \in Int /\ r.failed \in Nat
           /\ r.queue \in Seq(Int) /\ r.played \in Seq(Nat) /\ r.stopped \in BOOLEAN
           /\ Len(r.queue) \in Nat /\ Len(r.played) \in Nat
BY DEF Said

LEMMA Counts ==
    ASSUME NEW r \in Said
    PROVE  /\ Got(r) \in Nat /\ Gone(r) \in Int
           /\ r.stopped => Got(r) = Len(r.played) + 1
           /\ ~r.stopped => Got(r) = Len(r.played)
           /\ r.item = Nothing => Gone(r) = r.made
           /\ r.item # Nothing => Gone(r) = r.made - 1
<1>0. Len(r.played) \in Nat /\ r.made \in Nat
  BY Fields
<1>1. r.stopped => Got(r) = Len(r.played) + 1
  BY DEF Got
<1>2. ~r.stopped => Got(r) = Len(r.played)
  BY <1>0 DEF Got
<1>3. r.item = Nothing => Gone(r) = r.made
  BY <1>0 DEF Gone
<1>4. r.item # Nothing => Gone(r) = r.made - 1
  BY <1>0 DEF Gone
<1> QED BY <1>0, <1>1, <1>2, <1>3, <1>4

LEMMA LinePut ==
    ASSUME NEW t \in Texts, NEW r \in Said, NEW q \in Said, Line(t, r), r.item # Nothing,
           q.made = r.made, q.item = Nothing, q.failed = r.failed,
           q.queue = Append(r.queue, r.item), q.played = r.played, q.stopped = r.stopped
    PROVE  Line(t, q)
<1>1. Got(q) = Got(r) /\ Got(r) \in Nat
  BY Counts DEF Got
<1>2. Gone(q) = r.made /\ Gone(r) = r.made - 1 /\ r.made \in Nat
  BY Counts, Fields
<1>3. /\ Len(q.queue) = Len(r.queue) + 1 /\ Len(r.queue) \in Nat
      /\ \A j \in 1 .. Len(r.queue) : q.queue[j] = r.queue[j]
      /\ q.queue[Len(r.queue) + 1] = r.item
  <2>1. r.queue \in Seq(Int) /\ r.item \in Int
    BY Fields
  <2> QED BY <2>1
<1>4. Len(r.queue) = Gone(r) - Got(r)
  BY DEF Line
<1>5. Len(q.queue) = Gone(q) - Got(q)
  BY <1>1, <1>2, <1>3, <1>4
<1>6. \A j \in 1 .. Len(q.queue) : Content(t, q, Got(q) + j, q.queue[j])
  <2> SUFFICES ASSUME NEW j \in 1 .. Len(q.queue)
               PROVE  Content(t, q, Got(q) + j, q.queue[j])
    OBVIOUS
  <2>1. CASE j \in 1 .. Len(r.queue)
    <3>1. Content(t, r, Got(r) + j, r.queue[j])
      BY <2>1 DEF Line
    <3> QED BY <1>1, <1>3, <2>1, <3>1 DEF Content
  <2>2. CASE j = Len(r.queue) + 1
    <3>1. Got(q) + j = r.made /\ q.queue[j] = r.item
      BY <1>1, <1>2, <1>3, <1>4, <2>2
    <3>2. Content(t, r, r.made, r.item)
      BY DEF Line
    <3> QED BY <3>1, <3>2 DEF Content
  <2> QED BY <1>3, <2>1, <2>2
<1> QED BY <1>5, <1>6 DEF Line, Reach

\* What is at the head of the queue of a text that has not stopped.
LEMMA LineHead ==
    ASSUME NEW t \in Texts, NEW r \in Said, Line(t, r), r.queue # <<>>, ~r.stopped
    PROVE  LET c == Head(r.queue)
               k == Len(r.played) + 1
           IN  /\ c \in 1 .. Chunks[t] => c = k /\ r.failed # k
               /\ c \notin 1 .. Chunks[t] => Len(r.played) = Reach(t, r)
<1> DEFINE c == Head(r.queue)
           k == Len(r.played) + 1
<1>0. r.failed \in Nat /\ Len(r.played) \in Nat /\ Chunks[t] \in Nat
  BY Fields, Ends
<1>1. c = r.queue[1] /\ 1 \in 1 .. Len(r.queue) /\ c \in Int
  <2>1. r.queue \in Seq(Int)
    BY Fields
  <2> QED BY <2>1
<1>2. Content(t, r, k, c)
  BY <1>1, Counts DEF Line
<1>3. r.failed = 0 \/ r.failed > Len(r.played)
  BY DEF Line
<1>4. c \in 1 .. Chunks[t] => c = k /\ r.failed # k
  BY <1>2 DEF Content, Failed
<1>5. ASSUME c \notin 1 .. Chunks[t] PROVE Len(r.played) = Reach(t, r)
  <2>1. CASE c = Failed
    <3>1. r.failed \in 1 .. k
      BY <1>2, <2>1 DEF Content
    <3> QED BY <1>0, <1>3, <3>1 DEF Reach
  <2>2. CASE c = k /\ c # Failed
    <3>1. Len(r.played) = Chunks[t]
      BY <1>0, <1>5, <2>2 DEF Line
    <3>2. r.failed = 0
      BY <1>0, <1>3, <3>1 DEF Line
    <3> QED BY <3>1, <3>2 DEF Reach
  <2> QED BY <1>2, <2>1, <2>2 DEF Content
<1> QED BY <1>4, <1>5

LEMMA LineTail ==
    ASSUME NEW t \in Texts, NEW r \in Said, NEW q \in Said, Line(t, r), r.queue # <<>>,
           q.made = r.made, q.item = r.item, q.failed = r.failed,
           q.queue = Tail(r.queue), Got(q) = Got(r) + 1
    PROVE  /\ Len(q.queue) = Gone(q) - Got(q)
           /\ \A j \in 1 .. Len(q.queue) : Content(t, q, Got(q) + j, q.queue[j])
           /\ q.item # Nothing => q.made > 0 /\ Content(t, q, q.made, q.item)
<1>1. /\ Len(q.queue) = Len(r.queue) - 1 /\ Len(r.queue) \in Nat /\ Len(r.queue) # 0
      /\ \A j \in 1 .. Len(q.queue) : q.queue[j] = r.queue[j + 1]
  <2>1. r.queue \in Seq(Int)
    BY Fields
  <2> QED BY <2>1
<1>2. Gone(q) = Gone(r) /\ Gone(r) \in Int /\ Got(r) \in Nat
  BY Counts DEF Gone
<1>3. Len(q.queue) = Gone(q) - Got(q)
  BY <1>1, <1>2 DEF Line
<1>4. ASSUME NEW j \in 1 .. Len(q.queue)
      PROVE  Content(t, q, Got(q) + j, q.queue[j])
  <2>1. Got(q) + j = Got(r) + (j + 1) /\ j + 1 \in 1 .. Len(r.queue)
        /\ q.queue[j] = r.queue[j + 1]
    BY <1>1, <1>2
  <2>2. Content(t, r, Got(r) + (j + 1), r.queue[j + 1])
    BY <2>1 DEF Line
  <2> QED BY <2>1, <2>2 DEF Content
<1>5. q.item # Nothing => q.made > 0 /\ Content(t, q, q.made, q.item)
  BY DEF Line, Content
<1> QED BY <1>3, <1>4, <1>5

LEMMA LineGet ==
    ASSUME NEW t \in Texts, NEW r \in Said, NEW q \in Said, Line(t, r), r.queue # <<>>,
           ~r.stopped, Head(r.queue) \in 1 .. Chunks[t],
           q.made = r.made, q.item = r.item, q.failed = r.failed,
           q.queue = Tail(r.queue), q.played = Append(r.played, Head(r.queue)), ~q.stopped
    PROVE  Line(t, q)
<1>0. r.failed \in Nat /\ Len(r.played) \in Nat /\ Chunks[t] \in Nat
  BY Fields, Ends
<1>1. Head(r.queue) = Len(r.played) + 1 /\ r.failed # Len(r.played) + 1
  BY LineHead
<1>2. /\ Len(q.played) = Len(r.played) + 1
      /\ \A i \in 1 .. Len(r.played) : q.played[i] = r.played[i]
      /\ q.played[Len(r.played) + 1] = Len(r.played) + 1
  <2>1. r.played \in Seq(Nat) /\ Head(r.queue) \in Nat
    BY <1>0, <1>1, Fields
  <2> QED BY <1>1, <2>1
<1>3. Got(q) = Got(r) + 1
  BY <1>2, Counts
<1>4. \A i \in 1 .. Len(q.played) : q.played[i] = i
  BY <1>0, <1>2 DEF Line
<1>5. /\ q.failed = 0 \/ q.failed > Len(q.played)
      /\ Len(q.played) <= Chunks[t]
  BY <1>0, <1>1, <1>2 DEF Line
<1>6. /\ Len(q.queue) = Gone(q) - Got(q)
      /\ \A j \in 1 .. Len(q.queue) : Content(t, q, Got(q) + j, q.queue[j])
      /\ q.item # Nothing => q.made > 0 /\ Content(t, q, q.made, q.item)
  BY <1>3, LineTail
<1> QED BY <1>4, <1>5, <1>6 DEF Line

LEMMA LineStop ==
    ASSUME NEW t \in Texts, NEW r \in Said, NEW q \in Said, Line(t, r), r.queue # <<>>,
           ~r.stopped, Head(r.queue) \notin 1 .. Chunks[t],
           q.made = r.made, q.item = r.item, q.failed = r.failed,
           q.queue = Tail(r.queue), q.played = r.played, q.stopped
    PROVE  Line(t, q)
<1>1. Got(q) = Got(r) + 1
  BY Counts
<1>2. Len(q.played) = Reach(t, q)
  BY LineHead DEF Reach
<1>3. /\ Len(q.queue) = Gone(q) - Got(q)
      /\ \A j \in 1 .. Len(q.queue) : Content(t, q, Got(q) + j, q.queue[j])
      /\ q.item # Nothing => q.made > 0 /\ Content(t, q, q.made, q.item)
  BY <1>1, LineTail
<1> QED BY <1>2, <1>3 DEF Line

LEMMA LineProduce ==
    ASSUME NEW t \in Texts, NEW r \in Said, NEW q \in Said, Line(t, r),
           r.item = Nothing, r.made + 1 <= End(t),
           q.made = r.made + 1, q.item = r.made + 1, q.failed = r.failed,
           q.queue = r.queue, q.played = r.played, q.stopped = r.stopped
    PROVE  Line(t, q)
<1>0. r.failed \in Nat /\ r.made \in Nat /\ r.failed <= r.made
  BY Fields DEF Line
<1>1. Got(q) = Got(r)
  BY DEF Got
<1>2. q.item # Nothing
  BY <1>0 DEF Nothing
<1>3. Gone(q) = Gone(r)
  BY <1>0, <1>2, Counts
<1>4. Content(t, q, q.made, q.item)
  BY <1>0 DEF Content, Failed
<1>5. \A j \in 1 .. Len(q.queue) : Content(t, q, Got(q) + j, q.queue[j])
  BY <1>1 DEF Line, Content
<1>6. /\ q.failed <= q.made /\ q.made > 0 /\ q.failed <= Chunks[t]
      /\ Len(q.queue) = Gone(q) - Got(q)
  BY <1>0, <1>1, <1>3 DEF Line
<1> QED BY <1>4, <1>5, <1>6 DEF Line, Reach

LEMMA LineFail ==
    ASSUME NEW t \in Texts, NEW r \in Said, NEW q \in Said, Line(t, r),
           r.item = Nothing, r.made + 1 < End(t),
           q.made = r.made + 1, q.item = Failed,
           q.failed = IF r.failed = 0 THEN r.made + 1 ELSE r.failed,
           q.queue = r.queue, q.played = r.played, q.stopped = r.stopped
    PROVE  Line(t, q)
<1>0. /\ r.failed \in Nat /\ r.made \in Nat /\ r.failed <= r.made
      /\ Chunks[t] \in Nat /\ r.made + 1 <= Chunks[t]
      /\ Len(r.played) \in Nat /\ Len(r.queue) \in Nat
  BY Fields, Ends DEF Line
<1>1. Got(q) = Got(r) /\ Got(r) \in Nat
  BY Counts DEF Got
<1>2. Gone(r) = r.made /\ Gone(q) = r.made
  BY <1>0, Counts DEF Failed, Nothing
<1>3. Len(r.queue) = r.made - Got(r) /\ Got(r) <= r.made
  BY <1>0, <1>1, <1>2 DEF Line
<1>4. Content(t, q, q.made, q.item)
  BY <1>0 DEF Content, Failed
<1>5. ASSUME NEW j \in 1 .. Len(q.queue)
      PROVE  Content(t, q, Got(q) + j, q.queue[j])
  <2>1. Content(t, r, Got(r) + j, r.queue[j])
    BY DEF Line
  <2>2. Got(r) + j <= r.made /\ Got(r) + j \in Nat
    BY <1>0, <1>1, <1>3
  <2> QED BY <1>0, <1>1, <2>1, <2>2 DEF Content
<1>6. ASSUME r.stopped PROVE r.failed # 0
  <2>1. Got(r) = Len(r.played) + 1
    BY <1>6, Counts
  <2> QED BY <1>0, <1>3, <1>6, <2>1 DEF Line, Reach
<1>7. ASSUME ~q.stopped
      PROVE  (q.failed = 0 \/ q.failed > Len(q.played)) /\ Len(q.played) <= Chunks[t]
  <2>1. Got(r) = Len(r.played) /\ ~r.stopped
    BY <1>7, Counts
  <2> QED BY <1>0, <1>3, <2>1 DEF Line
<1>8. ASSUME q.stopped PROVE Len(q.played) = Reach(t, q)
  <2>1. r.failed # 0 /\ Len(r.played) = Reach(t, r)
    BY <1>6, <1>8 DEF Line
  <2> QED BY <2>1 DEF Reach
<1>9. /\ q.made <= End(t) /\ q.failed <= q.made /\ q.failed <= Chunks[t] /\ q.made > 0
      /\ Len(q.queue) = Gone(q) - Got(q)
  BY <1>0, <1>1, <1>2, <1>3, Ends
<1>10. \A i \in 1 .. Len(q.played) : q.played[i] = i
  BY DEF Line
<1> QED BY <1>4, <1>5, <1>7, <1>8, <1>9, <1>10 DEF Line
LEMMA ProducingLine ==
    ASSUME NEW t \in Texts, NEW r \in Said
    PROVE  Line(t, r) /\ r.item = Nothing /\ r.made + 1 <= End(t)
              => Line(t, Producing(r, r.made + 1, r.made + 1))
<1> DEFINE n == r.made + 1
           q == Producing(r, n, n)
<1>0. n = r.made + 1
  OBVIOUS
<1>1. n \in Nat /\ n \in Int
  BY Fields
<1> HIDE DEF n
<1>2. /\ q \in Said /\ q.made = n /\ q.item = n /\ q.failed = r.failed
      /\ q.queue = r.queue /\ q.played = r.played /\ q.stopped = r.stopped
  BY <1>1, Produced
<1> HIDE DEF q
<1>3. Line(t, r) /\ r.item = Nothing /\ n <= End(t) => Line(t, q)
  BY <1>0, <1>1, <1>2, LineProduce
<1> QED BY <1>3 DEF q, n

LEMMA QueueingLine ==
    ASSUME NEW t \in Texts, NEW r \in Said
    PROVE  Line(t, r) /\ r.item # Nothing
              => Line(t, Queueing(r, Append(r.queue, r.item), Nothing))
<1> DEFINE w == Append(r.queue, r.item)
           q == Queueing(r, w, Nothing)
<1>0. w = Append(r.queue, r.item)
  OBVIOUS
<1>1. w \in Seq(Int) /\ Nothing \in Int
  BY Fields DEF Nothing
<1> HIDE DEF w
<1>2. /\ q \in Said /\ q.made = r.made /\ q.item = Nothing /\ q.failed = r.failed
      /\ q.queue = w /\ q.played = r.played /\ q.stopped = r.stopped
  BY <1>1, Queued
<1> HIDE DEF q
<1>3. Line(t, r) /\ r.item # Nothing => Line(t, q)
  BY <1>0, <1>1, <1>2, LinePut
<1> QED BY <1>3 DEF q, w

LEMMA PlayingLine ==
    ASSUME NEW t \in Texts, NEW r \in Said
    PROVE  Line(t, r) /\ r.queue # <<>> /\ ~r.stopped /\ Head(r.queue) \in 1 .. Chunks[t]
              => Line(t, Playing(r, Tail(r.queue), Append(r.played, Head(r.queue))))
<1> DEFINE w == Tail(r.queue)
           h == Append(r.played, Head(r.queue))
           q == Playing(r, w, h)
<1>1. r.queue # <<>> => w \in Seq(Int)
  BY Fields
<1>2. Head(r.queue) \in 1 .. Chunks[t] => h \in Seq(Nat)
  BY Fields, Ends
<1>3. w = Tail(r.queue) /\ h = Append(r.played, Head(r.queue))
  OBVIOUS
<1> HIDE DEF w, h
<1>4. w \in Seq(Int) /\ h \in Seq(Nat) =>
         /\ q \in Said /\ q.made = r.made /\ q.item = r.item /\ q.failed = r.failed
         /\ q.queue = w /\ q.played = h /\ ~q.stopped
  BY Played
<1> HIDE DEF q
<1>5. ASSUME Line(t, r), r.queue # <<>>, ~r.stopped, Head(r.queue) \in 1 .. Chunks[t]
      PROVE  Line(t, q)
  BY <1>1, <1>2, <1>3, <1>4, <1>5, LineGet
<1> QED BY <1>5 DEF q, w, h

-----------------------------------------------------------------------------
(* Each step keeps Told. *)

Steps(t) == BusReplies(t) \/ Invoke(t) \/ Tease(t) \/ Speak(t)

\* Only a chunk that is played can be silent, and a chunk is not played twice.
LEMMA Silences ==
    ASSUME TypeOK, NEW t \in Texts, Steps(t)
    PROVE  /\ silent' \in {silent, silent \cup {t}}
           /\ ~Play(t) /\ ~Get(t) => silent' = silent
<1>1. CASE Play(t) \/ Get(t)
  BY <1>1 DEF Play, Get, Taken, Sounds, Raises
<1>2. CASE ~Play(t) /\ ~Get(t)
  BY <1>2 DEF Steps, Speak, BusReplies, Invoke, Tease, Look, Take, Enrol, Select, Release,
         Synthesise, Produce, Put, Streamed, Tell
<1> QED BY <1>1, <1>2

\* A step of t leaves the other texts alone.
LEMMA Others ==
    ASSUME TypeOK, NEW t \in Texts, Steps(t), NEW s \in Texts, s # t
    PROVE  /\ speech'[s] = speech[s] /\ pc'[s] = pc[s] /\ result'[s] = result[s]
           /\ s \in told' <=> s \in told
           /\ Mute(s)' <=> Mute(s)
<1>0. speech \in [Texts -> Said]
  BY DEF TypeOK, Said
<1>1. pc'[s] = pc[s]
  BY DEF Steps, Speak, BusReplies, Invoke, Tease, Look, Take, Enrol, Select, Release,
         Synthesise, Play, Produce, Put, Get, Streamed, Tell, Go, TypeOK
<1>2. result'[s] = result[s]
  BY DEF Steps, Speak, BusReplies, Invoke, Tease, Look, Take, Enrol, Select, Release,
         Synthesise, Play, Produce, Put, Get, Streamed, Tell, TypeOK
<1>3. s \in told' <=> s \in told
  BY DEF Steps, Speak, BusReplies, Invoke, Tease, Look, Take, Enrol, Select, Release,
         Synthesise, Play, Produce, Put, Get, Streamed, Tell
<1>4. speech'[s] = speech[s]
  <2>1. CASE Play(t)
    BY <1>0, <2>1, PlaySays
  <2>2. CASE Synthesise(t)
    BY <1>0, <2>2, SynthesiseSays
  <2>3. CASE Produce(t)
    BY <1>0, <2>3, ProduceSays
  <2>4. CASE Put(t)
    BY <1>0, <2>4, PutSays
  <2>5. CASE Get(t)
    BY <1>0, <2>5, GetSays
  <2>6. CASE ~(Play(t) \/ Synthesise(t) \/ Produce(t) \/ Put(t) \/ Get(t))
    BY <2>6 DEF Steps, Speak, BusReplies, Invoke, Tease, Look, Take, Enrol, Select,
                Release, Streamed, Tell
  <2> QED BY <2>1, <2>2, <2>3, <2>4, <2>5, <2>6
<1>5. Mute(s)' <=> Mute(s)
  BY Silences DEF Mute
<1> QED BY <1>1, <1>2, <1>3, <1>4, <1>5

Early == {"none", "called", "looks", "takes", "enrols", "waits", "asleep", "works"}

\* Until the text is said, only the place of the call changes.
LEMMA SpokenEarly ==
    ASSUME NEW t \in Texts, NEW r, NEW at \in Early, NEW to \in Early, NEW res, NEW ts,
           Spoken(t, r, at, res, ts)
    PROVE  Spoken(t, r, to, res, ts) /\ res = "none" /\ t \notin ts
BY DEF Spoken, Short, Place, Early

LEMMA EarlySteps ==
    ASSUME TypeOK, Told, NEW t \in Texts,
           \/ BusReplies(t) \/ Invoke(t) \/ Tease(t) \/ Look(t) \/ Take(t) \/ Select(t)
           \/ Enrol(t)
    PROVE  Spoken(t, speech'[t], pc'[t], result'[t], told')
<1>1. speech' = speech /\ told' = told /\ pc[t] \in Early
  BY DEF BusReplies, Invoke, Tease, Look, Take, Select, Enrol, Go, Early
<1>2. Spoken(t, speech[t], pc[t], result[t], told)
  BY DEF Told
<1>3. CASE pc'[t] \in Early /\ result' = result
  BY <1>1, <1>2, <1>3, SpokenEarly
<1>4. CASE Enrol(t) /\ pc'[t] = "tells" /\ result'[t] = "error"
  <2>1. result[t] = "none" /\ t \notin told
    BY <1>1, <1>2, SpokenEarly
  <2>2. Spoken(t, speech[t], "tells", "error", told)
    BY <1>1, <1>2, <2>1 DEF Spoken, Short, Place, Early
  <2> QED BY <1>1, <1>4, <2>2
<1>5. \/ pc'[t] \in Early /\ result' = result
      \/ Enrol(t) /\ pc'[t] = "tells" /\ result'[t] = "error"
  BY DEF BusReplies, Invoke, Tease, Look, Take, Select, Enrol, Go, Early, TypeOK
<1> QED BY <1>3, <1>4, <1>5
\* The record a text gets is the one its step says.
LEMMA Updated ==
    ASSUME TypeOK, NEW t \in Texts, NEW r, speech' = [speech EXCEPT ![t] = r]
    PROVE  speech'[t] = r
<1>1. speech \in [Texts -> Said]
  BY DEF TypeOK, Said
<1> QED BY <1>1

\* A text at work that is streamed, or is not.
LEMMA AtWork ==
    ASSUME TypeOK, Told, NEW t \in Texts, pc[t] = "works"
    PROVE  /\ result[t] = "none" /\ t \notin told
           /\ Chunks[t] > 1 => Line(t, speech[t])
           /\ Chunks[t] = 1 => /\ Short(speech[t], "works", result[t])
                               /\ speech[t].made = 0 /\ speech[t].item = Nothing
                               /\ speech[t].queue = <<>> /\ speech[t].played = <<>>
                               /\ speech[t].failed = 0 /\ ~speech[t].stopped
<1>1. Spoken(t, speech[t], "works", result[t], told)
  BY DEF Told
<1>2. result[t] = "none" /\ t \notin told
  BY <1>1 DEF Spoken, Place
<1>3. Chunks[t] > 1 => Line(t, speech[t])
  BY <1>1 DEF Spoken
<1>4. ASSUME Chunks[t] = 1
      PROVE  /\ Short(speech[t], "works", result[t])
             /\ speech[t].made = 0 /\ speech[t].item = Nothing
             /\ speech[t].queue = <<>> /\ speech[t].played = <<>>
             /\ speech[t].failed = 0 /\ ~speech[t].stopped
  <2>1. Short(speech[t], "works", result[t])
    BY <1>1, <1>4 DEF Spoken
  <2>2. speech[t].failed \in Nat
    BY SaidTypes
  <2> QED BY <2>1, <2>2 DEF Short
<1> QED BY <1>2, <1>3, <1>4

LEMMA LineSteps ==
    ASSUME TypeOK, Told, NEW t \in Texts, Produce(t) \/ Put(t) \/ Get(t)
    PROVE  Spoken(t, speech'[t], pc'[t], result'[t], told')
<1>1. pc' = pc /\ result' = result /\ told' = told /\ pc[t] = "works"
  BY DEF Produce, Put, Get
<1>2. result[t] = "none" /\ t \notin told
  BY <1>1, AtWork
<1>3. Chunks[t] > 1
  <2>1. Chunks[t] = 1 => speech[t].item = Nothing /\ speech[t].queue = <<>>
    BY <1>1, AtWork
  <2> QED BY <2>1, Ends DEF Produce, Put, Get
<1>4. Line(t, speech[t])
  BY <1>1, <1>3, AtWork
<1> DEFINE r == speech[t]
           n == r.made + 1
           c == Head(r.queue)
<1>5. r \in Said /\ n \in Nat \ {0} /\ r.queue \in Seq(Int) /\ r.item \in Int
      /\ r.played \in Seq(Nat)
  BY SaidTypes
<1>6. Line(t, speech'[t])
  <2>1. CASE Produce(t)
    <3>1. r.item = Nothing /\ n <= End(t)
      BY <2>1 DEF Produce
    <3>2. CASE speech' = [speech EXCEPT ![t] = Producing(speech[t], n, n)]
      <4>1. speech'[t] = Producing(r, n, n)
        BY <3>2, Updated
      <4>2. Line(t, Producing(r, n, n))
        BY <1>4, <1>5, <3>1, ProducingLine
      <4> QED BY <4>1, <4>2
    <3>3. CASE n < End(t) /\ speech' = [speech EXCEPT ![t] = Fails(t, n)]
      <4> DEFINE q == Fails(t, n)
      <4>1. /\ q \in Said /\ q.made = n /\ q.item = Failed
            /\ q.failed = (IF r.failed = 0 THEN n ELSE r.failed)
            /\ q.queue = r.queue /\ q.played = r.played /\ q.stopped = r.stopped
        BY <1>5, FailsTyped
      <4>2. speech'[t] = q
        BY <3>3, Updated
      <4> HIDE DEF q
      <4>3. Line(t, q)
        BY <1>4, <1>5, <3>1, <3>3, <4>1, LineFail
      <4> QED BY <4>2, <4>3
    <3> QED BY <2>1, <3>2, <3>3, ProduceSays
  <2>2. CASE Put(t)
    <3>1. speech'[t] = Queueing(r, Append(r.queue, r.item), Nothing)
      BY <2>2, PutSays, Updated
    <3>2. r.item # Nothing
      BY <2>2 DEF Put
    <3>3. Line(t, Queueing(r, Append(r.queue, r.item), Nothing))
      BY <1>4, <1>5, <3>2, QueueingLine
    <3> QED BY <3>1, <3>3
  <2>3. CASE Get(t)
    <3>1. r.queue # <<>> /\ ~r.stopped
      BY <2>3 DEF Get
    <3>2. Tail(r.queue) \in Seq(Int)
      BY <1>5, <3>1
    <3>3. CASE c \in 1 .. Chunks[t]
      <4>1. speech'[t] = Playing(r, Tail(r.queue), Append(r.played, c))
        BY <2>3, <3>3, GetSays, Updated
      <4>2. Line(t, Playing(r, Tail(r.queue), Append(r.played, c)))
        BY <1>4, <1>5, <3>1, <3>3, PlayingLine
      <4> QED BY <4>1, <4>2
    <3>4. CASE c \notin 1 .. Chunks[t]
      <4> DEFINE q == Stopping(r, Tail(r.queue))
      <4>1. /\ q \in Said /\ q.made = r.made /\ q.item = r.item /\ q.failed = r.failed
            /\ q.queue = Tail(r.queue) /\ q.played = r.played /\ q.stopped
        BY <1>5, <3>2, Stops
      <4>2. speech'[t] = q
        BY <2>3, <3>4, GetSays, Updated
      <4> HIDE DEF q
      <4>3. Line(t, q)
        BY <1>4, <1>5, <3>1, <3>4, <4>1, LineStop
      <4> QED BY <4>2, <4>3
    <3> QED BY <3>3, <3>4
  <2> QED BY <2>1, <2>2, <2>3
<1> QED BY <1>1, <1>2, <1>3, <1>6 DEF Spoken, Place

LEMMA SynthesiseStep ==
    ASSUME TypeOK, Told, NEW t \in Texts, Synthesise(t)
    PROVE  Spoken(t, speech'[t], pc'[t], result'[t], told')
<1>1. /\ pc[t] = "works" /\ pc'[t] = "releases" /\ told' = told /\ Chunks[t] = 1
  BY DEF Synthesise, Go, TypeOK
<1>2. /\ t \notin told
      /\ speech[t].queue = <<>> /\ speech[t].played = <<>>
      /\ speech[t].failed = 0 /\ ~speech[t].stopped /\ speech[t] \in Said
  BY <1>1, AtWork, SaidTypes
<1>3. CASE /\ speech' = [speech EXCEPT ![t] = [speech[t] EXCEPT !.made = 1]]
           /\ result' = [result EXCEPT ![t] = "success"]
  <2> DEFINE q == [speech[t] EXCEPT !.made = 1]
  <2>1. /\ q.queue = <<>> /\ q.played = <<>> /\ q.failed = 0 /\ ~q.stopped
        /\ q.made = 1
    BY <1>2 DEF Said
  <2>2. speech'[t] = q /\ result'[t] = "success"
    BY <1>3, Updated DEF TypeOK
  <2> HIDE DEF q
  <2> QED BY <1>1, <1>2, <2>1, <2>2 DEF Spoken, Short, Place
<1>4. CASE /\ speech' = [speech EXCEPT ![t] = Fails(t, 1)]
           /\ result' = [result EXCEPT ![t] = "error"]
  <2> DEFINE q == Fails(t, 1)
  <2>1. /\ q.queue = <<>> /\ q.played = <<>> /\ q.failed = 1 /\ ~q.stopped
        /\ q.made = 1
    BY <1>2, FailsTyped
  <2>2. speech'[t] = q /\ result'[t] = "error"
    BY <1>4, Updated DEF TypeOK
  <2> HIDE DEF q
  <2> QED BY <1>1, <1>2, <2>1, <2>2 DEF Spoken, Short, Place
<1> QED BY <1>3, <1>4, SynthesiseSays

LEMMA StreamedStep ==
    ASSUME TypeOK, Told, NEW t \in Texts, Streamed(t)
    PROVE  Spoken(t, speech'[t], pc'[t], result'[t], told')
<1>1. /\ pc[t] = "works" /\ pc'[t] = "releases" /\ told' = told /\ Chunks[t] > 1
      /\ speech' = speech /\ result'[t] = "success" /\ speech[t].stopped
  BY DEF Streamed, Go, TypeOK
<1>2. t \notin told /\ Line(t, speech[t])
  BY <1>1, AtWork
<1> QED BY <1>1, <1>2 DEF Spoken, Place

LEMMA TellStep ==
    ASSUME TypeOK, Told, NEW t \in Texts, Tell(t)
    PROVE  Spoken(t, speech'[t], pc'[t], result'[t], told')
<1>1. /\ pc[t] = "tells" /\ pc'[t] = "over" /\ speech' = speech /\ result' = result
      /\ t \in told' <=> t \in told \/ result[t] = "success"
  BY DEF Tell, Go, TypeOK
<1>2. Spoken(t, speech[t], "tells", result[t], told)
  BY <1>1 DEF Told
<1>3. IF Chunks[t] > 1 THEN Line(t, speech[t]) ELSE Short(speech[t], "over", result[t])
  BY <1>2 DEF Spoken, Short
<1>4. Place(t, speech[t], "over", result[t], told')
  BY <1>1, <1>2 DEF Spoken, Place
<1> QED BY <1>1, <1>3, <1>4 DEF Spoken

LEMMA ReleaseStep ==
    ASSUME TypeOK, Told, NEW t \in Texts, Release(t)
    PROVE  Spoken(t, speech'[t], pc'[t], result'[t], told')
<1>1. pc[t] = "releases" /\ told' = told /\ speech' = speech
  BY DEF Release, Go, TypeOK
<1>2. Spoken(t, speech[t], "releases", result[t], told)
  BY <1>1 DEF Told
<1>3. /\ t \notin told /\ result[t] # "none" /\ speech[t] \in Said
      /\ result[t] \in {"success", "error"}
  <2>1. result[t] \in {"none", "success", "error"}
    BY DEF TypeOK
  <2>2. t \notin told
    BY <1>2 DEF Spoken, Place
  <2>3. CASE Chunks[t] > 1
    BY <1>2, <2>1, <2>2, <2>3, SaidTypes DEF Spoken, Place
  <2>4. CASE ~(Chunks[t] > 1)
    BY <1>2, <2>1, <2>2, <2>4, SaidTypes DEF Spoken, Short
  <2> QED BY <2>3, <2>4
<1>4. CASE Chunks[t] = 1 /\ result[t] = "success" /\ locked
  <2>1. pc'[t] = "plays" /\ result'[t] = "success"
    BY <1>4 DEF Release, Go, TypeOK
  <2>2. Short(speech[t], "releases", "success")
    BY <1>2, <1>4 DEF Spoken
  <2>3. Short(speech[t], "plays", "success")
    BY <2>2 DEF Short
  <2>4. Place(t, speech[t], "plays", "success", told)
    BY <1>3, <1>4 DEF Place
  <2> QED BY <1>1, <1>4, <2>1, <2>3, <2>4 DEF Spoken
<1>5. CASE ~(Chunks[t] = 1 /\ result[t] = "success" /\ locked)
  <2>1. pc'[t] = "tells"
    BY <1>5 DEF Release, Go, TypeOK
  <2>2. CASE Chunks[t] > 1
    <3>1. Line(t, speech[t]) /\ speech[t].stopped
      BY <1>2, <2>2 DEF Spoken, Place
    <3>2. Len(speech[t].played) = Reach(t, speech[t])
      BY <3>1 DEF Line
    <3>3. result'[t] # "none"
      BY <1>3 DEF Release, TypeOK
    <3>4. Place(t, speech[t], "tells", result'[t], told)
      BY <1>3, <3>2, <3>3 DEF Place
    <3> QED BY <1>1, <2>1, <2>2, <3>1, <3>4 DEF Spoken
  <2>3. CASE Chunks[t] = 1
    <3>1. result'[t] = "error"
      BY <1>3, <1>5, <2>3 DEF Release, TypeOK
    <3>2. Short(speech[t], "releases", result[t])
      BY <1>2, <2>3 DEF Spoken
    <3>3. Short(speech[t], "tells", "error")
      BY <3>2 DEF Short
    <3>4. Place(t, speech[t], "tells", "error", told)
      BY <1>3 DEF Place
    <3> QED BY <1>1, <2>1, <2>3, <3>1, <3>3, <3>4 DEF Spoken
  <2> QED BY <2>2, <2>3, Ends
<1> QED BY <1>4, <1>5

LEMMA PlayStep ==
    ASSUME TypeOK, Told, NEW t \in Texts, Play(t)
    PROVE  Spoken(t, speech'[t], pc'[t], result'[t], told')
<1>1. pc[t] = "plays" /\ pc'[t] = "tells" /\ told' = told
  BY DEF Play, Go, TypeOK
<1>2. Spoken(t, speech[t], "plays", result[t], told)
  BY <1>1 DEF Told
<1>3. /\ Chunks[t] = 1 /\ t \notin told /\ speech[t] \in Said
      /\ Short(speech[t], "plays", result[t]) /\ result[t] # "none"
  BY <1>2, SaidTypes DEF Spoken, Place
<1>4. CASE /\ speech' = [speech EXCEPT ![t] = [speech[t] EXCEPT !.played = <<1>>]]
           /\ result' = result
  <2> DEFINE q == [speech[t] EXCEPT !.played = <<1>>]
  <2>1. speech'[t] = q
    BY <1>4, Updated
  <2>2. /\ q.made = speech[t].made /\ q.queue = speech[t].queue
        /\ q.stopped = speech[t].stopped /\ q.failed = speech[t].failed
        /\ q.played = <<1>>
    BY <1>3 DEF Said
  <2> HIDE DEF q
  <2>3. speech[t].failed = 0
    BY <1>3 DEF Short
  <2>4. Short(q, "tells", result[t])
    BY <1>3, <2>2, <2>3 DEF Short
  <2>5. Len(q.played) = Reach(t, q)
    BY <1>3, <2>2, <2>3 DEF Reach
  <2>6. Place(t, q, "tells", result[t], told)
    BY <1>3, <2>5 DEF Place
  <2> QED BY <1>1, <1>3, <1>4, <2>1, <2>4, <2>6 DEF Spoken
<1>5. CASE /\ speech' = speech
           /\ result' = [result EXCEPT ![t] = "error"]
  <2>1. result'[t] = "error"
    BY <1>5 DEF TypeOK
  <2>2. Short(speech[t], "tells", "error")
    BY <1>3 DEF Short
  <2>3. Place(t, speech[t], "tells", "error", told)
    BY <1>3 DEF Place
  <2> QED BY <1>1, <1>3, <1>5, <2>1, <2>2, <2>3 DEF Spoken
<1> QED BY <1>4, <1>5, PlaySays

LEMMA ToldKept == TypeOK /\ Told /\ [Next]_vars => Told'
<1> SUFFICES ASSUME TypeOK, Told, [Next]_vars PROVE Told'
  OBVIOUS
<1>1. CASE UNCHANGED vars \/ BusCalls \/ BusInvokes
  BY <1>1 DEF vars, BusCalls, BusInvokes, Told
<1>2. ASSUME NEW t \in Texts, Steps(t) PROVE Told'
  <2>1. Spoken(t, speech'[t], pc'[t], result'[t], told')
    BY <1>2, EarlySteps, LineSteps, SynthesiseStep, StreamedStep, TellStep, ReleaseStep,
          PlayStep
       DEF Steps, Speak
  <2>2. ASSUME NEW s \in Texts, s # t
        PROVE  Spoken(s, speech'[s], pc'[s], result'[s], told')
    <3>1. /\ speech'[s] = speech[s] /\ pc'[s] = pc[s] /\ result'[s] = result[s]
          /\ s \in told' <=> s \in told
      BY <1>2, <2>2, Others
    <3>2. Spoken(s, speech[s], pc[s], result[s], told)
      BY DEF Told
    <3> QED BY <3>1, <3>2 DEF Spoken, Place
  <2> QED BY <2>1, <2>2 DEF Told
<1> QED BY <1>1, <1>2 DEF Next, BusStep, Steps, Texts

\* A short text that makes no sound is one whose playing raised.
LEMMA MutedKept == TypeOK /\ Told /\ Muted /\ [Next]_vars => Muted'
<1> SUFFICES ASSUME TypeOK, Told, Muted, [Next]_vars PROVE Muted'
  OBVIOUS
<1>1. CASE UNCHANGED vars \/ BusCalls \/ BusInvokes
  BY <1>1 DEF vars, BusCalls, BusInvokes, Muted, Mute
<1>2. ASSUME NEW t \in Texts, Steps(t) PROVE Muted'
  <2>1. ASSUME NEW s \in Texts, s # t, Mute(s)'
        PROVE  pc'[s] \in {"tells", "over"} /\ result'[s] = "error"
    BY <1>2, <2>1, Others DEF Muted
  <2>2. ASSUME Mute(t)' PROVE pc'[t] \in {"tells", "over"} /\ result'[t] = "error"
    <3>1. ~Get(t)
      <4>1. Chunks[t] = 1
        BY <2>2 DEF Mute
      <4>2. pc[t] = "works" => speech[t].queue = <<>>
        BY <4>1, AtWork
      <4> QED BY <4>2 DEF Get
    <3>2. CASE Play(t)
      <4>1. pc[t] = "plays" /\ pc'[t] = "tells"
        BY <3>2 DEF Play, Go, TypeOK
      <4>2. ~Mute(t)
        BY <4>1 DEF Muted
      <4>3. ~(Sounds(t))
        BY <2>2, <4>2 DEF Sounds, Mute
      <4>4. result' = [result EXCEPT ![t] = "error"]
        BY <3>2, <4>3 DEF Play
      <4> QED BY <4>1, <4>4 DEF TypeOK
    <3>3. CASE ~Play(t)
      <4>1. Mute(t)
        BY <1>2, <2>2, <3>1, <3>3, Silences DEF Mute
      <4>2. pc[t] \in {"tells", "over"} /\ result[t] = "error"
        BY <4>1 DEF Muted
      <4>3. Tell(t)
        BY <1>2, <3>1, <3>3, <4>2
           DEF Steps, Speak, BusReplies, Invoke, Tease, Look, Take, Enrol, Select,
               Release, Synthesise, Produce, Put, Streamed, Go
      <4> QED BY <4>2, <4>3 DEF Tell, Go, TypeOK
    <3> QED BY <3>2, <3>3
  <2> QED BY <2>1, <2>2 DEF Muted
<1> QED BY <1>1, <1>2 DEF Next, BusStep, Steps, Texts

-----------------------------------------------------------------------------
(* Each step keeps Alone. *)

\* Who is in the TTS module while mischief keeps still.
LEMMA Inside ==
    ASSUME TypeOK, Alone, Still(pc), NEW t \in Texts,
           pc[t] \notin {"none", "called", "over"}
    PROVE  /\ t \in Replies /\ holder = t /\ waiters = <<>>
           /\ t # "bus" /\ t # Nobody
           /\ \A s \in Texts : s # t => pc[s] \in {"none", "called", "over"}
           /\ locked <=> pc[t] \in {"works", "releases"}
           /\ pc[t] \notin {"enrols", "waits", "asleep"}
<1>1. \A s \in Texts : pc[s] # "none" => s \in Replies
  BY DEF Still, Texts
<1>2. t \in Replies /\ holder = t
  BY <1>1 DEF Alone
<1>3. \A s \in Texts : s # t => pc[s] \in {"none", "called", "over"}
  BY <1>1, <1>2 DEF Alone
<1> QED BY <1>2, <1>3, SpeechAssumption DEF Alone, Texts

\* A step of mischief ends its keeping still; one of a reply does not.
LEMMA StillBefore ==
    ASSUME TypeOK, NEW t \in Texts, Steps(t), Still(pc')
    PROVE  t \in Replies /\ Still(pc)
<1>1. pc'[t] # "none"
  BY DEF Steps, Speak, BusReplies, Invoke, Tease, Look, Take, Enrol, Select, Release,
         Synthesise, Play, Produce, Put, Get, Streamed, Tell, Go, TypeOK
<1>2. t \in Replies
  BY <1>1 DEF Still, Texts
<1>3. \A s \in Mischief : s \in Texts /\ s # t
  BY <1>2, SpeechAssumption DEF Texts
<1> QED BY <1>2, <1>3, Others DEF Still

\* A failed chunk is not forgotten.
LEMMA FailedKept ==
    ASSUME TypeOK, NEW t \in Texts, Steps(t), speech[t].failed # 0
    PROVE  speech'[t].failed # 0
<1>1. speech[t] \in Said /\ speech[t].failed \in Nat
  BY SaidTypes
<1>2. CASE UNCHANGED speech
  BY <1>2
<1>3. CASE Play(t)
  <2>1. \/ speech' = speech
        \/ speech'[t] = [speech[t] EXCEPT !.played = <<1>>]
    BY <1>3, PlaySays, Updated
  <2> QED BY <1>1, <2>1 DEF Said
<1>4. CASE Synthesise(t)
  <2>1. speech'[t] = [speech[t] EXCEPT !.made = 1] \/ speech'[t] = Fails(t, 1)
    BY <1>4, SynthesiseSays, Updated
  <2>2. [speech[t] EXCEPT !.made = 1].failed # 0
    BY <1>1 DEF Said
  <2>3. Fails(t, 1).failed # 0
    BY FailsTyped
  <2> QED BY <2>1, <2>2, <2>3
<1>5. CASE Produce(t)
  <2> DEFINE n == speech[t].made + 1
  <2>1. n \in Nat \ {0} /\ n \in Nat /\ n \in Int
    BY SaidTypes
  <2>2. speech'[t] = Producing(speech[t], n, n) \/ speech'[t] = Fails(t, n)
    BY <1>5, ProduceSays, Updated
  <2> HIDE DEF n
  <2>3. Producing(speech[t], n, n).failed # 0
    BY <1>1, <2>1, Produced
  <2>4. Fails(t, n).failed # 0
    BY <2>1, FailsTyped
  <2> QED BY <2>2, <2>3, <2>4
<1>6. CASE Put(t)
  <2>1. speech'[t] = Queueing(speech[t], Append(speech[t].queue, speech[t].item), Nothing)
    BY <1>6, PutSays, Updated
  <2> QED BY <1>1, <2>1 DEF Queueing, Said
<1>7. CASE Get(t)
  <2>1. \/ speech'[t] = Playing(speech[t], Tail(speech[t].queue),
                               Append(speech[t].played, Head(speech[t].queue)))
        \/ speech'[t] = Stopping(speech[t], Tail(speech[t].queue))
    BY <1>7, GetSays, Updated
  <2> QED BY <1>1, <2>1 DEF Playing, Stopping, Said
<1> QED BY <1>2, <1>3, <1>4, <1>5, <1>6, <1>7
        DEF Steps, Speak, BusReplies, Invoke, Tease, Look, Take, Enrol, Select,
            Release, Streamed, Tell, lock
\* Only a chunk that fails, or cannot be played, makes a reply an error.
LEMMA ErrorFailed ==
    ASSUME TypeOK, Told, Alone, Still(pc), NEW t \in Replies, Steps(t), result'[t] = "error"
    PROVE  speech'[t].failed # 0 \/ Mute(t)'
<1>0. t \in Texts
  BY DEF Texts
<1>1. CASE result[t] = "error"
  <2>1. CASE speech[t].failed # 0
    BY <1>0, <2>1, FailedKept
  <2>2. CASE Mute(t)
    BY <1>0, <2>2, Silences DEF Mute
  <2> QED BY <1>0, <1>1, <2>1, <2>2 DEF Alone
<1>2. CASE Play(t)
  <2>1. Spoken(t, speech[t], "plays", result[t], told)
    BY <1>0, <1>2 DEF Told, Play, Go
  <2>2. Chunks[t] = 1
    BY <2>1 DEF Spoken, Place
  <2>3. CASE result' = result
    BY <1>0, <1>1, <2>3
  <2>4. CASE Raises(t)
    BY <2>2, <2>4 DEF Raises, Mute
  <2> QED BY <1>2, <2>3, <2>4 DEF Play
<1>3. CASE result[t] # "error" /\ ~Play(t)
  <2>1. ~Enrol(t)
    BY <1>0 DEF Enrol, Go, Alone
  <2>2. Release(t) => locked
    <3>1. Release(t) => pc[t] = "releases"
      BY DEF Release, Go
    <3> QED BY <1>0, <3>1 DEF Alone
  <2>3. Synthesise(t)
    BY <1>0, <1>3, <2>1, <2>2
       DEF Steps, Speak, BusReplies, Invoke, Tease, Look, Take, Select, Release,
           Produce, Put, Get, Streamed, Tell, TypeOK
  <2>4. speech'[t] = Fails(t, 1)
    <3>1. result' = [result EXCEPT ![t] = "success"] => result'[t] = "success"
      BY <1>0 DEF TypeOK
    <3>2. speech' = [speech EXCEPT ![t] = Fails(t, 1)]
      BY <1>0, <1>3, <2>3, <3>1, SynthesiseSays
    <3> QED BY <1>0, <3>2, Updated
  <2> QED BY <1>0, <2>4, FailsTyped
<1> QED BY <1>1, <1>3, <1>2

\* What a step of a reply does to the locks.
LEMMA LockStep ==
    ASSUME TypeOK, Alone, Still(pc), NEW t \in Replies, Steps(t)
    PROVE  /\ waiters' = <<>> /\ (bus' = "thinks" => holder' = "bus")
           /\ pc'[t] \notin {"enrols", "waits", "asleep"}
           /\ \A s \in Replies : holder' = s <=> pc'[s] \notin {"none", "called", "over"}
           /\ locked' <=> \E s \in Texts : pc'[s] \in {"works", "releases"}
<1>0. /\ t \in Texts /\ t # "bus" /\ t # Nobody /\ Nobody # "bus" /\ t \notin Mischief
      /\ \A s \in Replies : s \in Texts /\ s # Nobody /\ s # "bus"
  BY SpeechAssumption DEF Texts, Nobody
<1>1. \A s \in Texts : s # t => pc'[s] = pc[s]
  BY <1>0, Others
<1>2. ~Tease(t) /\ ~Enrol(t) /\ ~Select(t)
  BY <1>0 DEF Tease, Enrol, Select, Go, Alone
<1>3. CASE BusReplies(t)
  <2>1. /\ bus = "thinks" /\ bus' = "rest" /\ holder = "bus" /\ holder' = Nobody
        /\ pc'[t] = "called" /\ pc[t] = "none" /\ locked' = locked /\ waiters' = <<>>
    BY <1>0, <1>3 DEF BusReplies, Go, TypeOK, Alone, lock
  <2>2. \A s \in Replies : pc'[s] \in {"none", "called", "over"}
    BY <1>0, <1>1, <2>1 DEF Alone
  <2>3. locked' <=> \E s \in Texts : pc'[s] \in {"works", "releases"}
    BY <1>0, <1>1, <2>1 DEF Alone
  <2> QED BY <1>0, <2>1, <2>2, <2>3
<1>4. CASE Invoke(t)
  <2>1. /\ bus' = bus /\ holder = Nobody /\ holder' = t
        /\ pc'[t] = "looks" /\ pc[t] = "called" /\ locked' = locked /\ waiters' = <<>>
    BY <1>0, <1>4 DEF Invoke, Go, TypeOK, Alone, lock
  <2>2. \A s \in Replies : s # t => pc'[s] \in {"none", "called", "over"}
    BY <1>0, <1>1, <2>1 DEF Alone
  <2>3. locked' <=> \E s \in Texts : pc'[s] \in {"works", "releases"}
    BY <1>0, <1>1, <2>1 DEF Alone
  <2>4. bus # "thinks"
    BY <1>0, <2>1 DEF Alone
  <2> QED BY <1>0, <2>1, <2>2, <2>3, <2>4
<1>5. CASE ~BusReplies(t) /\ ~Invoke(t)
  <2>0. pc[t] \notin {"none", "called", "over"}
    BY <1>2, <1>5 DEF Steps, Speak, Look, Take, Release, Synthesise, Play, Produce, Put, Get,
                       Streamed, Tell, Go
  <2>1. /\ holder = t /\ waiters = <<>>
        /\ \A s \in Texts : s # t => pc[s] \in {"none", "called", "over"}
        /\ locked <=> pc[t] \in {"works", "releases"}
    BY <1>0, <2>0, Inside
  <2>2. \A s \in Texts : s # t => pc'[s] \in {"none", "called", "over"}
    BY <1>1, <2>1
  <2>3. bus # "thinks" /\ bus' = bus /\ waiters' = waiters
    BY <1>0, <1>2, <1>5, <2>1
       DEF Alone, Steps, Speak, Look, Take, Release, Synthesise, Play, Produce, Put, Get,
           Streamed, Tell, lock
  <2>4. /\ pc'[t] \notin {"none", "called", "enrols", "waits", "asleep"}
        /\ holder' = IF pc'[t] = "over" THEN Nobody ELSE t
        /\ locked' <=> pc'[t] \in {"works", "releases"}
    <3>1. CASE Look(t)
      BY <1>0, <2>1, <3>1 DEF Look, Go, TypeOK, lock
    <3>2. CASE Take(t)
      BY <1>0, <2>1, <3>2 DEF Take, Go, TypeOK
    <3>3. CASE Release(t)
      <4>1. /\ pc[t] = "releases" /\ pc'[t] \in {"plays", "tells"}
            /\ holder' = holder
        BY <1>0, <3>3 DEF Release, Go, TypeOK
      <4>2. ~locked'
        BY <2>1, <3>3, <4>1 DEF Release
      <4> QED BY <2>1, <4>1, <4>2
    <3>4. CASE Synthesise(t) \/ Streamed(t)
      <4>1. /\ pc[t] = "works" /\ pc'[t] = "releases" /\ holder' = holder
            /\ locked' = locked
        BY <1>0, <3>4 DEF Synthesise, Streamed, Go, TypeOK, lock
      <4> QED BY <2>1, <4>1
    <3>5. CASE Produce(t) \/ Put(t) \/ Get(t)
      <4>1. pc[t] = "works" /\ pc' = pc /\ holder' = holder /\ locked' = locked
        BY <3>5 DEF Produce, Put, Get, lock
      <4> QED BY <2>1, <4>1
    <3>6. CASE Tell(t)
      <4>1. /\ pc[t] = "tells" /\ pc'[t] = "over" /\ holder' = Nobody
            /\ locked' = locked
        BY <1>0, <2>1, <3>6 DEF Tell, Go, TypeOK, lock
      <4> QED BY <2>1, <4>1
    <3>7. CASE Play(t)
      <4>1. /\ pc[t] = "plays" /\ pc'[t] = "tells" /\ holder' = holder
            /\ locked' = locked
        BY <1>0, <3>7 DEF Play, Go, TypeOK, lock
      <4> QED BY <2>1, <4>1
    <3> QED BY <1>2, <1>5, <3>1, <3>2, <3>3, <3>4, <3>5, <3>6, <3>7 DEF Steps, Speak
  <2>5. \A s \in Replies : holder' = s <=> pc'[s] \notin {"none", "called", "over"}
    BY <1>0, <2>2, <2>4
  <2>6. locked' <=> \E s \in Texts : pc'[s] \in {"works", "releases"}
    BY <1>0, <2>2, <2>4
  <2> QED BY <2>1, <2>3, <2>4, <2>5, <2>6
<1> QED BY <1>3, <1>4, <1>5

LEMMA AloneKept == TypeOK /\ Told /\ Alone /\ [Next]_vars => Alone'
<1> SUFFICES ASSUME TypeOK, Told, Alone, [Next]_vars PROVE Alone'
  OBVIOUS
<1>1. CASE UNCHANGED vars
  BY <1>1 DEF vars, lock, Alone, Still, Mute
<1>2. CASE BusCalls \/ BusInvokes
  <2>1. /\ pc' = pc /\ speech' = speech /\ result' = result /\ locked' = locked
        /\ waiters' = waiters /\ silent' = silent
    BY <1>2 DEF BusCalls, BusInvokes, lock
  <2>2. \A s \in Replies : s # "bus" /\ s # Nobody
    BY SpeechAssumption
  <2>3. \A s \in Replies : holder' = s <=> holder = s
    BY <1>2, <2>2 DEF BusCalls, BusInvokes
  <2>4. bus' = "thinks" => holder' = "bus"
    BY <1>2 DEF BusCalls, BusInvokes
  <2> QED BY <2>1, <2>3, <2>4 DEF Alone, Still, Mute
<1>3. ASSUME NEW t \in Texts, Steps(t) PROVE Alone'
  <2> SUFFICES ASSUME Still(pc')
               PROVE  /\ waiters' = <<>> /\ (bus' = "thinks" => holder' = "bus")
                      /\ \A s \in Texts : pc'[s] \notin {"enrols", "waits", "asleep"}
                      /\ \A s \in Replies :
                            holder' = s <=> pc'[s] \notin {"none", "called", "over"}
                      /\ locked' <=> \E s \in Texts : pc'[s] \in {"works", "releases"}
                      /\ \A s \in Texts :
                            result'[s] = "error" => speech'[s].failed # 0 \/ Mute(s)'
    BY DEF Alone
  <2>1. t \in Replies /\ Still(pc)
    BY <1>3, StillBefore
  <2>2. /\ waiters' = <<>> /\ (bus' = "thinks" => holder' = "bus")
        /\ pc'[t] \notin {"enrols", "waits", "asleep"}
        /\ \A s \in Replies : holder' = s <=> pc'[s] \notin {"none", "called", "over"}
        /\ locked' <=> \E s \in Texts : pc'[s] \in {"works", "releases"}
    BY <1>3, <2>1, LockStep
  <2>3. ASSUME NEW s \in Texts, s # t
        PROVE  /\ pc'[s] \notin {"enrols", "waits", "asleep"}
               /\ result'[s] = "error" => speech'[s].failed # 0 \/ Mute(s)'
    BY <1>3, <2>1, <2>3, Others DEF Alone
  <2>4. result'[t] = "error" => speech'[t].failed # 0 \/ Mute(t)'
    BY <1>3, <2>1, ErrorFailed
  <2> QED BY <2>2, <2>3, <2>4
<1> QED BY <1>1, <1>2, <1>3 DEF Next, BusStep, Steps, Texts

-----------------------------------------------------------------------------
LEMMA Starts == Init => Told /\ Alone /\ Muted
<1> SUFFICES ASSUME Init PROVE Told /\ Alone /\ Muted
  OBVIOUS
<1>1. ASSUME NEW t \in Texts PROVE Spoken(t, speech[t], pc[t], result[t], told)
  <2>1. /\ speech[t].made = 0 /\ speech[t].item = Nothing /\ speech[t].queue = <<>>
        /\ speech[t].played = <<>> /\ ~speech[t].stopped /\ speech[t].failed = 0
        /\ pc[t] = "none" /\ result[t] = "none" /\ told = {}
    BY DEF Init
  <2>2. speech[t] \in Said
    BY DEF Init, Said, Nothing
  <2>3. Got(speech[t]) = 0 /\ Gone(speech[t]) = 0
    BY <2>1 DEF Got, Gone
  <2>4. Line(t, speech[t])
    BY <2>1, <2>3, Ends DEF Line
  <2>5. Short(speech[t], "none", "none")
    BY <2>1 DEF Short
  <2> QED BY <2>1, <2>4, <2>5 DEF Spoken, Place
<1>2. Told
  BY <1>1 DEF Told
<1>3. Alone
  BY SpeechAssumption DEF Init, Alone, Texts
<1>4. Muted
  BY DEF Init, Muted, Mute
<1> QED BY <1>2, <1>3, <1>4

LEMMA Enough == TypeOK /\ Told /\ Alone /\ Muted => HeardAsTold
<1> SUFFICES ASSUME TypeOK, Told, Alone, Muted, NEW t \in Texts
             PROVE  /\ \A i \in DOMAIN speech[t].played : speech[t].played[i] = i
                    /\ Len(speech[t].played) <= Reach(t, speech[t])
                    /\ t \in told => /\ Len(speech[t].played) = Reach(t, speech[t])
                                     /\ ~Mute(t)
                    /\ pc[t] = "over" /\ speech[t].failed = 0 /\ ~Mute(t)
                       /\ (\A s \in Mischief : pc[s] = "none") => t \in told
  BY DEF HeardAsTold
<1> DEFINE r == speech[t]
<1>0. /\ r.played \in Seq(Nat) /\ r.failed \in Nat /\ r.made \in Nat /\ r \in Said
      /\ Len(r.played) \in Nat /\ DOMAIN r.played = 1 .. Len(r.played)
      /\ Chunks[t] \in Nat /\ Chunks[t] > 0
  BY SaidTypes, Ends
<1>1. Spoken(t, r, pc[t], result[t], told)
  BY DEF Told
<1>2. t \in told => Len(r.played) = Reach(t, r) /\ ~Mute(t)
  BY <1>1 DEF Spoken, Place, Muted
<1>3. (\A i \in 1 .. Len(r.played) : r.played[i] = i) /\ Len(r.played) <= Reach(t, r)
  <2>1. CASE Chunks[t] > 1
    <3>1. Line(t, r)
      BY <1>1, <2>1 DEF Spoken
    <3>2. \A i \in 1 .. Len(r.played) : r.played[i] = i
      BY <3>1 DEF Line
    <3>3. CASE r.stopped
      <4>1. Len(r.played) = Reach(t, r)
        BY <3>1, <3>3 DEF Line
      <4> QED BY <1>0, <3>2, <4>1
    <3>4. CASE ~r.stopped
      <4>1. (r.failed = 0 \/ r.failed > Len(r.played)) /\ Len(r.played) <= Chunks[t]
        BY <3>1, <3>4 DEF Line
      <4> QED BY <1>0, <3>2, <4>1 DEF Reach
    <3> QED BY <3>3, <3>4
  <2>2. CASE Chunks[t] = 1
    <3>1. Short(r, pc[t], result[t])
      BY <1>1, <2>2 DEF Spoken
    <3>2. CASE r.played = <<>>
      BY <1>0, <2>2, <3>2 DEF Reach
    <3>3. CASE r.played = <<1>> /\ r.failed = 0
      BY <1>0, <2>2, <3>3 DEF Reach
    <3> QED BY <3>1, <3>2, <3>3 DEF Short
  <2> QED BY <1>0, <2>1, <2>2
<1>4. ASSUME pc[t] = "over", r.failed = 0, ~Mute(t), \A s \in Mischief : pc[s] = "none"
      PROVE  t \in told
  <2>1. result[t] # "error"
    BY <1>4 DEF Alone, Still
  <2>2. result[t] # "none"
    BY <1>1, <1>4 DEF Spoken, Place
  <2>3. result[t] = "success"
    BY <2>1, <2>2 DEF TypeOK
  <2> QED BY <1>1, <1>4, <2>3 DEF Spoken, Place
<1> QED BY <1>0, <1>2, <1>3, <1>4

\* Whatever the texts, and wherever their chunks fail to be synthesised or to
\* be played: a text is played from its start, in order, up to the first chunk
\* that was not synthesised; what is told was played that far, and was heard if
\* it is short; and while mischief keeps still, a reply without a failed chunk,
\* and not a short one that could not be played, is told.
THEOREM HeardAsToldAlways == Spec => []HeardAsTold
<1> DEFINE IInv == TypeOK /\ Told /\ Alone /\ Muted
<1>1. Init => IInv
  BY Starts, TypesStart
<1>2. IInv /\ [Next]_vars => IInv'
  BY ToldKept, AloneKept, MutedKept, TypesKept
<1>3. IInv => HeardAsTold
  BY Enough
<1> QED BY <1>1, <1>2, <1>3, PTL DEF Spec
=============================================================================
