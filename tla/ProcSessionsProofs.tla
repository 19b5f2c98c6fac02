------------------------- MODULE ProcSessionsProofs -------------------------
(***************************************************************************)
(* The safety of ProcSessions for every number of runs, session_ids and    *)
(* streams, and every bound.  The sessions drive the queues as one of      *)
(* their clients, so the invariant of OutputQueuesProofs holds; that       *)
(* proc.exit is the last message of a run follows from which goroutines    *)
(* are alive in each phase of it.                                          *)
(***************************************************************************)
EXTENDS ProcSessions, OutputQueuesProofs, FiniteSetTheorems

\* Everything of TypeOKSessions that OutputQueues does not already have.
TypedSessions ==
  /\ phase \in [Sessions -> {"unused", "checked", "refused", "running",
                             "reaped", "marked", "exiting", "gone"}]
  /\ sid \in [Sessions -> Keys \cup {"none"}]
  /\ sgen \in [Sessions -> Nat]
  /\ prio \in [Sessions -> Priorities]
  /\ written \in [Readers -> 0 .. MaxChunks]
  /\ taken \in [Readers -> 0 .. MaxChunks]
  /\ broken \subseteq Readers
  /\ killed \subseteq Sessions
  /\ retired \in [Resetters -> Nat]
  /\ reading \subseteq Readers
  /\ heldOpen \subseteq Readers

InCall(w) == pc[w] \in {"enter", "waiting", "woken"}

\* The goroutines of a run are inside enqueueOutputForGeneration only in the
\* phases that run them, and with the messages they send.
Alive ==
  /\ \A s \in Sessions : phase[s] # "unused" => sid[s] \in Keys
  /\ \A x \in reading : phase[x[1]] \in {"running", "reaped"}
  /\ \A x \in Readers :
       /\ pc[x] # "idle" => x \in reading
       /\ InCall(x) => call[x].msg = <<x[1], "output">>
  /\ \A s \in Sessions :
       /\ pc[Waiter(s)] # "idle" => phase[s] = "exiting"
       /\ InCall(Waiter(s)) => call[Waiter(s)].msg = <<s, "exit">>

\* A queued proc.exit is one whose run is over, and whose waiter is through.
ExitsAreOver ==
  \A k \in Keys : \A i \in DOMAIN StreamOf(k) : \A s \in Sessions :
    StreamOf(k)[i].msg = <<s, "exit">> =>
      phase[s] \in {"exiting", "gone"} /\ ~InCall(Waiter(s))

NothingBehindExit ==
  \A k \in Keys : \A i, j \in DOMAIN StreamOf(k) :
    i < j /\ StreamOf(k)[i].msg[2] = "exit" => StreamOf(k)[j].msg[1] # StreamOf(k)[i].msg[1]

PInv == IInv /\ TypedSessions /\ Alive /\ ExitsAreOver /\ NothingBehindExit
-----------------------------------------------------------------------------
(* The steps of the sessions as steps of the queues.                       *)

LEMMA WritersAre ==
  /\ \A x \in Readers : x \in Writers /\ x[1] \in Sessions /\ x = <<x[1], x[2]>> /\ x[2] # "wait"
  /\ \A s \in Sessions : Waiter(s) \in Writers /\ Waiter(s)[1] = s /\ Waiter(s)[2] = "wait"
  /\ \A w \in Writers : w \in Readers \/ \E s \in Sessions : w = Waiter(s)
  /\ \A s \in Sessions : <<s, "output">> \in Messages /\ <<s, "exit">> \in Messages
BY SessionsAssumption DEF Readers, Waiter

\* A run starts to send a message of its own.
Sends(w, msg) ==
  \E k \in Keys, p \in Priorities, size \in Sizes :
    Begin(w, k, p, msg, size)

LEMMA SendsStep ==
  ASSUME NEW w \in Writers, NEW msg \in Messages, Sends(w, msg)
  PROVE  Next
BY DEF Sends, Next

LEMMA ReadChunkSends ==
  ASSUME PInv, NEW x \in Readers, ReadChunk(x)
  PROVE  UNCHANGED vars \/ Sends(x, <<x[1], "output">>)
<1>1. x \in reading /\ x[1] \in Sessions
  BY WritersAre DEF ReadChunk
<1>2. sid[x[1]] \in Keys /\ prio[x[1]] \in Priorities
  BY <1>1 DEF PInv, Alive, TypedSessions
<1> QED BY <1>2 DEF ReadChunk, Sends

LEMMA EnqueueExitSends ==
  ASSUME PInv, NEW s \in Sessions, EnqueueExit(s)
  PROVE  UNCHANGED vars \/ Sends(Waiter(s), <<s, "exit">>)
<1>1. sid[s] \in Keys /\ prio[s] \in Priorities
  BY DEF PInv, Alive, TypedSessions, EnqueueExit
<1> QED BY <1>1 DEF EnqueueExit, Sends

LEMMA SessionsStepQueues ==
  ASSUME PInv, [NextSessions]_allVars
  PROVE  [Next]_vars
<1>1. ASSUME NEW x \in Readers, ReadChunk(x) PROVE [Next]_vars
  BY <1>1, ReadChunkSends, SendsStep, WritersAre
<1>2. ASSUME NEW s \in Sessions, EnqueueExit(s) PROVE [Next]_vars
  BY <1>2, EnqueueExitSends, SendsStep, WritersAre
<1>3. ASSUME NEW s \in Sessions, FinishOutput(s) PROVE [Next]_vars
  <2>1. sid[s] \in Keys
    BY <1>3 DEF FinishOutput, PInv, Alive
  <2> QED BY <1>3, <2>1 DEF FinishOutput, Next
<1>4. CASE QueueStep
  BY <1>4 DEF QueueStep, Next
<1>5. ASSUME NEW t \in Resetters, StartReset(t) \/ SwapMaps(t) PROVE [Next]_vars
  BY <1>5 DEF StartReset, SwapMaps, Next
<1>6. CASE UNCHANGED vars
  BY <1>6
<1> QED BY <1>1, <1>2, <1>3, <1>4, <1>5, <1>6
        DEF NextSessions, SessionStep, CheckSpawn, Spawn, Kill, Reap, Unregister, Produce,
            EndOfStream, LetGo, KillAll, allVars

-----------------------------------------------------------------------------
(* Types.                                                                  *)

LEMMA SessionTypesKept ==
  ASSUME PInv, [NextSessions]_allVars
  PROVE  TypedSessions'
<1>0. /\ TypedSessions /\ generation \in Nat /\ MaxChunks \in Nat
      /\ SpawnPriorities \subseteq Priorities
  BY SessionsAssumption DEF PInv, IInv, Typed, TypeOK
<1> USE DEF TypedSessions
<1>1. ASSUME NEW s \in Sessions, NEW k \in Keys, NEW p \in SpawnPriorities, CheckSpawn(s, k, p)
      PROVE  TypedSessions'
  BY <1>0, <1>1 DEF CheckSpawn
<1>2. ASSUME NEW s \in Sessions, Spawn(s) PROVE TypedSessions'
  <2>1. {<<s, "stdout">>} \subseteq Readers /\ {<<s, st>> : st \in Streams} \subseteq Readers
    BY SessionsAssumption DEF Readers
  <2>2. reading' \subseteq Readers /\ phase' \in [Sessions -> {"unused", "checked", "refused",
                                "running", "reaped", "marked", "exiting", "gone"}]
    BY <1>0, <1>2, <2>1 DEF Spawn
  <2> QED BY <1>0, <1>2, <2>2 DEF Spawn
<1>3. \A S : StreamsOf(S) \subseteq Readers
  BY DEF StreamsOf
<1>4. ASSUME NEW s \in Sessions, Kill(s) PROVE TypedSessions'
  BY <1>0, <1>3, <1>4 DEF Kill, KillSessions
<1>5. ASSUME NEW s \in Sessions, Reap(s) PROVE TypedSessions'
  BY <1>0, <1>3, <1>5 DEF Reap
<1>6. ASSUME NEW s \in Sessions, FinishOutput(s) \/ EnqueueExit(s) \/ Unregister(s)
      PROVE  TypedSessions'
  <2>1. /\ phase' \in {[phase EXCEPT ![s] = "marked"], [phase EXCEPT ![s] = "exiting"],
                       [phase EXCEPT ![s] = "gone"]}
        /\ UNCHANGED <<sid, sgen, prio, written, taken, broken, killed, retired, reading,
                       heldOpen>>
    BY <1>6 DEF FinishOutput, EnqueueExit, Unregister
  <2> QED BY <1>0, <2>1
<1>7. ASSUME NEW x \in Readers, Produce(x) PROVE TypedSessions'
  <2>1. written[x] + 1 \in 0 .. MaxChunks
    BY <1>0, <1>7 DEF Produce
  <2> QED BY <1>0, <1>7, <2>1 DEF Produce
<1>8. ASSUME NEW x \in Readers, ReadChunk(x) PROVE TypedSessions'
  <2>1. taken[x] + 1 \in 0 .. MaxChunks
    <3>1. written[x] \in 0 .. MaxChunks /\ taken[x] \in 0 .. MaxChunks /\ Unread(x) > 0
      BY <1>0, <1>8 DEF ReadChunk
    <3>2. Unread(x) = 0 \/ Unread(x) = written[x] - taken[x]
      BY DEF Unread
    <3> QED BY <1>0, <3>1, <3>2
  <2> QED BY <1>0, <1>8, <2>1 DEF ReadChunk
<1>9. ASSUME NEW x \in Readers, EndOfStream(x) PROVE TypedSessions'
  BY <1>0, <1>9 DEF EndOfStream
<1>10. ASSUME NEW t \in Resetters, StartReset(t) PROVE TypedSessions'
  BY <1>0, <1>10 DEF StartReset
<1>11. ASSUME NEW t \in Resetters, KillAll(t) PROVE TypedSessions'
  <2>1. Registered(retired[t]) \subseteq Sessions
    BY DEF Registered
  <2> QED BY <1>0, <1>3, <1>11, <2>1 DEF KillAll, KillSessions
<1>12. CASE UNCHANGED sessVars
  BY <1>0, <1>12 DEF sessVars
<1>13. ASSUME NEW x \in Readers, LetGo(x) PROVE TypedSessions'
  BY <1>0, <1>13 DEF LetGo
<1> QED BY <1>1, <1>2, <1>4, <1>5, <1>6, <1>7, <1>8, <1>9, <1>10, <1>11, <1>12, <1>13
        DEF NextSessions, SessionStep, QueueStep, SwapMaps, allVars
-----------------------------------------------------------------------------
(* What the steps of the queues do to calls and streams.                   *)

\* Nobody starts a call, and a call that goes on keeps its arguments.
CallsStay ==
  \A w \in Writers :
    /\ pc'[w] # "idle" => pc[w] # "idle"
    /\ InCall(w)' => InCall(w) /\ call'[w] = call[w]

\* Streams lose items at their front only.
StreamsShrink ==
  \A k \in Keys : \E n \in Nat : \A i \in DOMAIN StreamOf(k)' :
    i + n \in DOMAIN StreamOf(k) /\ StreamOf(k)'[i] = StreamOf(k)[i + n]

LEMMA StayShrinks == ASSUME IInv, StreamsStay PROVE StreamsShrink
<1>1. ASSUME NEW k \in Keys
      PROVE  \A i \in DOMAIN StreamOf(k)' :
               i + 0 \in DOMAIN StreamOf(k) /\ StreamOf(k)'[i] = StreamOf(k)[i + 0]
  <2>1. PICK s \in Seq(Item) : s = StreamOf(k) /\ s = StreamOf(k)'
    BY StreamsTyped DEF StreamsStay
  <2>2. \A i \in DOMAIN s : i + 0 = i
    OBVIOUS
  <2> QED BY <2>1, <2>2
<1> QED BY <1>1 DEF StreamsShrink

LEMMA DequeueShrinks ==
  ASSUME IInv, NEW p \in Priorities, Dequeue(p)
  PROVE  StreamsShrink
<1>1. ASSUME NEW k \in Keys
      PROVE  \E n \in Nat : \A i \in DOMAIN StreamOf(k)' :
               i + n \in DOMAIN StreamOf(k) /\ StreamOf(k)'[i] = StreamOf(k)[i + n]
  <2>1. PICK s \in Seq(Item) : s = StreamOf(k)
    BY StreamsTyped
  <2>2. (s # <<>> /\ StreamOf(k)' = Tail(s)) \/ StreamOf(k)' = s
    BY <2>1, DequeueStreams
  <2>3. s # <<>> => \A i \in DOMAIN Tail(s) : i + 1 \in DOMAIN s /\ Tail(s)[i] = s[i + 1]
    OBVIOUS
  <2>4. \A i \in DOMAIN s : i + 0 = i
    OBVIOUS
  <2>5. CASE StreamOf(k)' = s
    <3> WITNESS 0 \in Nat
    <3> QED BY <2>1, <2>4, <2>5
  <2>6. CASE s # <<>> /\ StreamOf(k)' = Tail(s)
    <3> WITNESS 1 \in Nat
    <3> QED BY <2>1, <2>3, <2>6
  <2> QED BY <2>2, <2>5, <2>6
<1> QED BY <1>1 DEF StreamsShrink

LEMMA DequeueCalls ==
  ASSUME IInv, NEW p \in Priorities, Dequeue(p)
  PROVE  CallsStay
<1>1. UNCHANGED call /\ \A v \in Writers : pc'[v] = pc[v] \/ (pc[v] = "waiting" /\ pc'[v] = "woken")
  BY DequeueStreams
<1> QED BY <1>1 DEF CallsStay, InCall

LEMMA ClearQueuesMoves ==
  ASSUME IInv, NEW t \in Resetters, ClearQueues(t)
  PROVE  CallsStay /\ StreamsShrink
<1>1. CallsStay
  BY DEF ClearQueues, Broadcast, CallsStay, InCall, IInv, Typed, TypeOK
<1>2. \A k \in Keys : StreamOf(k)' = <<>>
  BY ClearQueuesStreams
<1>3. DOMAIN <<>> = {} /\ 0 \in Nat
  OBVIOUS
<1> QED BY <1>1, <1>2, <1>3 DEF StreamsShrink

\* The writers' part of the queues.
LEMMA WriterMoves ==
  ASSUME IInv, NEW w \in Writers, NEW q \in Queues, Enter(w, q) \/ Resume(w, q)
  PROVE  CallsStay /\ (StreamsShrink \/ (Appends(w) /\ InCall(w) /\ call[w] \in Call))
<1>1. /\ pc[w] \in {"enter", "woken"} /\ call[w] \in Call
      /\ Appends(w) \/ Waits(w) \/ Leaves(w)
      /\ pc \in [Writers -> {"idle", "enter", "waiting", "woken", "notify"}]
      /\ call \in [Writers -> Call \cup {NoCall}]
  BY WriterStreams DEF IInv, Typed, TypeOK
<1>2. CallsStay
  BY <1>1 DEF CallsStay, InCall, Appends, Waits, Leaves
<1>3. StreamsShrink \/ Appends(w)
  BY <1>1, StayShrinks DEF Waits, Leaves
<1> QED BY <1>1, <1>2, <1>3 DEF InCall

\* Every step of the queues that starts no call.
LEMMA QueuesMove ==
  ASSUME PInv, NextSessions,
         ~\E x \in Readers : ReadChunk(x),
         ~\E s \in Sessions : EnqueueExit(s)
  PROVE  /\ CallsStay
         /\ \/ StreamsShrink
            \/ \E w \in Writers : Appends(w) /\ InCall(w) /\ call[w] \in Call /\ UNCHANGED sessVars
<1>0. IInv /\ pc \in [Writers -> {"idle", "enter", "waiting", "woken", "notify"}]
  BY DEF PInv, IInv, Typed, TypeOK
<1>1. ASSUME NEW s \in Sessions, FinishOutput(s) PROVE CallsStay /\ StreamsShrink
  <2>1. sid[s] \in Keys
    BY <1>1 DEF FinishOutput, PInv, Alive
  <2> QED BY <1>0, <1>1, <2>1, MarkCompleteStreams, StayShrinks
          DEF FinishOutput, MarkComplete, CallsStay, InCall
<1>2. CASE QueueStep
  <2>1. ASSUME NEW w \in Writers, Notify(w) PROVE CallsStay /\ StreamsShrink
    <3>1. StreamsStay
      BY <2>1, StreamsFrame DEF Notify
    <3> QED BY <1>0, <2>1, <3>1, StayShrinks DEF Notify, CallsStay, InCall
  <2>2. CASE TakeReady
    <3>1. StreamsStay
      BY <2>2, StreamsFrame DEF TakeReady
    <3> QED BY <1>0, <2>2, <3>1, StayShrinks DEF TakeReady, CallsStay, InCall
  <2> QED BY <1>0, <1>2, <2>1, <2>2, WriterMoves, DequeueCalls, DequeueShrinks DEF QueueStep
<1>3. ASSUME NEW t \in Resetters, StartReset(t) PROVE CallsStay /\ StreamsShrink
  <2>1. StreamsStay
    BY <1>3, StreamsFrame DEF StartReset, BumpGeneration
  <2> QED BY <1>0, <1>3, <2>1, StayShrinks DEF StartReset, BumpGeneration, CallsStay, InCall
<1>4. ASSUME NEW t \in Resetters, SwapMaps(t) PROVE CallsStay /\ StreamsShrink
  BY <1>0, <1>4, ClearQueuesMoves DEF SwapMaps
<1>5. CASE UNCHANGED vars
  <2>1. StreamsStay
    BY <1>5, StreamsFrame DEF vars
  <2> QED BY <1>0, <1>5, <2>1, StayShrinks DEF vars, CallsStay, InCall
<1> QED BY <1>1, <1>2, <1>3, <1>4, <1>5
        DEF NextSessions, SessionStep, CheckSpawn, Spawn, Kill, Reap, Unregister, Produce,
            EndOfStream, LetGo, KillAll

\* A call that starts leaves the streams and all other calls alone.
LEMMA SendsMoves ==
  ASSUME IInv, NEW w \in Writers, NEW msg, Sends(w, msg)
  PROVE  /\ StreamsStay
         /\ pc[w] = "idle" /\ pc'[w] = "enter" /\ call'[w].msg = msg
         /\ \A v \in Writers \ {w} : pc'[v] = pc[v] /\ call'[v] = call[v]
<1>1. PICK k \in Keys, p \in Priorities, size \in Sizes : Begin(w, k, p, msg, size)
  BY DEF Sends
<1>2. StreamsStay
  BY <1>1, StreamsFrame DEF Begin
<1> QED BY <1>1, <1>2 DEF Begin, IInv, Typed, TypeOK

-----------------------------------------------------------------------------
(* Which goroutines are alive.                                             *)

\* The phases of the runs, when no call starts.
LEMMA AliveKept ==
  ASSUME PInv, [NextSessions]_allVars
  PROVE  Alive'
<1>0. /\ Alive /\ TypedSessions /\ IInv
      /\ \A w \in Writers : InCall(w) => pc[w] # "idle"
  BY DEF PInv, InCall
<1>1. ASSUME CallsStay, NEW s \in Sessions, NEW f, f # "unused",
             phase' = [phase EXCEPT ![s] = f], sid' \in [Sessions -> Keys \cup {"none"}],
             sid'[s] \in Keys, \A t \in Sessions \ {s} : sid'[t] = sid[t],
             \A x \in reading' : x \in reading \/ x[1] = s,
             \A x \in reading \ reading' : pc[x] = "idle",
             f \notin {"running", "reaped"} => \A x \in reading' : x[1] # s,
             phase[s] = "exiting" => pc[Waiter(s)] = "idle"
      PROVE  Alive'
  <2>1. \A t \in Sessions : phase'[t] = IF t = s THEN f ELSE phase[t]
    BY <1>0, <1>1 DEF TypedSessions
  <2>2. \A t \in Sessions : phase'[t] # "unused" => sid'[t] \in Keys
    BY <1>0, <1>1, <2>1 DEF Alive
  <2>3. ASSUME NEW x \in reading' PROVE phase'[x[1]] \in {"running", "reaped"}
    <3>1. CASE x[1] = s
      BY <1>1, <2>1, <2>3, <3>1
    <3>2. CASE x[1] # s
      <4>1. x \in reading /\ x[1] \in Sessions
        BY <1>0, <1>1, <2>3, <3>2, WritersAre DEF TypedSessions
      <4> QED BY <1>0, <2>1, <3>2, <4>1 DEF Alive
    <3> QED BY <3>1, <3>2
  <2>4. \A x \in Readers : /\ pc'[x] # "idle" => x \in reading'
                           /\ InCall(x)' => call'[x].msg = <<x[1], "output">>
    BY <1>0, <1>1, WritersAre DEF Alive, CallsStay
  <2>5. \A t \in Sessions : /\ pc'[Waiter(t)] # "idle" => phase'[t] = "exiting"
                            /\ InCall(Waiter(t))' => call'[Waiter(t)].msg = <<t, "exit">>
    BY <1>0, <1>1, <2>1, WritersAre DEF Alive, CallsStay
  <2> QED BY <2>2, <2>3, <2>4, <2>5 DEF Alive
<1>2. ASSUME CallsStay, UNCHANGED <<phase, sid>>, reading' \subseteq reading,
             \A x \in reading \ reading' : pc[x] = "idle"
      PROVE  Alive'
  BY <1>0, <1>2, WritersAre DEF Alive, CallsStay
<1>3. ASSUME NEW x \in Readers, ReadChunk(x) PROVE Alive'
  <2>1. x \in reading /\ UNCHANGED <<phase, sid, reading>> /\ x \in Writers
    BY <1>3, WritersAre DEF ReadChunk
  <2>2. CASE UNCHANGED vars
    BY <1>2, <2>1, <2>2 DEF vars, CallsStay, InCall
  <2>3. CASE Sends(x, <<x[1], "output">>)
    <3>1. /\ pc'[x] = "enter" /\ call'[x].msg = <<x[1], "output">>
          /\ \A v \in Writers \ {x} : pc'[v] = pc[v] /\ call'[v] = call[v]
      BY <1>0, <2>1, <2>3, SendsMoves
    <3>2. \A s \in Sessions : Waiter(s) # x
      BY WritersAre
    <3> QED BY <1>0, <2>1, <3>1, <3>2, WritersAre DEF Alive, InCall
  <2> QED BY <1>3, <2>2, <2>3, ReadChunkSends
<1>4. ASSUME NEW s \in Sessions, EnqueueExit(s) PROVE Alive'
  <2>1. /\ phase[s] = "marked" /\ phase' = [phase EXCEPT ![s] = "exiting"]
        /\ UNCHANGED <<sid, reading>> /\ sid[s] \in Keys
        /\ \A x \in reading : x[1] # s
    BY <1>0, <1>4 DEF EnqueueExit, Alive
  <2>2. CASE UNCHANGED vars
    BY <1>0, <1>1, <2>1, <2>2 DEF vars, CallsStay, InCall, TypedSessions
  <2>3. CASE Sends(Waiter(s), <<s, "exit">>)
    <3>1. /\ pc'[Waiter(s)] = "enter" /\ call'[Waiter(s)].msg = <<s, "exit">>
          /\ \A v \in Writers \ {Waiter(s)} : pc'[v] = pc[v] /\ call'[v] = call[v]
      BY <1>0, <2>3, SendsMoves, WritersAre
    <3>2. /\ \A x \in Readers : x # Waiter(s)
          /\ \A t \in Sessions : t # s => Waiter(t) # Waiter(s)
      BY WritersAre
    <3>3. \A t \in Sessions : phase'[t] = IF t = s THEN "exiting" ELSE phase[t]
      BY <1>0, <2>1 DEF TypedSessions
    <3>4. \A x \in reading : x[1] \in Sessions
      BY <1>0, WritersAre DEF TypedSessions
    <3>5. \A t \in Sessions : phase'[t] # "unused" => sid'[t] \in Keys
      BY <1>0, <2>1, <3>3 DEF Alive
    <3>6. \A x \in reading' : phase'[x[1]] \in {"running", "reaped"}
      BY <1>0, <2>1, <3>3, <3>4 DEF Alive
    <3>7. \A x \in Readers : /\ pc'[x] # "idle" => x \in reading'
                             /\ InCall(x)' => call'[x].msg = <<x[1], "output">>
      BY <1>0, <2>1, <3>1, <3>2, WritersAre DEF Alive, InCall
    <3>8. \A t \in Sessions : /\ pc'[Waiter(t)] # "idle" => phase'[t] = "exiting"
                              /\ InCall(Waiter(t))' => call'[Waiter(t)].msg = <<t, "exit">>
      BY <1>0, <3>1, <3>2, <3>3, WritersAre DEF Alive, InCall
    <3> QED BY <3>5, <3>6, <3>7, <3>8 DEF Alive
  <2> QED BY <1>4, <2>2, <2>3, EnqueueExitSends
<1>5. CASE UNCHANGED allVars
  BY <1>0, <1>5 DEF Alive, InCall, allVars, vars, sessVars
<1>6. ASSUME NextSessions, ~\E x \in Readers : ReadChunk(x), ~\E s \in Sessions : EnqueueExit(s)
      PROVE  Alive'
  <2>0. CallsStay
    BY <1>6, QueuesMove
  <2>1. ASSUME NEW s \in Sessions, NEW k \in Keys, NEW p \in SpawnPriorities, CheckSpawn(s, k, p)
        PROVE  Alive'
    <3>1. /\ phase' = [phase EXCEPT ![s] = "checked"] /\ phase[s] = "unused"
          /\ sid' = [sid EXCEPT ![s] = k] /\ UNCHANGED reading
      BY <2>1 DEF CheckSpawn
    <3>2. /\ sid' \in [Sessions -> Keys \cup {"none"}] /\ sid'[s] \in Keys
          /\ \A t \in Sessions \ {s} : sid'[t] = sid[t]
      BY <1>0, <3>1 DEF TypedSessions
    <3>3. \A x \in reading' : x[1] # s
      BY <1>0, <3>1 DEF Alive
    <3> QED BY <1>1, <2>0, <3>1, <3>2, <3>3
  <2>2. ASSUME NEW s \in Sessions, Spawn(s) PROVE Alive'
    <3>1. /\ phase[s] = "checked" /\ UNCHANGED sid /\ sid[s] \in Keys
          /\ sid \in [Sessions -> Keys \cup {"none"}]
      BY <1>0, <2>2 DEF Spawn, Alive, TypedSessions
    <3>2. CASE MayLaunch(s)
      <4>1. /\ phase' = [phase EXCEPT ![s] = "running"] /\ reading \subseteq reading'
            /\ \A x \in reading' : x \in reading \/ x[1] = s
        BY <2>2, <3>2 DEF Spawn
      <4> QED BY <1>1, <2>0, <3>1, <4>1
    <3>3. CASE ~MayLaunch(s)
      <4>1. phase' = [phase EXCEPT ![s] = "refused"] /\ UNCHANGED reading
        BY <2>2, <3>3 DEF Spawn
      <4>2. \A x \in reading' : x[1] # s
        BY <1>0, <3>1, <4>1 DEF Alive
      <4> QED BY <1>1, <2>0, <3>1, <4>1, <4>2
    <3> QED BY <3>2, <3>3
  <2>3. ASSUME NEW s \in Sessions, Reap(s) \/ FinishOutput(s) \/ Unregister(s) PROVE Alive'
    <3>1. /\ phase[s] # "unused" /\ UNCHANGED <<sid, reading>> /\ sid[s] \in Keys
          /\ sid \in [Sessions -> Keys \cup {"none"}]
      BY <1>0, <2>3 DEF Reap, FinishOutput, Unregister, Alive, TypedSessions
    <3>2. CASE Reap(s)
      <4>1. phase[s] = "running" /\ phase' = [phase EXCEPT ![s] = "reaped"]
        BY <3>2 DEF Reap
      <4> QED BY <1>1, <2>0, <3>1, <4>1
    <3>3. CASE FinishOutput(s)
      <4>1. /\ phase[s] = "reaped" /\ phase' = [phase EXCEPT ![s] = "marked"]
            /\ \A x \in reading : x[1] # s
        BY <3>3 DEF FinishOutput, ReadersDone
      <4> QED BY <1>1, <2>0, <3>1, <4>1
    <3>4. CASE Unregister(s)
      <4>1. /\ phase[s] = "exiting" /\ phase' = [phase EXCEPT ![s] = "gone"]
            /\ pc[Waiter(s)] = "idle"
        BY <3>4 DEF Unregister
      <4>2. \A x \in reading : x[1] # s
        BY <1>0, <4>1 DEF Alive
      <4> QED BY <1>1, <2>0, <3>1, <4>1, <4>2
    <3> QED BY <2>3, <3>2, <3>3, <3>4
  <2>4. ASSUME NEW x \in Readers, EndOfStream(x) PROVE Alive'
    BY <1>2, <2>0, <2>4 DEF EndOfStream
  <2>5. CASE UNCHANGED <<phase, sid, reading>>
    BY <1>2, <2>0, <2>5
  <2> QED BY <1>6, <2>1, <2>2, <2>3, <2>4, <2>5
          DEF NextSessions, SessionStep, Kill, Produce, LetGo, QueueStep, StartReset, SwapMaps,
              KillAll, sessVars
<1> QED BY <1>3, <1>4, <1>5, <1>6

-----------------------------------------------------------------------------
(* What is queued behind a proc.exit.                                      *)

Over == {"exiting", "gone"}

\* A run that is over stays over.
LEMMA OverStays ==
  ASSUME PInv, [NextSessions]_allVars, NEW s \in Sessions, phase[s] \in Over
  PROVE  phase'[s] \in Over
<1>0. phase \in [Sessions -> {"unused", "checked", "refused", "running",
                              "reaped", "marked", "exiting", "gone"}]
  BY DEF PInv, TypedSessions
<1>1. ASSUME NEW r \in Sessions, NEW f, phase' = [phase EXCEPT ![r] = f],
             phase[r] \notin Over \/ f = "gone"
      PROVE  phase'[s] \in Over
  BY <1>0, <1>1 DEF Over
<1>2. ASSUME NEW r \in Sessions, SessionStep(r) PROVE phase'[s] \in Over
  BY <1>1, <1>2 DEF SessionStep, CheckSpawn, Spawn, Kill, Reap, FinishOutput, EnqueueExit,
                    Unregister, Over
<1> QED BY <1>2 DEF NextSessions, Produce, ReadChunk, EndOfStream, LetGo, QueueStep, StartReset,
                    SwapMaps, KillAll, allVars, sessVars

\* Every step starts one call, or lets streams shrink, or appends the item of
\* one call.
LEMMA StepKinds ==
  ASSUME PInv, [NextSessions]_allVars
  PROVE  \/ CallsStay /\ StreamsShrink
         \/ \E w \in Writers : CallsStay /\ Appends(w) /\ InCall(w) /\ call[w] \in Call
         \/ /\ StreamsShrink
            /\ \E w \in Writers :
                 /\ \A v \in Writers \ {w} : pc'[v] = pc[v]
                 /\ \A s \in Sessions : w = Waiter(s) => phase[s] = "marked"
<1>0. IInv
  BY DEF PInv
<1>1. CASE UNCHANGED vars
  <2>1. StreamsStay
    BY <1>1, StreamsFrame DEF vars
  <2> QED BY <1>0, <1>1, <2>1, StayShrinks DEF vars, CallsStay, InCall
<1>2. ASSUME NEW x \in Readers, ReadChunk(x), ~UNCHANGED vars
      PROVE  /\ StreamsShrink /\ x \in Writers
             /\ \A v \in Writers \ {x} : pc'[v] = pc[v]
             /\ \A s \in Sessions : x # Waiter(s)
  <2>1. x \in Writers /\ \A s \in Sessions : x # Waiter(s)
    BY WritersAre
  <2>2. Sends(x, <<x[1], "output">>)
    BY <1>2, ReadChunkSends
  <2> QED BY <1>0, <2>1, <2>2, SendsMoves, StayShrinks
<1>3. ASSUME NEW s \in Sessions, EnqueueExit(s), ~UNCHANGED vars
      PROVE  /\ StreamsShrink /\ Waiter(s) \in Writers
             /\ \A v \in Writers \ {Waiter(s)} : pc'[v] = pc[v]
             /\ \A t \in Sessions : Waiter(s) = Waiter(t) => phase[t] = "marked"
  <2>1. Waiter(s) \in Writers /\ \A t \in Sessions : Waiter(s) = Waiter(t) => s = t
    BY WritersAre
  <2>2. phase[s] = "marked"
    BY <1>3 DEF EnqueueExit
  <2>3. Sends(Waiter(s), <<s, "exit">>)
    BY <1>3, EnqueueExitSends
  <2> QED BY <1>0, <2>1, <2>2, <2>3, SendsMoves, StayShrinks
<1>4. UNCHANGED allVars => UNCHANGED vars
  BY DEF allVars
<1> QED BY <1>1, <1>2, <1>3, <1>4, QueuesMove

\* The new item of an append, and where the old ones are.
LEMMA AppendedItem ==
  ASSUME IInv, NEW w \in Writers, Appends(w), call[w] \in Call, NEW k \in Keys,
         NEW i \in DOMAIN StreamOf(k)'
  PROVE  \/ i \in DOMAIN StreamOf(k) /\ StreamOf(k)'[i] = StreamOf(k)[i]
         \/ /\ StreamOf(k)'[i].msg = call[w].msg
            /\ \A j \in DOMAIN StreamOf(k)' :
                 j < i => j \in DOMAIN StreamOf(k) /\ StreamOf(k)'[j] = StreamOf(k)[j]
            /\ \A j \in DOMAIN StreamOf(k)' : ~(i < j)
<1>1. PICK s \in Seq(Item) : s = StreamOf(k)
  BY StreamsTyped
<1>2. PICK t : t = StreamOf(k)'
  OBVIOUS
<1>3. t = IF k = call[w].key THEN Append(s, ItemOf(call[w])) ELSE s
  BY <1>1, <1>2 DEF Appends
<1>4. ItemOf(call[w]).msg = call[w].msg
  BY DEF ItemOf
<1>5. CASE t = s
  BY <1>1, <1>2, <1>5
<1>6. CASE t = Append(s, ItemOf(call[w]))
  <2>1. /\ DOMAIN s = 1 .. Len(s) /\ DOMAIN t = 1 .. Len(s) + 1 /\ Len(s) \in Nat
        /\ t[Len(s) + 1] = ItemOf(call[w])
        /\ \A j \in 1 .. Len(s) : t[j] = s[j]
    BY <1>6
  <2>2. i \in 1 .. Len(s) + 1
    BY <1>2, <2>1
  <2>3. CASE i \in 1 .. Len(s)
    BY <1>1, <1>2, <2>1, <2>3
  <2>4. CASE i = Len(s) + 1
    <3>1. \A j \in 1 .. Len(s) + 1 : (j < i => j \in 1 .. Len(s)) /\ ~(i < j)
      BY <2>1, <2>4
    <3> QED BY <1>1, <1>2, <1>4, <2>1, <2>4, <3>1
  <2> QED BY <2>1, <2>2, <2>3, <2>4
<1> QED BY <1>3, <1>5, <1>6

\* The writer of an append: a reader of a run that is not over, or the waiter of
\* one, which then is no longer in its call.
LEMMA AppendsOf ==
  ASSUME PInv, NEW w \in Writers, Appends(w), InCall(w)
  PROVE  \/ /\ w \in Readers /\ call[w].msg = <<w[1], "output">>
            /\ phase[w[1]] \notin Over
         \/ \E s \in Sessions : /\ w = Waiter(s) /\ call[w].msg = <<s, "exit">>
                               /\ phase[s] = "exiting" /\ pc'[w] = "notify"
<1>1. pc[w] # "idle" /\ pc'[w] = "notify"
  BY DEF InCall, Appends, PInv, IInv, Typed, TypeOK
<1>2. CASE w \in Readers
  BY <1>1, <1>2 DEF PInv, Alive, Over
<1>3. ASSUME NEW s \in Sessions, w = Waiter(s)
      PROVE  call[w].msg = <<s, "exit">> /\ phase[s] = "exiting"
  BY <1>1, <1>3 DEF PInv, Alive
<1> QED BY <1>1, <1>2, <1>3, WritersAre

LEMMA ExitsKept ==
  ASSUME PInv, [NextSessions]_allVars
  PROVE  ExitsAreOver'
<1>0. IInv /\ ExitsAreOver /\ Alive
  BY DEF PInv
<1> SUFFICES ASSUME NEW k \in Keys, NEW i \in DOMAIN StreamOf(k)', NEW s \in Sessions,
                    StreamOf(k)'[i].msg = <<s, "exit">>
             PROVE  phase'[s] \in Over /\ ~InCall(Waiter(s))'
  BY DEF ExitsAreOver, Over
<1>1. ASSUME NEW j \in DOMAIN StreamOf(k), StreamOf(k)[j].msg = <<s, "exit">>
      PROVE  phase[s] \in Over /\ phase'[s] \in Over /\ ~InCall(Waiter(s))
  <2>1. phase[s] \in Over /\ ~InCall(Waiter(s))
    BY <1>0, <1>1 DEF ExitsAreOver, Over
  <2> QED BY <2>1, OverStays
<1>2. Waiter(s) \in Writers
  BY WritersAre
<1>3. StreamsShrink => \E j \in DOMAIN StreamOf(k) : StreamOf(k)[j].msg = <<s, "exit">>
  BY DEF StreamsShrink
<1>4. CASE CallsStay /\ StreamsShrink
  BY <1>1, <1>2, <1>3, <1>4 DEF CallsStay
<1>5. ASSUME NEW w \in Writers, CallsStay, Appends(w), InCall(w), call[w] \in Call
      PROVE  phase'[s] \in Over /\ ~InCall(Waiter(s))'
  <2>1. CASE \E j \in DOMAIN StreamOf(k) : StreamOf(k)[j].msg = <<s, "exit">>
    BY <1>1, <1>2, <1>5, <2>1 DEF CallsStay
  <2>2. CASE call[w].msg = <<s, "exit">>
    <3>1. \A x : <<s, "exit">> # <<x, "output">>
      OBVIOUS
    <3>2. w = Waiter(s) /\ phase[s] = "exiting" /\ pc'[w] = "notify"
      BY <1>5, <2>2, <3>1, AppendsOf
    <3> QED BY <3>2, OverStays DEF Over, InCall
  <2> QED BY <1>0, <1>5, <2>1, <2>2, AppendedItem
<1>6. ASSUME StreamsShrink, NEW w \in Writers, \A v \in Writers \ {w} : pc'[v] = pc[v],
             \A t \in Sessions : w = Waiter(t) => phase[t] = "marked"
      PROVE  phase'[s] \in Over /\ ~InCall(Waiter(s))'
  <2>1. phase[s] \in Over /\ phase'[s] \in Over /\ ~InCall(Waiter(s))
    BY <1>1, <1>3, <1>6
  <2>2. pc'[Waiter(s)] = pc[Waiter(s)]
    BY <1>2, <1>6, <2>1 DEF Over
  <2> QED BY <2>1, <2>2 DEF InCall
<1> QED BY <1>4, <1>5, <1>6, StepKinds

LEMMA BehindKept ==
  ASSUME PInv, [NextSessions]_allVars
  PROVE  NothingBehindExit'
<1>0. IInv /\ ExitsAreOver /\ NothingBehindExit
  BY DEF PInv
<1> SUFFICES ASSUME NEW k \in Keys, NEW i \in DOMAIN StreamOf(k)', NEW j \in DOMAIN StreamOf(k)',
                    i < j, StreamOf(k)'[i].msg[2] = "exit"
             PROVE  StreamOf(k)'[j].msg[1] # StreamOf(k)'[i].msg[1]
  BY DEF NothingBehindExit
<1>1. CASE StreamsShrink
  <2>1. PICK n \in Nat : \A h \in DOMAIN StreamOf(k)' :
          h + n \in DOMAIN StreamOf(k) /\ StreamOf(k)'[h] = StreamOf(k)[h + n]
    BY <1>1 DEF StreamsShrink
  <2>2. PICK t \in Seq(Item) : t = StreamOf(k)'
    <3>1. IInv'
      BY <1>0, SessionsStepQueues, NextPreserves
    <3>2. StreamOf(k)' \in Seq(Item)
      BY <3>1 DEF StreamOf, IInv, Typed, TypeOK, QueueRecord
    <3> QED BY <3>2
  <2>3. i + n < j + n
    <3>1. i \in Nat /\ j \in Nat
      BY <2>2
    <3> QED BY <3>1
  <2> QED BY <1>0, <2>1, <2>3 DEF NothingBehindExit
<1>2. ASSUME NEW w \in Writers, Appends(w), InCall(w), call[w] \in Call
      PROVE  StreamOf(k)'[j].msg[1] # StreamOf(k)'[i].msg[1]
  <2>1. CASE j \in DOMAIN StreamOf(k) /\ StreamOf(k)'[j] = StreamOf(k)[j]
    <3>1. i \in DOMAIN StreamOf(k) /\ StreamOf(k)'[i] = StreamOf(k)[i]
      BY <1>0, <1>2, AppendedItem
    <3> QED BY <1>0, <2>1, <3>1 DEF NothingBehindExit
  <2>2. CASE /\ StreamOf(k)'[j].msg = call[w].msg
             /\ i \in DOMAIN StreamOf(k) /\ StreamOf(k)'[i] = StreamOf(k)[i]
    <3>1. PICK s \in Sessions : StreamOf(k)[i].msg = <<s, "exit">>
      <4>1. PICK t \in Seq(Item) : t = StreamOf(k)
        BY <1>0, StreamsTyped
      <4>2. t[i] \in Item /\ t[i].msg[2] = "exit"
        BY <2>2, <4>1
      <4>3. t[i].msg \in Sessions \X {"output", "exit"}
        BY <4>2, SessionsAssumption DEF Item
      <4> QED BY <4>1, <4>2, <4>3
    <3>2. phase[s] \in Over /\ ~InCall(Waiter(s))
      BY <1>0, <2>2, <3>1 DEF ExitsAreOver, Over
    <3>3. call[w].msg[1] # s
      BY <1>2, <3>2, AppendsOf
    <3> QED BY <2>2, <3>1, <3>3
  <2> QED BY <1>0, <1>2, <2>1, <2>2, AppendedItem
<1> QED BY <1>1, <1>2, StepKinds

-----------------------------------------------------------------------------
(* The theorems.                                                           *)

LEMMA SessionsInit == InitSessions => PInv
<1> SUFFICES ASSUME InitSessions PROVE PInv
  OBVIOUS
<1>1. IInv
  BY InitEstablishes DEF InitSessions
<1>2. TypedSessions
  BY SessionsAssumption DEF InitSessions, TypedSessions, Priorities
<1>3. Alive
  BY WritersAre DEF InitSessions, Init, Alive, InCall
<1>4. \A k \in Keys : StreamOf(k) = <<>>
  BY DEF InitSessions, Init, StreamOf
<1>5. DOMAIN <<>> = {}
  OBVIOUS
<1>6. ExitsAreOver /\ NothingBehindExit
  BY <1>4, <1>5 DEF ExitsAreOver, NothingBehindExit
<1> QED BY <1>1, <1>2, <1>3, <1>6 DEF PInv

LEMMA SessionsStepKeeps == PInv /\ [NextSessions]_allVars => PInv'
<1> SUFFICES ASSUME PInv, [NextSessions]_allVars PROVE PInv'
  OBVIOUS
<1>1. IInv'
  BY SessionsStepQueues, NextPreserves DEF PInv
<1> QED BY <1>1, SessionTypesKept, AliveKept, ExitsKept, BehindKept DEF PInv

LEMMA SessionsInvariance == SpecSessions => []PInv
BY SessionsInit, SessionsStepKeeps, PTL DEF SpecSessions

\* Spawned sessions drive the queues as OutputQueues allows, callbacks of a
\* retired multiplexer included: what holds of the queues holds of them here.
THEOREM SessionsUseQueues == SpecSessions => ImplementsOutputQueues
<1>1. InitSessions => Init
  BY DEF InitSessions
<1>2. PInv /\ [NextSessions]_allVars => [Next]_vars
  BY SessionsStepQueues
<1> QED BY <1>1, <1>2, SessionsInvariance, PTL
        DEF SpecSessions, Spec, ImplementsOutputQueues

\* Runs, their streams and their goroutines keep their types, and the queues
\* below them theirs.
THEOREM SessionsTypeCorrect == SpecSessions => []TypeOKSessions
<1>1. PInv => TypeOKSessions
  BY DEF PInv, IInv, Typed, TypedSessions, TypeOKSessions
<1> QED BY <1>1, SessionsInvariance, PTL

\* proc.exit is the last a client hears of a run, whatever blocked readers,
\* resets, kills and runs under the same session_id do.
THEOREM ExitComesLast == SpecSessions => []ExitIsLast
<1>1. ASSUME PInv PROVE ExitIsLast
  <2>1. ASSUME NEW k \in Keys, outputQueues[k] # NoQueue,
               NEW i \in DOMAIN queue[outputQueues[k]].items,
               NEW j \in DOMAIN queue[outputQueues[k]].items,
               i < j, queue[outputQueues[k]].items[i].msg[2] = "exit"
        PROVE  queue[outputQueues[k]].items[j].msg[1] # queue[outputQueues[k]].items[i].msg[1]
    BY <1>1, <2>1 DEF PInv, NothingBehindExit, StreamOf
  <2>2. ASSUME NEW x \in Readers, phase[x[1]] \in Over
        PROVE  x \notin reading /\ pc[x] = "idle"
    BY <1>1, <2>2 DEF PInv, Alive, Over
  <2> QED BY <2>1, <2>2 DEF ExitIsLast, Over
<1> QED BY <1>1, SessionsInvariance, PTL

-----------------------------------------------------------------------------
(* Where the claims of wait, OneRunPerQueue and ExitAfterAllOutput, hold:  *)
(* they fail only for runs with a session_id in common, and for pipes or   *)
(* for what was killed.                                                    *)

\* No two runs were given the same session_id.
DistinctIds ==
  \A s, t \in Sessions : phase[s] # "unused" /\ phase[t] # "unused" /\ sid[s] = sid[t] => s = t

\* What is in the queue of a session_id, or on its way there, is of runs that
\* were given that id.
Addressed ==
  /\ \A w \in Writers : InCall(w) => call[w].key = sid[w[1]]
  /\ \A k \in Keys : \A i \in DOMAIN StreamOf(k) : \A s \in Sessions :
       StreamOf(k)[i].msg[1] = s => phase[s] # "unused" /\ sid[s] = k

\* The session_id of a run is chosen once.
LEMMA IdsStay ==
  ASSUME PInv, [NextSessions]_allVars, NEW s \in Sessions, phase[s] # "unused"
  PROVE  phase'[s] # "unused" /\ sid'[s] = sid[s]
<1>0. /\ phase \in [Sessions -> {"unused", "checked", "refused", "running",
                                "reaped", "marked", "exiting", "gone"}]
      /\ sid \in [Sessions -> Keys \cup {"none"}]
  BY DEF PInv, TypedSessions
<1>1. ASSUME NEW r \in Sessions, SessionStep(r) PROVE phase'[s] # "unused" /\ sid'[s] = sid[s]
  BY <1>0, <1>1 DEF SessionStep, CheckSpawn, Spawn, Kill, Reap, FinishOutput, EnqueueExit,
                    Unregister
<1> QED BY <1>1 DEF NextSessions, Produce, ReadChunk, EndOfStream, LetGo, QueueStep, StartReset,
                    SwapMaps, KillAll, allVars, sessVars

\* A goroutine in a call has a run, whose message it carries.
LEMMA CallsAreOf ==
  ASSUME PInv, NEW w \in Writers, InCall(w)
  PROVE  w[1] \in Sessions /\ phase[w[1]] # "unused" /\ call[w].msg[1] = w[1]
<1>1. pc[w] # "idle"
  BY DEF InCall
<1>2. CASE w \in Readers
  <2>1. phase[w[1]] \in {"running", "reaped"} /\ call[w].msg = <<w[1], "output">>
    BY <1>1, <1>2 DEF PInv, Alive
  <2> QED BY <1>2, <2>1, WritersAre
<1>3. ASSUME NEW s \in Sessions, w = Waiter(s)
      PROVE  phase[s] = "exiting" /\ call[w].msg = <<s, "exit">> /\ w[1] = s
  BY <1>1, <1>3, WritersAre DEF PInv, Alive
<1> QED BY <1>2, <1>3, WritersAre

\* A call keeps its session_id, and a new one has that of its run.
LEMMA CallsKept ==
  ASSUME PInv, Addressed, [NextSessions]_allVars, NEW w \in Writers, InCall(w)'
  PROVE  call'[w].key = sid'[w[1]]
<1>0. pc \in [Writers -> {"idle", "enter", "waiting", "woken", "notify"}] /\
      call \in [Writers -> Call \cup {NoCall}]
  BY DEF PInv, IInv, Typed, TypeOK
<1>1. CASE InCall(w) /\ call'[w] = call[w]
  <2>1. w[1] \in Sessions /\ phase[w[1]] # "unused"
    BY <1>1, CallsAreOf
  <2> QED BY <1>1, <2>1, IdsStay DEF Addressed
<1>2. CASE CallsStay
  BY <1>1, <1>2 DEF CallsStay
<1>3. ASSUME NEW v \in Writers, NEW k \in Keys, NEW p \in Priorities, NEW m, NEW size \in Sizes,
             Begin(v, k, p, m, size), k = sid[v[1]], UNCHANGED sid
      PROVE  call'[w].key = sid'[w[1]]
  <2>1. v = w => call'[w].key = k
    BY <1>0, <1>3 DEF Begin
  <2>2. v # w => pc'[w] = pc[w] /\ call'[w] = call[w]
    BY <1>0, <1>3 DEF Begin
  <2> QED BY <1>1, <1>3, <2>1, <2>2 DEF InCall
<1>4. ASSUME NEW x \in Readers, ReadChunk(x), ~UNCHANGED vars
      PROVE  call'[w].key = sid'[w[1]]
  <2>1. x \in reading /\ x[1] \in Sessions /\ x \in Writers /\ UNCHANGED sid
    BY <1>4, WritersAre DEF ReadChunk
  <2>2. sid[x[1]] \in Keys /\ prio[x[1]] \in Priorities
    BY <2>1 DEF PInv, Alive, TypedSessions
  <2>3. PICK size \in Sizes : Begin(x, sid[x[1]], prio[x[1]], <<x[1], "output">>, size)
    BY <1>4 DEF ReadChunk
  <2> QED BY <1>3, <2>1, <2>2, <2>3
<1>5. ASSUME NEW s \in Sessions, EnqueueExit(s), ~UNCHANGED vars
      PROVE  call'[w].key = sid'[w[1]]
  <2>1. Waiter(s) \in Writers /\ Waiter(s)[1] = s /\ UNCHANGED sid
    BY <1>5, WritersAre DEF EnqueueExit
  <2>2. sid[s] \in Keys /\ prio[s] \in Priorities
    BY <1>5 DEF EnqueueExit, PInv, Alive, TypedSessions
  <2>3. PICK size \in Sizes : Begin(Waiter(s), sid[s], prio[s], <<s, "exit">>, size)
    BY <1>5 DEF EnqueueExit
  <2> QED BY <1>3, <2>1, <2>2, <2>3
<1>6. CASE UNCHANGED vars
  BY <1>1, <1>6 DEF vars, InCall
<1> QED BY <1>2, <1>4, <1>5, <1>6, QueuesMove DEF allVars

LEMMA AddressedKept ==
  ASSUME PInv, Addressed, [NextSessions]_allVars
  PROVE  Addressed'
<1>0. IInv
  BY DEF PInv
<1>1. ASSUME NEW k \in Keys, NEW i \in DOMAIN StreamOf(k)', NEW s \in Sessions,
             StreamOf(k)'[i].msg[1] = s
      PROVE  phase'[s] # "unused" /\ sid'[s] = k
  <2>1. ASSUME NEW j \in DOMAIN StreamOf(k), StreamOf(k)[j].msg[1] = s
        PROVE  phase'[s] # "unused" /\ sid'[s] = k
    BY <2>1, IdsStay DEF Addressed
  <2>2. CASE StreamsShrink
    BY <1>1, <2>1, <2>2 DEF StreamsShrink
  <2>3. ASSUME NEW w \in Writers, Appends(w), InCall(w), call[w] \in Call
        PROVE  phase'[s] # "unused" /\ sid'[s] = k
    <3>1. CASE i \in DOMAIN StreamOf(k) /\ StreamOf(k)'[i] = StreamOf(k)[i]
      BY <1>1, <2>1, <3>1
    <3>2. CASE k # call[w].key
      BY <1>1, <2>1, <2>3, <3>2 DEF Appends
    <3>3. CASE StreamOf(k)'[i].msg = call[w].msg /\ k = call[w].key
      <4>1. s = w[1] /\ phase[s] # "unused"
        BY <1>1, <2>3, <3>3, CallsAreOf
      <4> QED BY <2>3, <3>3, <4>1, IdsStay DEF Addressed
    <3> QED BY <1>0, <2>3, <3>1, <3>2, <3>3, AppendedItem
  <2> QED BY <2>2, <2>3, StepKinds
<1> QED BY <1>1, CallsKept DEF Addressed

LEMMA AddressedAlways == SpecSessions => []Addressed
<1>1. ASSUME InitSessions PROVE Addressed
  <2>1. \A k \in Keys : StreamOf(k) = <<>>
    BY <1>1 DEF InitSessions, Init, StreamOf
  <2>2. DOMAIN <<>> = {}
    OBVIOUS
  <2> QED BY <1>1, <2>1, <2>2 DEF InitSessions, Init, Addressed, InCall
<1> QED BY <1>1, AddressedKept, SessionsInvariance, PTL DEF SpecSessions

\* A queue holds messages of two runs (see OneRunPerQueue) only when the server
\* has chosen a session_id twice: callbacks, resets and reuse of queue objects
\* do not mix what belongs to different ids.
THEOREM DistinctIdsShareNoQueue == SpecSessions => [](DistinctIds => OneRunPerQueue)
<1>1. ASSUME PInv, Addressed, DistinctIds PROVE OneRunPerQueue
  <2> SUFFICES ASSUME NEW k \in Keys, outputQueues[k] # NoQueue,
                      NEW i \in DOMAIN queue[outputQueues[k]].items,
                      NEW j \in DOMAIN queue[outputQueues[k]].items
               PROVE  queue[outputQueues[k]].items[i].msg[1]
                        = queue[outputQueues[k]].items[j].msg[1]
    BY DEF OneRunPerQueue
  <2>1. PICK t \in Seq(Item) : t = StreamOf(k) /\ t = queue[outputQueues[k]].items
    BY <1>1, StreamsTyped DEF PInv, StreamOf
  <2>2. ASSUME NEW n \in DOMAIN t PROVE t[n].msg[1] \in Sessions
    <3>1. t[n] \in Item
      BY <2>1, <2>2
    <3> QED BY <3>1, SessionsAssumption DEF Item
  <2>3. ASSUME NEW n \in DOMAIN t 
        PROVE  sid[t[n].msg[1]] = k /\ phase[t[n].msg[1]] # "unused"
    BY <1>1, <2>1, <2>2, <2>3 DEF Addressed
  <2> QED BY <1>1, <2>1, <2>2, <2>3 DEF DistinctIds
<1> QED BY <1>1, SessionsInvariance, AddressedAlways, PTL

\* When the exit callback of a terminal that nobody killed runs, the readers
\* have read all that its process wrote.
TerminalOutputIsRead ==
  \A s \in TTYs \ killed :
    phase[s] \in {"marked", "exiting", "gone"} =>
      \A x \in StreamsOf({s}) : taken[x] = written[x]

\* A terminal stays open until it is killed, and its readers stay until they
\* have read everything.
TerminalsStayOpen ==
  \A x \in Readers : x[1] \in TTYs \ killed =>
    x \notin broken /\ (x \notin reading => taken[x] = written[x])

LEMMA TerminalsKept ==
  ASSUME PInv, TerminalsStayOpen, [NextSessions]_allVars
  PROVE  TerminalsStayOpen'
<1>0. /\ written \in [Readers -> 0 .. MaxChunks] /\ taken \in [Readers -> 0 .. MaxChunks]
      /\ MaxChunks \in Nat /\ TTYs \subseteq Sessions
  BY SessionsAssumption DEF PInv, TypedSessions
<1>1. CASE UNCHANGED <<written, taken, broken, killed>> /\ reading \subseteq reading'
  BY <1>1 DEF TerminalsStayOpen
<1>2. ASSUME NEW y \in Readers, Produce(y) \/ ReadChunk(y) PROVE TerminalsStayOpen'
  <2>1. y \in reading /\ UNCHANGED <<broken, killed, reading>>
    BY <1>2 DEF Produce, ReadChunk
  <2>2. \A x \in Readers \ {y} : taken'[x] = taken[x] /\ written'[x] = written[x]
    BY <1>0, <1>2 DEF Produce, ReadChunk
  <2> QED BY <2>1, <2>2 DEF TerminalsStayOpen
<1>3. ASSUME NEW y \in Readers, EndOfStream(y) PROVE TerminalsStayOpen'
  <2>1. /\ reading' = reading \ {y} /\ Unread(y) = 0
        /\ UNCHANGED <<written, taken, broken, killed>>
    BY <1>3 DEF EndOfStream
  <2>2. y[1] \in TTYs \ killed => taken[y] = written[y]
    <3>1. y[1] \in TTYs \ killed => written[y] - taken[y] = 0
      BY <2>1 DEF Unread, TerminalsStayOpen
    <3>2. written[y] \in Nat /\ taken[y] \in Nat
      BY <1>0
    <3> QED BY <3>1, <3>2
  <2> QED BY <2>1, <2>2 DEF TerminalsStayOpen
<1>4. ASSUME NEW S, KillSessions(S), UNCHANGED <<written, taken, reading>>
      PROVE  TerminalsStayOpen'
  BY <1>4 DEF KillSessions, StreamsOf, TerminalsStayOpen
<1>5. ASSUME NEW s \in Sessions, Reap(s) PROVE TerminalsStayOpen'
  BY <1>5 DEF Reap, StreamsOf, TerminalsStayOpen
<1>6. ASSUME NEW s \in Sessions, SessionStep(s) PROVE TerminalsStayOpen'
  <2>1. CASE Kill(s)
    BY <1>4, <2>1 DEF Kill
  <2> QED BY <1>1, <1>5, <1>6, <2>1
          DEF SessionStep, CheckSpawn, Spawn, FinishOutput, EnqueueExit, Unregister
<1>7. ASSUME NEW t \in Resetters, KillAll(t) PROVE TerminalsStayOpen'
  BY <1>4, <1>7 DEF KillAll
<1> QED BY <1>1, <1>2, <1>3, <1>6, <1>7
        DEF NextSessions, LetGo, QueueStep, StartReset, SwapMaps, allVars, sessVars

LEMMA TerminalsAlways == SpecSessions => []TerminalsStayOpen
<1>1. InitSessions => TerminalsStayOpen
  BY DEF InitSessions, TerminalsStayOpen
<1> QED BY <1>1, TerminalsKept, SessionsInvariance, PTL DEF SpecSessions

\* What wait of proc.go says of every process, that its readers have drained its
\* output before the exit callback, holds of the terminals: cmd.Wait leaves
\* them open (see ExitAfterAllOutput for the pipes).
THEOREM TerminalsLoseNoOutput == SpecSessions => []TerminalOutputIsRead
<1>1. ASSUME PInv, TerminalsStayOpen PROVE TerminalOutputIsRead
  <2> SUFFICES ASSUME NEW s \in TTYs \ killed, phase[s] \in {"marked", "exiting", "gone"},
                      NEW x \in StreamsOf({s})
               PROVE  taken[x] = written[x]
    BY DEF TerminalOutputIsRead
  <2>1. x \in Readers /\ x[1] = s
    BY DEF StreamsOf
  <2>2. x \notin reading
    BY <1>1, <2>1 DEF PInv, Alive
  <2> QED BY <1>1, <2>1, <2>2 DEF TerminalsStayOpen
<1> QED BY <1>1, SessionsInvariance, TerminalsAlways, PTL

-----------------------------------------------------------------------------
(* The sessions map of a multiplexer.                                      *)

\* The sessions of one multiplexer have different session_ids, and there are
\* not more of them than the cap allows.
MultiplexersKeepApart ==
  \A s \in Sessions :
    LET S == Registered(sgen[s]) IN
    /\ \A t, u \in S : sid[t] = sid[u] => t = u
    /\ MaxSessions > 0 => Cardinality(S) <= MaxSessions

KeepsApart(S) ==
  /\ \A t, u \in S : sid[t] = sid[u] => t = u
  /\ IsFiniteSet(S)
  /\ MaxSessions > 0 => Cardinality(S) <= MaxSessions

AllKeepApart == \A g \in Nat : KeepsApart(Registered(g))

\* Nobody enters a multiplexer but by Spawn, which adds one session.
LEMMA RegisteredSteps ==
  ASSUME PInv, [NextSessions]_allVars, NEW g \in Nat
  PROVE  \/ Registered(g)' \subseteq Registered(g)
         \/ \E s \in Sessions : /\ Registered(g)' = Registered(g) \cup {s}
                               /\ g = sgen[s] /\ MayLaunch(s)
                               /\ phase[s] = "checked"
<1>0. /\ phase \in [Sessions -> {"unused", "checked", "refused", "running",
                                "reaped", "marked", "exiting", "gone"}]
      /\ sgen \in [Sessions -> Nat]
  BY DEF PInv, TypedSessions
<1> DEFINE Listed == {"running", "reaped", "marked", "exiting"}
<1>1. ASSUME UNCHANGED sgen, NEW s \in Sessions, NEW f, phase' = [phase EXCEPT ![s] = f],
             phase[s] \in Listed \/ f \notin Listed
      PROVE  Registered(g)' \subseteq Registered(g)
  BY <1>0, <1>1 DEF Registered
<1>2. ASSUME NEW s \in Sessions, NEW k \in Keys, NEW p \in SpawnPriorities, CheckSpawn(s, k, p)
      PROVE  Registered(g)' \subseteq Registered(g)
  BY <1>0, <1>2 DEF CheckSpawn, Registered
<1>3. ASSUME NEW s \in Sessions, Spawn(s), MayLaunch(s), g = sgen[s]
      PROVE  Registered(g)' = Registered(g) \cup {s} /\ phase[s] = "checked"
  BY <1>0, <1>3 DEF Spawn, Registered
<1>4. ASSUME NEW s \in Sessions, Spawn(s), MayLaunch(s), g # sgen[s]
      PROVE  Registered(g)' \subseteq Registered(g)
  BY <1>0, <1>4 DEF Spawn, Registered
<1>5. ASSUME NEW s \in Sessions, Spawn(s), ~MayLaunch(s)
      PROVE  Registered(g)' \subseteq Registered(g)
  BY <1>1, <1>5 DEF Spawn
<1>6. ASSUME NEW s \in Sessions, Reap(s) \/ FinishOutput(s) \/ EnqueueExit(s) \/ Unregister(s)
      PROVE  Registered(g)' \subseteq Registered(g)
  BY <1>1, <1>6 DEF Reap, FinishOutput, EnqueueExit, Unregister
<1>7. CASE UNCHANGED <<phase, sgen>>
  BY <1>7 DEF Registered
<1> QED BY <1>2, <1>3, <1>4, <1>5, <1>6, <1>7
        DEF NextSessions, SessionStep, Kill, Produce, ReadChunk, EndOfStream, LetGo, QueueStep,
            StartReset, SwapMaps, KillAll, allVars, sessVars

LEMMA ApartKept ==
  ASSUME PInv, AllKeepApart, [NextSessions]_allVars
  PROVE  AllKeepApart'
<1> SUFFICES ASSUME NEW g \in Nat PROVE KeepsApart(Registered(g))'
  BY DEF AllKeepApart
<1> DEFINE S == Registered(g)
<1>0. KeepsApart(S) /\ MaxSessions \in Nat /\ S \subseteq Sessions
  BY SessionsAssumption DEF AllKeepApart, Registered
<1>1. \A t \in S : sid'[t] = sid[t]
  BY IdsStay DEF Registered
<1>2. CASE S' \subseteq S
  <2>1. IsFiniteSet(S') /\ Cardinality(S') <= Cardinality(S)
        /\ Cardinality(S) \in Nat /\ Cardinality(S') \in Nat
    BY <1>0, <1>2, FS_Subset, FS_CardinalityType DEF KeepsApart
  <2>2. MaxSessions > 0 => Cardinality(S') <= MaxSessions
    BY <1>0, <2>1 DEF KeepsApart
  <2> QED BY <1>0, <1>1, <1>2, <2>1, <2>2 DEF KeepsApart
<1>3. ASSUME NEW s \in Sessions, S' = S \cup {s}, g = sgen[s], MayLaunch(s),
             phase[s] = "checked"
      PROVE  KeepsApart(S)'
  <2>1. \A t \in S : sid[t] # sid[s]
    BY <1>3 DEF MayLaunch
  <2>2. s \notin S
    BY <2>1
  <2>3. MaxSessions > 0 => Cardinality(S) < MaxSessions
    BY <1>3 DEF MayLaunch
  <2>4. IsFiniteSet(S') /\ Cardinality(S') = Cardinality(S) + 1 /\ Cardinality(S) \in Nat
    BY <1>0, <1>3, <2>2, FS_AddElement, FS_CardinalityType DEF KeepsApart
  <2>5. MaxSessions > 0 => Cardinality(S') <= MaxSessions
    BY <1>0, <2>3, <2>4
  <2>6. sid'[s] = sid[s]
    BY <1>3, IdsStay
  <2>7. \A t, u \in S' : sid'[t] = sid'[u] => t = u
    BY <1>0, <1>1, <1>3, <2>1, <2>6 DEF KeepsApart
  <2> QED BY <2>4, <2>5, <2>7 DEF KeepsApart
<1> QED BY <1>2, <1>3, RegisteredSteps

LEMMA ApartAlways == SpecSessions => []AllKeepApart
<1>1. ASSUME InitSessions PROVE AllKeepApart
  <2>1. \A g \in Nat : Registered(g) = {}
    BY <1>1 DEF InitSessions, Registered
  <2> QED BY <2>1, FS_EmptySet, SessionsAssumption DEF AllKeepApart, KeepsApart
<1> QED BY <1>1, ApartKept, SessionsInvariance, PTL DEF SpecSessions

\* Multiplexer.Spawn (proc.go) admits no second session of an id and no session
\* above the cap, whatever exits, kills and resets come between its check and
\* the deletion by wait.
THEOREM SpawnKeepsSessionsApart == SpecSessions => []MultiplexersKeepApart
<1>1. ASSUME PInv, AllKeepApart PROVE MultiplexersKeepApart
  <2>1. \A s \in Sessions : sgen[s] \in Nat
    BY <1>1 DEF PInv, TypedSessions
  <2> QED BY <1>1, <2>1 DEF AllKeepApart, KeepsApart, MultiplexersKeepApart
<1> QED BY <1>1, SessionsInvariance, ApartAlways, PTL
=============================================================================
