------------------------- MODULE TunnelWriterProofs -------------------------
(***************************************************************************)
(* The safety of TunnelWriter for every number of sessions, senders and    *)
(* resetters, every capacity and every burst limit.  The queues of the     *)
(* tunnel keep the invariant of OutputQueuesProofs, because each step of   *)
(* the tunnel is one of theirs or leaves them alone; what the writer adds  *)
(* rests on three invariants of its own.                                   *)
(***************************************************************************)
EXTENDS TunnelWriter, OutputQueuesProofs

\* Everything of TypeOKWriter that OutputQueues does not already have.
TypedWriter ==
  /\ control \in [Priorities -> Seq(Nat)]
  /\ \A p \in Priorities : Len(control[p]) <= ControlCapacity
  /\ sending \in [Senders -> Message]
  /\ conn \in 0 .. generation
  /\ reading \in BOOLEAN
  /\ wpc \in DOMAIN NextTry \cup {"off", "dialing", "select", "send", "done"}
  /\ burst \in 0 .. BurstLimit
  /\ picked \in Message
  /\ draining \in [Resetters -> Priorities \cup {"no"}]
  /\ normalUp \in BOOLEAN
  /\ waited \in Nat

\* What carries generation g was made by the runtime of the connection, or by
\* an earlier one.
Past(g) == g \in Nat /\ g <= generation /\ (g = generation => conn = generation)

\* The connection is the only source of messages of its generation, its queues
\* hold nothing else, and the next connection begins with empty ones.
Own ==
  /\ \A p \in Priorities : \A i \in DOMAIN control[p] : Past(control[p][i])
  /\ \A g \in Senders : Past(sending[g].gen)
  /\ \A w \in Writers : pc[w] \in {"enter", "waiting", "woken"} => Past(call[w].gen)
  /\ \A k \in Keys : \A i \in DOMAIN StreamOf(k) : conn # 0 => StreamOf(k)[i].gen = conn
  /\ conn = 0 /\ Run \notin clearing => \A k \in Keys : StreamOf(k) = <<>>
  /\ conn = 0 <=> wpc \in {"off", "dialing"}
  /\ wpc = "dialing" => Run \notin clearing
  /\ OwnMessagesOnly

\* While normalUp holds, a full burst leads straight to a normal message: the
\* writer is in the two tries of the burst, which cannot both come back empty.
Burst ==
  /\ waited <= burst
  /\ wpc \in {"off", "dialing"} => waited = 0
  /\ normalUp /\ wpc = "burstControl" => NormalWaiting
  /\ normalUp /\ wpc = "burstOutput" => activeOutputs["normal"] # <<>>
  /\ normalUp /\ burst = BurstLimit =>
       \/ wpc \in {"burstControl", "burstOutput", "done"}
       \/ wpc = "send" /\ picked.priority = "normal"

Announced == outputReady \/ \E w \in Writers : pc[w] = "notify"

\* Output that arrives in a list the writer has already tried is announced.
Awake ==
  /\ wpc \in {"normalControl", "normalOutput", "select"} /\ activeOutputs["priority"] # <<>> =>
       Announced
  /\ wpc = "select" /\ activeOutputs["normal"] # <<>> => Announced

WInv == IInv /\ TypedWriter /\ Own /\ Burst /\ Awake

\* Steps of the queues that the writer's own variables do not see.
QueuesOnly ==
  /\ UNCHANGED writerVars
  /\ \/ \E w \in Writers, k \in Keys, m \in Messages, s \in Sizes :
          conn = generation /\ Begin(w, k, PriorityOf[k], m, s)
     \/ \E w \in Writers, q \in Queues : Enter(w, q) \/ Resume(w, q)
     \/ \E w \in Writers : Notify(w)
     \/ \E k \in Keys : MarkComplete(k)
     \/ CancelContext
     \/ UNCHANGED vars

-----------------------------------------------------------------------------
(* The tunnel's steps as steps of its queues.                              *)

LEMMA StepCases ==
  ASSUME [NextWriter]_tunnelVars
  PROVE  \/ TryControl \/ TryOutput \/ TryNothing
         \/ (\E p \in Priorities : SelectControl(p))
         \/ SelectReady \/ SelectDone \/ Send \/ SendFails
         \/ (\E g \in Senders : (\E p \in Priorities : Offer(g, p)) \/ Deliver(g) \/ Abandon(g))
         \/ Dial \/ Connect \/ LoseConnection \/ RunResets
         \/ (\E t \in Resetters : StopResets(t) \/ SwapQueues(t) \/ Drain(t))
         \/ QueuesOnly
<1>1. ASSUME NEW w \in Writers, OutputStep(w) PROVE QueuesOnly
  BY <1>1 DEF OutputStep, Stream, QueuesOnly
<1>2. ASSUME NEW k \in Keys, MarkStep(k) PROVE QueuesOnly
  BY <1>2 DEF MarkStep, QueuesOnly
<1>3. CASE Cancel
  BY <1>3 DEF Cancel, QueuesOnly
<1>4. CASE UNCHANGED tunnelVars
  BY <1>4 DEF tunnelVars, QueuesOnly
<1> QED BY <1>1, <1>2, <1>3, <1>4 DEF NextWriter, WriterStep, SenderStep, ResetStep

LEMMA LaneIsPriority == \A x : Lane(x) \in Priorities
BY DEF Lane, Priorities

LEMMA StepOfQueues ==
  ASSUME [NextWriter]_tunnelVars
  PROVE  [Next]_vars
<1>1. CASE TryOutput
  <2>1. Dequeue(Lane(wpc))
    BY <1>1 DEF TryOutput
  <2> QED BY <2>1, LaneIsPriority DEF Next
<1>2. CASE SelectReady
  BY <1>2 DEF SelectReady, Next
<1>3. CASE RunResets \/ \E t \in Resetters : StopResets(t) \/ SwapQueues(t)
  BY <1>3, WriterAssumption DEF RunResets, StopResets, SwapQueues, Next
<1>4. CASE QueuesOnly
  <2>1. \A k \in Keys : PriorityOf[k] \in Priorities
    BY WriterAssumption
  <2> QED BY <1>4, <2>1 DEF QueuesOnly, Next
<1>5. CASE UNCHANGED vars
  BY <1>5
<1> QED BY StepCases, <1>1, <1>2, <1>3, <1>4, <1>5
        DEF TryControl, TryNothing, SelectControl, SelectDone, Send, SendFails, Offer,
            Deliver, Abandon, Dial, Connect, LoseConnection, Drain

-----------------------------------------------------------------------------
(* Types.                                                                  *)

LEMMA TypesKept ==
  ASSUME WInv, [NextWriter]_tunnelVars
  PROVE  TypedWriter'
<1> USE DEF TypedWriter
<1>0. /\ TypedWriter /\ generation \in Nat \ {0}
      /\ ControlCapacity \in Nat \ {0} /\ BurstLimit \in Nat \ {0}
  BY WriterAssumption DEF WInv, IInv, Typed, TypeOK
<1>1. /\ \A b \in 0 .. BurstLimit : FirstTry(b) \in {"burstControl", "priorityControl"}
      /\ {"burstControl", "priorityControl"} \subseteq DOMAIN NextTry
      /\ NoMessage \in Message /\ NormalWaiting \in BOOLEAN
  BY DEF FirstTry, NextTry, NoMessage, Message, Priorities, NormalWaiting
<1>2. ASSUME NEW p \in Priorities, control[p] # <<>>
      PROVE  /\ Head(control[p]) \in Nat
             /\ [control EXCEPT ![p] = Tail(@)] \in [Priorities -> Seq(Nat)]
             /\ \A x \in Priorities : Len([control EXCEPT ![p] = Tail(@)][x]) <= ControlCapacity
  <2>1. /\ Tail(control[p]) \in Seq(Nat) /\ Head(control[p]) \in Nat
        /\ Len(Tail(control[p])) <= ControlCapacity
    BY <1>0, <1>2
  <2> QED BY <1>0, <2>1
<1>3. ASSUME NEW b \in 0 .. BurstLimit, PickAgain(b)
      PROVE  /\ wpc' \in DOMAIN NextTry \cup {"off", "dialing", "select", "send", "done"}
             /\ burst' \in 0 .. BurstLimit /\ normalUp' \in BOOLEAN /\ picked' \in Message
  BY <1>1, <1>3 DEF PickAgain
<1>4. CASE TryControl
  <2>1. PICK p \in Priorities : p = Lane(wpc)
    BY LaneIsPriority
  <2>2. /\ control[p] # <<>> /\ control' = [control EXCEPT ![p] = Tail(@)]
        /\ \/ UNCHANGED <<wpc, picked>>
           \/ wpc' = "send" /\ picked' = [gen |-> Head(control[p]), priority |-> p]
        /\ UNCHANGED <<generation, sending, conn, reading, burst, draining, normalUp, waited>>
    BY <1>4, <2>1 DEF TryControl, vars
  <2>3. picked' \in Message
    BY <1>0, <1>2, <2>2 DEF Message
  <2> QED BY <1>0, <1>2, <2>2, <2>3
<1>5. CASE TryOutput
  <2>1. PICK p \in Priorities : p = Lane(wpc)
    BY LaneIsPriority
  <2>2. /\ Dequeue(p)
        /\ picked' = [gen |-> Head(queue[outputQueues[Front(p)]].items).gen, priority |-> p]
        /\ wpc' = "send"
        /\ UNCHANGED <<control, sending, conn, reading, burst, draining, normalUp, waited>>
    BY <1>5, <2>1 DEF TryOutput
  <2>3. /\ StreamOf(Front(p)) \in Seq(Item) /\ StreamOf(Front(p)) # <<>>
        /\ StreamOf(Front(p)) = queue[outputQueues[Front(p)]].items /\ UNCHANGED generation
    BY <2>2, DequeueStreams, StreamsTyped DEF WInv
  <2>4. Head(queue[outputQueues[Front(p)]].items).gen \in Nat
    <3>1. \A x \in Seq(Item) : x # <<>> => Head(x) \in Item
      OBVIOUS
    <3> QED BY <2>3, <3>1 DEF Item
  <2> QED BY <1>0, <2>2, <2>3, <2>4 DEF Message
<1>6. CASE TryNothing
  <2>1. wpc' \in DOMAIN NextTry \cup {"select"}
    BY <1>6 DEF TryNothing, NextTry, ControlTries, OutputTries
  <2> QED BY <1>0, <1>6, <2>1 DEF TryNothing, vars
<1>7. ASSUME NEW p \in Priorities, SelectControl(p) PROVE TypedWriter'
  <2>1. CASE Stale(Head(control[p]))
    BY <1>0, <1>2, <1>3, <1>7, <2>1 DEF SelectControl, vars
  <2>2. CASE ~Stale(Head(control[p]))
    <3>1. picked' = [gen |-> Head(control[p]), priority |-> p] /\ wpc' = "send"
      BY <1>7, <2>2 DEF SelectControl
    <3> QED BY <1>0, <1>2, <1>7, <2>2, <3>1 DEF SelectControl, vars, Message
  <2> QED BY <2>1, <2>2
<1>8. CASE SelectReady
  BY <1>0, <1>3, <1>8 DEF SelectReady, TakeReady
<1>9. CASE SelectDone \/ SendFails \/ Dial \/ LoseConnection
  BY <1>0, <1>1, <1>9 DEF SelectDone, SendFails, Dial, LoseConnection, vars
<1>10. CASE Send
  <2>1. PICK b \in 0 .. BurstLimit : PickAgain(b)
    <3>1. /\ (IF burst < BurstLimit THEN burst + 1 ELSE burst) \in 0 .. BurstLimit
          /\ 0 \in 0 .. BurstLimit
      BY <1>0
    <3> QED BY <1>10, <3>1 DEF Send
  <2>2. waited' \in Nat
    BY <1>0, <1>10 DEF Send
  <2> QED BY <1>0, <1>3, <1>10, <2>1, <2>2 DEF Send, vars
<1>11. ASSUME NEW g \in Senders, NEW p \in Priorities, Offer(g, p) PROVE TypedWriter'
  BY <1>0, <1>11 DEF Offer, vars, Message
<1>12. ASSUME NEW g \in Senders, Deliver(g) PROVE TypedWriter'
  <2>1. PICK p \in Priorities : p = sending[g].priority /\ sending[g].gen \in Nat
    BY <1>0 DEF Message
  <2>2. Append(control[p], sending[g].gen) \in Seq(Nat)
        /\ Len(Append(control[p], sending[g].gen)) <= ControlCapacity
    BY <1>0, <1>12, <2>1 DEF Deliver
  <2> QED BY <1>0, <1>1, <1>12, <2>1, <2>2 DEF Deliver, vars
<1>13. ASSUME NEW g \in Senders, Abandon(g) PROVE TypedWriter'
  BY <1>0, <1>1, <1>13 DEF Abandon, vars
<1>14. CASE Connect
  BY <1>0, <1>3, <1>14 DEF Connect, vars
<1>15. ASSUME NEW t \in Resetters, RunResets \/ StopResets(t) PROVE TypedWriter'
  <2>1. generation' = generation + 1
    BY <1>15 DEF RunResets, StopResets, BumpGeneration
  <2>2. conn' \in {0, conn} /\ wpc' \in {wpc, "off"} /\ normalUp' = FALSE /\ waited' = 0
        /\ UNCHANGED <<control, sending, reading, burst, picked, draining>>
    BY <1>15 DEF RunResets, StopResets
  <2>3. conn' \in 0 .. generation'
    BY <1>0, <2>1, <2>2
  <2> QED BY <1>0, <2>2, <2>3
<1>16. ASSUME NEW t \in Resetters, SwapQueues(t) PROVE TypedWriter'
  BY <1>0, <1>16 DEF SwapQueues, ClearQueues, Priorities
<1>17. ASSUME NEW t \in Resetters, Drain(t) PROVE TypedWriter'
  <2>1. CASE draining[t] \in Priorities /\ control[draining[t]] # <<>>
    BY <1>0, <1>2, <1>17, <2>1 DEF Drain, vars
  <2>2. CASE draining[t] \in Priorities /\ control[draining[t]] = <<>>
    BY <1>0, <1>17, <2>2 DEF Drain, vars, Priorities
  <2> QED BY <1>0, <1>17, <2>1, <2>2 DEF Drain
<1>18. CASE QueuesOnly
  <2>1. UNCHANGED generation
    BY <1>18 DEF QueuesOnly, Begin, Enter, Resume, TryAppend, Notify, MarkComplete,
                 CancelContext, vars
  <2> QED BY <1>0, <1>18, <2>1 DEF QueuesOnly, writerVars
<1> QED BY StepCases, WriterAssumption, <1>4, <1>5, <1>6, <1>7, <1>8, <1>9, <1>10, <1>11, <1>12,
           <1>13, <1>14, <1>15, <1>16, <1>17, <1>18
-----------------------------------------------------------------------------
(* Messages of the connection.                                             *)

\* The generation moves on in a reset, and the connection in messageLoop.
LEMMA ClockMoves ==
  ASSUME WInv, [NextWriter]_tunnelVars
  PROVE  \/ UNCHANGED <<generation, conn>>
         \/ conn' = generation /\ generation' = generation
         \/ generation' = generation + 1
<1>1. CASE TryOutput
  BY <1>1, LaneIsPriority DEF TryOutput, Dequeue
<1>2. CASE Connect
  BY <1>2 DEF Connect, vars
<1>3. CASE RunResets \/ \E t \in Resetters : StopResets(t)
  BY <1>3 DEF RunResets, StopResets, BumpGeneration
<1>4. ASSUME NEW t \in Resetters, SwapQueues(t) PROVE UNCHANGED <<generation, conn>>
  BY <1>4 DEF SwapQueues, ClearQueues
<1>5. CASE QueuesOnly
  BY <1>5 DEF QueuesOnly, writerVars, Begin, Enter, Resume, TryAppend, Notify, MarkComplete,
              CancelContext, vars
<1> QED BY StepCases, <1>1, <1>2, <1>3, <1>4, <1>5
        DEF TryControl, TryNothing, SelectControl, SelectReady, TakeReady, SelectDone, Send,
            SendFails, Offer, Deliver, Abandon, Dial, LoseConnection, Drain, vars

\* Of the past once, of the past for ever.
LEMMA PastStable ==
  ASSUME WInv, [NextWriter]_tunnelVars, NEW g, Past(g)
  PROVE  g \in Nat /\ g <= generation' /\ (g = generation' => conn' = generation')
<1>1. generation \in Nat /\ conn \in Nat
  BY DEF WInv, IInv, Typed, TypeOK, TypedWriter
<1> QED BY <1>1, ClockMoves DEF Past

LEMMA ControlKept ==
  ASSUME WInv, [NextWriter]_tunnelVars,
         NEW p \in Priorities, NEW i \in DOMAIN control'[p]
  PROVE  \/ \E j \in DOMAIN control[p] : control'[p][i] = control[p][j]
         \/ \E g \in Senders : control'[p][i] = sending[g].gen
<1>0. control \in [Priorities -> Seq(Nat)] /\ sending \in [Senders -> Message]
  BY DEF WInv, TypedWriter
<1>1. ASSUME NEW x \in Priorities, control[x] # <<>>, control' = [control EXCEPT ![x] = Tail(@)]
      PROVE  \E j \in DOMAIN control[p] : control'[p][i] = control[p][j]
  <2>1. CASE p = x
    <3> PICK c \in Seq(Nat) : c = control[p]
      BY <1>0
    <3>1. control'[p] = Tail(c) /\ c # <<>>
      BY <1>0, <1>1, <2>1
    <3>2. i + 1 \in DOMAIN c /\ Tail(c)[i] = c[i + 1]
      BY <3>1
    <3> QED BY <3>1, <3>2
  <2>2. CASE p # x
    BY <1>0, <1>1, <2>2
  <2> QED BY <2>1, <2>2
<1>2. ASSUME NEW g \in Senders, Deliver(g)
      PROVE  \/ \E j \in DOMAIN control[p] : control'[p][i] = control[p][j]
             \/ control'[p][i] = sending[g].gen
  <2>1. sending[g].priority \in Priorities
    BY <1>0 DEF Message
  <2>2. CASE p = sending[g].priority
    BY <1>0, <1>2, <2>2 DEF Deliver, Message
  <2>3. CASE p # sending[g].priority
    BY <1>0, <1>2, <2>1, <2>3 DEF Deliver
  <2> QED BY <2>2, <2>3
<1>3. CASE TryControl
  BY <1>1, <1>3, LaneIsPriority DEF TryControl
<1>4. ASSUME NEW x \in Priorities, SelectControl(x)
      PROVE  \E j \in DOMAIN control[p] : control'[p][i] = control[p][j]
  BY <1>1, <1>4 DEF SelectControl
<1>5. ASSUME NEW t \in Resetters, Drain(t)
      PROVE  \E j \in DOMAIN control[p] : control'[p][i] = control[p][j]
  <2>1. draining[t] \in Priorities
    BY <1>5 DEF WInv, TypedWriter, Drain
  <2> QED BY <1>1, <1>5, <2>1 DEF Drain
<1>6. CASE UNCHANGED control
  BY <1>6
<1> QED BY StepCases, <1>1, <1>2, <1>3, <1>4, <1>5, <1>6
        DEF TryOutput, TryNothing, SelectReady, SelectDone, Send, SendFails, Offer, Abandon,
            Dial, Connect, LoseConnection, RunResets, StopResets, SwapQueues, QueuesOnly, writerVars

LEMMA SendingKept ==
  ASSUME WInv, [NextWriter]_tunnelVars, NEW g \in Senders
  PROVE  sending'[g].gen = 0 \/ Past(sending'[g].gen)
<1>0. sending \in [Senders -> Message] /\ Past(sending[g].gen)
      /\ (Past(generation) <=> conn = generation)
  BY DEF WInv, TypedWriter, Own, Past, IInv, Typed, TypeOK
<1>1. ASSUME NEW h \in Senders, NEW p \in Priorities, Offer(h, p)
      PROVE  Past(sending'[g].gen)
  BY <1>0, <1>1 DEF Offer
<1>2. ASSUME NEW h \in Senders, Deliver(h) \/ Abandon(h)
      PROVE  sending'[g].gen = 0 \/ Past(sending'[g].gen)
  BY <1>0, <1>2 DEF Deliver, Abandon, NoMessage
<1>3. CASE UNCHANGED sending
  BY <1>0, <1>3
<1> QED BY StepCases, <1>1, <1>2, <1>3
        DEF TryControl, TryOutput, TryNothing, SelectControl, SelectReady, SelectDone, Send,
            SendFails, Dial, Connect, LoseConnection, RunResets, StopResets, SwapQueues, Drain,
            QueuesOnly, writerVars

LEMMA CallsKept ==
  ASSUME WInv, [NextWriter]_tunnelVars, NEW w \in Writers,
         pc'[w] \in {"enter", "waiting", "woken"}
  PROVE  Past(call'[w].gen)
<1>0. /\ pc \in [Writers -> {"idle", "enter", "waiting", "woken", "notify"}]
      /\ call \in [Writers -> Call \cup {NoCall}] /\ generation \in Nat
      /\ pc[w] \in {"enter", "waiting", "woken"} => Past(call[w].gen)
  BY DEF WInv, IInv, Typed, TypeOK, Own
<1>1. ASSUME UNCHANGED <<pc, call>> PROVE Past(call'[w].gen)
  BY <1>0, <1>1
<1>2. CASE TryOutput
  <2>1. PICK p \in Priorities : Dequeue(p)
    BY <1>2, LaneIsPriority DEF TryOutput
  <2>2. UNCHANGED call /\ (pc'[w] = pc[w] \/ pc[w] = "waiting")
    BY <2>1, DequeueStreams DEF WInv
  <2> QED BY <1>0, <2>2
<1>3. ASSUME NEW t \in Resetters, SwapQueues(t) PROVE Past(call'[w].gen)
  BY <1>0, <1>3 DEF SwapQueues, ClearQueues, Broadcast
<1>4. CASE QueuesOnly
  <2>1. ASSUME NEW v \in Writers, NEW k \in Keys, NEW m \in Messages, NEW s \in Sizes,
               conn = generation, Begin(v, k, PriorityOf[k], m, s)
        PROVE  Past(call'[w].gen)
    <3>1. v = w => call'[w].gen = generation
      BY <1>0, <2>1 DEF Begin
    <3>2. v # w => call'[w] = call[w] /\ pc'[w] = pc[w]
      BY <1>0, <2>1 DEF Begin
    <3> QED BY <1>0, <2>1, <3>1, <3>2 DEF Past
  <2>2. ASSUME NEW v \in Writers, NEW q \in Queues, Enter(v, q) \/ Resume(v, q)
        PROVE  Past(call'[w].gen)
    <3>1. pc[v] \in {"enter", "woken"} /\ (Appends(v) \/ Waits(v) \/ Leaves(v))
      BY <2>2, WriterStreams DEF WInv
    <3>2. v # w => call'[w] = call[w] /\ pc'[w] = pc[w]
      BY <1>0, <3>1 DEF Appends, Waits, Leaves
    <3>3. v = w => call'[w] = call[w]
      BY <1>0, <3>1 DEF Appends, Waits, Leaves
    <3> QED BY <1>0, <3>1, <3>2, <3>3
  <2>3. ASSUME NEW v \in Writers, Notify(v) PROVE Past(call'[w].gen)
    BY <1>0, <2>3 DEF Notify
  <2> QED BY <1>1, <1>4, <2>1, <2>2, <2>3 DEF QueuesOnly, MarkComplete, CancelContext, vars
<1> QED BY StepCases, <1>1, <1>2, <1>3, <1>4
        DEF TryControl, TryNothing, SelectControl, SelectReady, TakeReady, SelectDone, Send,
            SendFails, Offer, Deliver, Abandon, Dial, Connect, LoseConnection, RunResets,
            StopResets, BumpGeneration, Drain, vars

\* What the streams hold is of the connection, and there is none without one.
OwnOutput ==
  /\ \A k \in Keys : \A i \in DOMAIN StreamOf(k) : conn # 0 => StreamOf(k)[i].gen = conn
  /\ conn = 0 /\ Run \notin clearing => \A k \in Keys : StreamOf(k) = <<>>

LEMMA OwnOutputFrame ==
  ASSUME OwnOutput, StreamsStay, UNCHANGED <<conn, clearing>>
  PROVE  OwnOutput'
BY DEF OwnOutput, StreamsStay

LEMMA OutputKept ==
  ASSUME WInv, [NextWriter]_tunnelVars
  PROVE  OwnOutput'
<1>0. /\ OwnOutput /\ IInv /\ \A k \in Keys : StreamOf(k) \in Seq(Item)
      /\ generation \in Nat \ {0} /\ (conn = 0 <=> wpc \in {"off", "dialing"})
      /\ wpc = "dialing" => Run \notin clearing
  BY StreamsTyped DEF WInv, Own, OwnOutput, IInv, Typed, TypeOK
<1>1. CASE TryOutput
  <2>1. PICK p \in Priorities : Dequeue(p)
    BY <1>1, LaneIsPriority DEF TryOutput
  <2>2. /\ UNCHANGED <<conn, clearing>> /\ StreamOf(Front(p)) # <<>>
        /\ \A k \in Keys : StreamOf(k)' = IF k = Front(p) THEN Tail(StreamOf(k)) ELSE StreamOf(k)
    BY <1>0, <1>1, <2>1, DequeueStreams DEF TryOutput
  <2>3. ASSUME NEW k \in Keys, NEW i \in DOMAIN StreamOf(k)', conn # 0
        PROVE  StreamOf(k)'[i].gen = conn
    <3>1. PICK s \in Seq(Item) : s = StreamOf(k)
      BY <1>0
    <3>2. StreamOf(k)' = s \/ (s # <<>> /\ StreamOf(k)' = Tail(s))
      BY <2>2, <3>1
    <3>3. \E j \in DOMAIN s : StreamOf(k)'[i] = s[j]
      <4>1. \A j \in DOMAIN Tail(s) : s # <<>> => j + 1 \in DOMAIN s /\ Tail(s)[j] = s[j + 1]
        OBVIOUS
      <4> QED BY <2>3, <3>2, <4>1
    <3> QED BY <1>0, <2>3, <3>1, <3>3 DEF OwnOutput
  <2>4. \A k \in Keys : StreamOf(k) = <<>> => StreamOf(k)' = <<>>
    BY <2>2
  <2> QED BY <1>0, <2>2, <2>3, <2>4 DEF OwnOutput
<1>2. CASE Connect
  <2>1. \A k \in Keys : StreamOf(k) = <<>>
    BY <1>0, <1>2 DEF Connect, OwnOutput
  <2>2. \A k \in Keys : StreamOf(k)' = <<>>
    BY <1>2, <2>1, StreamsFrame DEF Connect, vars, StreamsStay
  <2> QED BY <2>2 DEF OwnOutput
<1>3. CASE RunResets
  BY <1>3 DEF RunResets, BumpGeneration, OwnOutput
<1>4. ASSUME NEW t \in Resetters, StopResets(t) PROVE OwnOutput'
  <2>1. StreamsStay /\ conn' = conn /\ clearing \subseteq clearing'
    BY <1>4, StreamsFrame DEF StopResets, BumpGeneration
  <2> QED BY <1>0, <2>1 DEF OwnOutput, StreamsStay
<1>5. ASSUME NEW t \in Resetters, SwapQueues(t) PROVE OwnOutput'
  <2>1. \A k \in Keys : StreamOf(k)' = <<>>
    BY <1>5, ClearQueuesStreams DEF SwapQueues
  <2> QED BY <2>1 DEF OwnOutput
<1>6. CASE UNCHANGED <<queue, outputQueues, conn, clearing>>
  BY <1>0, <1>6, StreamsFrame, OwnOutputFrame
<1>7. CASE QueuesOnly
  <2>1. UNCHANGED conn
    BY <1>7 DEF QueuesOnly, writerVars
  <2>2. ASSUME NEW w \in Writers, NEW q \in Queues, Enter(w, q) \/ Resume(w, q) PROVE OwnOutput'
    <3>1. UNCHANGED clearing /\ (Appends(w) \/ Waits(w) \/ Leaves(w))
          /\ pc[w] \in {"enter", "woken"} /\ call[w] \in Call
      BY <1>0, <2>2, WriterStreams
    <3>2. CASE Appends(w)
      <4>1. /\ ItemOf(call[w]).gen = generation
            /\ \A k \in Keys : StreamOf(k)' = IF k = call[w].key
                 THEN Append(StreamOf(k), ItemOf(call[w])) ELSE StreamOf(k)
        BY <3>1, <3>2 DEF Appends, ItemOf, Call
      <4>2. conn = generation
        BY <3>1, <3>2 DEF Appends, WInv, Own, Past
      <4>3. ASSUME NEW k \in Keys, NEW i \in DOMAIN StreamOf(k)'
            PROVE  StreamOf(k)'[i].gen = conn
        <5>1. PICK s \in Seq(Item) : s = StreamOf(k)
          BY <1>0
        <5>2. PICK it : it = ItemOf(call[w])
          OBVIOUS
        <5>3. StreamOf(k)' = s \/ StreamOf(k)' = Append(s, it)
          BY <4>1, <5>1, <5>2
        <5>4. \A j \in DOMAIN Append(s, it) :
                 (j \in DOMAIN s /\ Append(s, it)[j] = s[j]) \/ Append(s, it)[j] = it
          OBVIOUS
        <5>5. (\E j \in DOMAIN s : StreamOf(k)'[i] = s[j]) \/ StreamOf(k)'[i] = it
          BY <4>3, <5>3, <5>4
        <5> QED BY <1>0, <4>1, <4>2, <5>1, <5>2, <5>5 DEF OwnOutput
      <4> QED BY <1>0, <2>1, <4>2, <4>3 DEF OwnOutput
    <3>3. CASE Waits(w) \/ Leaves(w)
      BY <1>0, <2>1, <3>1, <3>3, OwnOutputFrame DEF Waits, Leaves
    <3> QED BY <3>1, <3>2, <3>3
  <2>3. ASSUME NEW k \in Keys, MarkComplete(k) PROVE OwnOutput'
    BY <1>0, <2>1, <2>3, MarkCompleteStreams, OwnOutputFrame DEF MarkComplete
  <2> QED BY <1>6, <1>7, <2>1, <2>2, <2>3 DEF QueuesOnly, Begin, Notify, CancelContext, vars
<1> QED BY StepCases, <1>1, <1>2, <1>3, <1>4, <1>5, <1>6, <1>7
        DEF TryControl, TryNothing, SelectControl, SelectReady, TakeReady, SelectDone, Send,
            SendFails, Offer, Deliver, Abandon, Dial, LoseConnection, Drain, vars

\* Where the writer is tells whether there is a connection, and what it is
\* about to send is of it.
OwnPlace ==
  /\ conn = 0 <=> wpc \in {"off", "dialing"}
  /\ wpc = "dialing" => Run \notin clearing
  /\ OwnMessagesOnly

LEMMA PlaceKept ==
  ASSUME WInv, [NextWriter]_tunnelVars
  PROVE  OwnPlace'
<1>0. /\ OwnPlace /\ generation \in Nat \ {0} /\ conn \in Nat
      /\ \A p \in Priorities : control[p] \in Seq(Nat)
      /\ wpc \in DOMAIN NextTry \cup {"off", "dialing", "select", "send", "done"}
  BY DEF WInv, Own, OwnPlace, IInv, Typed, TypeOK, TypedWriter
<1>1. \A b \in Nat : FirstTry(b) \notin {"off", "dialing", "send"}
  BY DEF FirstTry
<1>2. ASSUME NEW p \in Priorities, control[p] # <<>>, ~Stale(Head(control[p]))
      PROVE  Head(control[p]) = conn
  <2>1. Head(control[p]) = control[p][1] /\ 1 \in DOMAIN control[p]
    BY <1>0, <1>2
  <2> QED BY <1>2, <2>1 DEF Stale, WInv, Own, Past
<1>3. CASE TryControl
  BY <1>0, <1>2, <1>3, LaneIsPriority DEF TryControl, ControlTries, vars, OwnPlace, OwnMessagesOnly
<1>4. CASE TryOutput
  <2>1. PICK p \in Priorities : p = Lane(wpc)
    BY LaneIsPriority
  <2>2. /\ Dequeue(p)
        /\ picked'.gen = Head(queue[outputQueues[Front(p)]].items).gen
        /\ wpc \in OutputTries /\ wpc' = "send" /\ conn' = conn
    BY <1>4, <2>1 DEF TryOutput
  <2>3. PICK k \in Keys : k = Front(p) /\ StreamOf(k) # <<>> /\ StreamOf(k) \in Seq(Item)
                          /\ StreamOf(k) = queue[outputQueues[k]].items
    BY <2>2, DequeueStreams, StreamsTyped DEF WInv
  <2>4. Head(StreamOf(k)) = StreamOf(k)[1] /\ 1 \in DOMAIN StreamOf(k)
    BY <2>3
  <2>5. conn # 0
    BY <1>0, <2>2 DEF OwnPlace, OutputTries
  <2>6. picked'.gen = conn
    BY <2>2, <2>3, <2>4, <2>5 DEF WInv, Own
  <2> QED BY <2>2, <2>5, <2>6 DEF OwnPlace, OwnMessagesOnly
<1>5. CASE TryNothing
  BY <1>0, <1>5 DEF TryNothing, NextTry, ControlTries, OutputTries, vars, OwnPlace, OwnMessagesOnly
<1>6. ASSUME NEW p \in Priorities, SelectControl(p) PROVE OwnPlace'
  <2>1. CASE Stale(Head(control[p]))
    BY <1>0, <1>1, <1>6, <2>1 DEF SelectControl, PickAgain, vars, OwnPlace, OwnMessagesOnly,
                                   WInv, TypedWriter
  <2>2. CASE ~Stale(Head(control[p]))
    BY <1>0, <1>2, <1>6, <2>2 DEF SelectControl, vars, OwnPlace, OwnMessagesOnly
  <2> QED BY <2>1, <2>2
<1>7. CASE SelectReady
  BY <1>0, <1>1, <1>7 DEF SelectReady, TakeReady, PickAgain, OwnPlace, OwnMessagesOnly, WInv,
                            TypedWriter
<1>8. CASE SelectDone \/ SendFails \/ LoseConnection
  BY <1>0, <1>8 DEF SelectDone, SendFails, LoseConnection, vars, OwnPlace, OwnMessagesOnly
<1>9. CASE Send
  <2>1. \E b \in Nat : wpc' = FirstTry(b)
    BY <1>9, WriterAssumption DEF Send, PickAgain, WInv, TypedWriter
  <2> QED BY <1>0, <1>1, <1>9, <2>1 DEF Send, vars, OwnPlace, OwnMessagesOnly
<1>10. CASE Dial
  BY <1>0, <1>10 DEF Dial, vars, OwnPlace, OwnMessagesOnly
<1>11. CASE Connect
  BY <1>0, <1>1, <1>11 DEF Connect, PickAgain, vars, OwnPlace, OwnMessagesOnly
<1>12. CASE RunResets
  BY <1>12 DEF RunResets, OwnPlace, OwnMessagesOnly
<1>13. ASSUME NEW t \in Resetters, StopResets(t) PROVE OwnPlace'
  BY <1>0, <1>13 DEF StopResets, BumpGeneration, OwnPlace, OwnMessagesOnly
<1>14. ASSUME NEW t \in Resetters, SwapQueues(t) PROVE OwnPlace'
  BY <1>0, <1>14 DEF SwapQueues, ClearQueues, OwnPlace, OwnMessagesOnly
<1>15. CASE UNCHANGED <<conn, wpc, picked, clearing>>
  BY <1>0, <1>15 DEF OwnPlace, OwnMessagesOnly
<1>16. CASE QueuesOnly
  BY <1>15, <1>16 DEF QueuesOnly, writerVars, Begin, Enter, Resume, TryAppend, Notify,
                      MarkComplete, CancelContext, vars
<1> QED BY StepCases, <1>3, <1>4, <1>5, <1>6, <1>7, <1>8, <1>9, <1>10, <1>11, <1>12, <1>13,
           <1>14, <1>15, <1>16
        DEF Offer, Deliver, Abandon, Drain, vars

LEMMA OwnKept ==
  ASSUME WInv, [NextWriter]_tunnelVars
  PROVE  Own'
<1>1. ASSUME NEW p \in Priorities, NEW i \in DOMAIN control'[p]
      PROVE  Past(control[p][i])'
  <2>1. PICK g : g = control'[p][i] /\ Past(g)
    BY ControlKept DEF WInv, Own
  <2> QED BY <2>1, PastStable DEF Past
<1>2. ASSUME NEW h \in Senders PROVE Past(sending[h].gen)'
  <2>1. PICK g : g = sending'[h].gen /\ (g = 0 \/ Past(g))
    BY SendingKept
  <2>2. generation' \in Nat \ {0}
    BY ClockMoves DEF WInv, IInv, Typed, TypeOK
  <2> QED BY <2>1, <2>2, PastStable DEF Past
<1>3. ASSUME NEW w \in Writers, pc'[w] \in {"enter", "waiting", "woken"}
      PROVE  Past(call[w].gen)'
  <2>1. PICK g : g = call'[w].gen /\ Past(g)
    BY <1>3, CallsKept
  <2> QED BY <2>1, PastStable DEF Past
<1> QED BY <1>1, <1>2, <1>3, OutputKept, PlaceKept DEF Own, OwnOutput, OwnPlace
-----------------------------------------------------------------------------
(* Bursts.                                                                 *)

\* A normal message goes on waiting while the generation lasts, no reset empties
\* the queues and the writer takes no normal message.
LEMMA NormalStays ==
  ASSUME NormalWaiting, UNCHANGED generation,
         activeOutputs["normal"] # <<>> => activeOutputs'["normal"] # <<>>,
         \A i \in DOMAIN control["normal"] : control["normal"][i] = generation =>
           \E j \in DOMAIN control'["normal"] : control'["normal"][j] = generation
  PROVE  NormalWaiting'
BY DEF NormalWaiting

\* What a sender adds, and what the writer drops as stale, leaves it waiting.
LEMMA ControlStays ==
  ASSUME TypedWriter,
         \/ UNCHANGED control
         \/ \E g \in Senders : Deliver(g)
         \/ \E p \in Priorities : /\ control[p] # <<>> /\ control' = [control EXCEPT ![p] = Tail(@)]
                                  /\ p = "normal" => Stale(Head(control[p]))
  PROVE  \A i \in DOMAIN control["normal"] : control["normal"][i] = generation =>
           \E j \in DOMAIN control'["normal"] : control'["normal"][j] = generation
<1> DEFINE Kept == \A i \in DOMAIN control["normal"] : control["normal"][i] = generation =>
                     \E j \in DOMAIN control'["normal"] : control'["normal"][j] = generation
<1>0. /\ control \in [Priorities -> Seq(Nat)] /\ sending \in [Senders -> Message]
      /\ "normal" \in Priorities
  BY DEF TypedWriter, Priorities
<1> PICK c \in Seq(Nat) : c = control["normal"]
  BY <1>0
<1>1. ASSUME NEW g \in Senders, Deliver(g) PROVE Kept
  <2>1. \/ control'["normal"] = c
        \/ control'["normal"] = Append(c, sending[g].gen)
    BY <1>0, <1>1 DEF Deliver, Message
  <2>2. \A x : \A i \in DOMAIN c : i \in DOMAIN Append(c, x) /\ Append(c, x)[i] = c[i]
    OBVIOUS
  <2>3. \A i \in DOMAIN c : i \in DOMAIN control'["normal"] /\ control'["normal"][i] = c[i]
    BY <2>1, <2>2
  <2> QED BY <2>3
<1>2. ASSUME NEW p \in Priorities, control[p] # <<>>, control' = [control EXCEPT ![p] = Tail(@)],
             p = "normal" => Stale(Head(control[p]))
      PROVE  Kept
  <2>1. CASE p = "normal"
    <3>1. control'["normal"] = Tail(c) /\ c # <<>> /\ c[1] # generation
      BY <1>0, <1>2, <2>1 DEF Stale
    <3>2. \A i \in DOMAIN c : i # 1 => i - 1 \in DOMAIN Tail(c) /\ Tail(c)[i - 1] = c[i]
      BY <3>1
    <3>3. \A i \in DOMAIN c : i # 1 =>
             i - 1 \in DOMAIN control'["normal"] /\ control'["normal"][i - 1] = c[i]
      BY <3>1, <3>2
    <3> QED BY <3>1, <3>3
  <2>2. CASE p # "normal"
    BY <1>0, <1>2, <2>2
  <2> QED BY <2>1, <2>2
<1>3. CASE UNCHANGED control
  BY <1>3
<1> QED BY <1>1, <1>2, <1>3

\* A step that does not move the writer leaves the burst as it was.
LEMMA BurstFrame ==
  ASSUME Burst, UNCHANGED <<wpc, burst, waited, normalUp, picked>>,
         normalUp => /\ NormalWaiting => NormalWaiting'
                     /\ activeOutputs["normal"] # <<>> => activeOutputs'["normal"] # <<>>
  PROVE  Burst'
BY DEF Burst

\* The writer begins a pick with what it has counted.
LEMMA BurstBegins ==
  ASSUME NEW b \in 0 .. BurstLimit, PickAgain(b), waited' \in Nat, waited' <= b,
         NormalWaiting => NormalWaiting'
  PROVE  Burst'
<1>1. BurstLimit \in Nat \ {0} /\ b \in Nat /\ b <= BurstLimit
  BY WriterAssumption
<1>2. wpc' \in {"burstControl", "priorityControl"} /\ (b = BurstLimit => wpc' = "burstControl")
  BY <1>1 DEF PickAgain, FirstTry
<1>3. burst' = b /\ (normalUp' <=> NormalWaiting)
  BY DEF PickAgain, NormalWaiting
<1> QED BY <1>1, <1>2, <1>3 DEF Burst

LEMMA BurstKept ==
  ASSUME WInv, [NextWriter]_tunnelVars
  PROVE  Burst'
<1>0. /\ Burst /\ TypedWriter /\ IInv /\ BurstLimit \in Nat \ {0}
      /\ burst \in 0 .. BurstLimit /\ waited \in Nat /\ "normal" \in Priorities
  BY WriterAssumption DEF WInv, TypedWriter, Priorities
<1>1. CASE TryControl
  <2>1. PICK p \in Priorities : p = Lane(wpc)
    BY LaneIsPriority
  <2>2. /\ control[p] # <<>> /\ control' = [control EXCEPT ![p] = Tail(@)]
        /\ UNCHANGED <<generation, activeOutputs, burst, waited, normalUp>>
        /\ wpc \in ControlTries
    BY <1>1, <2>1 DEF TryControl, vars
  <2>3. CASE Stale(Head(control[p]))
    <3>1. NormalWaiting => NormalWaiting'
      BY <1>0, <2>2, <2>3, ControlStays, NormalStays
    <3> QED BY <1>0, <1>1, <2>1, <2>2, <2>3, <3>1, BurstFrame DEF TryControl
  <2>4. CASE ~Stale(Head(control[p]))
    <3>1. wpc' = "send" /\ picked'.priority = p
      BY <1>1, <2>1, <2>4 DEF TryControl
    <3>2. normalUp /\ burst = BurstLimit => p = "normal"
      BY <1>0, <2>1, <2>2 DEF Burst, ControlTries, Lane
    <3> QED BY <1>0, <2>2, <3>1, <3>2 DEF Burst
  <2> QED BY <2>3, <2>4
<1>2. CASE TryOutput
  <2>1. /\ wpc \in OutputTries /\ wpc' = "send" /\ picked'.priority = Lane(wpc)
        /\ UNCHANGED <<burst, waited, normalUp>>
    BY <1>2 DEF TryOutput
  <2>2. normalUp /\ burst = BurstLimit => Lane(wpc) = "normal"
    BY <1>0, <2>1 DEF Burst, OutputTries, Lane
  <2> QED BY <1>0, <2>1, <2>2 DEF Burst
<1>3. CASE TryNothing
  <2>1. /\ UNCHANGED <<generation, activeOutputs, control, burst, waited, normalUp, picked>>
        /\ wpc' = NextTry[wpc] /\ wpc \in ControlTries \cup OutputTries
        /\ wpc = "burstControl" => control["normal"] = <<>>
        /\ wpc = "burstOutput" => activeOutputs["normal"] = <<>>
    BY <1>3 DEF TryNothing, vars, ControlTries, OutputTries, Lane
  <2>2. wpc = "burstControl" /\ normalUp => activeOutputs["normal"] # <<>>
    <3>1. DOMAIN <<>> = {}
      OBVIOUS
    <3> QED BY <1>0, <2>1, <3>1 DEF Burst, NormalWaiting
  <2>3. /\ wpc = "burstControl" => wpc' = "burstOutput"
        /\ wpc # "burstControl" => wpc' \notin {"burstControl", "burstOutput", "off", "dialing"}
        /\ wpc \notin {"send", "done"}
    BY <2>1 DEF NextTry, ControlTries, OutputTries
  <2>4. normalUp => wpc # "burstOutput"
    BY <1>0, <2>1 DEF Burst
  <2> QED BY <1>0, <2>1, <2>2, <2>3, <2>4 DEF Burst
<1>4. ASSUME NEW p \in Priorities, SelectControl(p) PROVE Burst'
  <2>1. /\ wpc = "select" /\ UNCHANGED <<generation, activeOutputs, waited>> /\ control[p] # <<>>
        /\ control' = [control EXCEPT ![p] = Tail(@)]
    BY <1>4 DEF SelectControl, vars
  <2>2. CASE Stale(Head(control[p]))
    <3>1. NormalWaiting => NormalWaiting'
      BY <1>0, <2>1, <2>2, ControlStays, NormalStays
    <3>2. PickAgain(burst)
      BY <1>4, <2>2 DEF SelectControl
    <3> QED BY <1>0, <2>1, <3>1, <3>2, BurstBegins DEF Burst
  <2>3. CASE ~Stale(Head(control[p]))
    BY <1>0, <1>4, <2>1, <2>3 DEF SelectControl, Burst
  <2> QED BY <2>2, <2>3
<1>5. CASE SelectReady
  <2>1. PickAgain(burst) /\ UNCHANGED <<generation, activeOutputs, control, waited>>
    BY <1>5 DEF SelectReady, TakeReady
  <2>2. NormalWaiting => NormalWaiting'
    BY <2>1 DEF NormalWaiting
  <2> QED BY <1>0, <2>1, <2>2, BurstBegins DEF Burst
<1>6. CASE SelectDone \/ SendFails \/ Dial
  <2>1. /\ UNCHANGED <<burst, waited, normalUp>>
        /\ wpc' = "done" \/ (wpc = "off" /\ wpc' = "dialing")
    BY <1>6 DEF SelectDone, SendFails, Dial
  <2>2. wpc = "off" => ~(normalUp /\ burst = BurstLimit)
    BY <1>0 DEF Burst
  <2> QED BY <1>0, <2>1, <2>2 DEF Burst
<1>7. CASE Send
  <2>1. UNCHANGED <<generation, activeOutputs, control>> /\ wpc = "send"
    BY <1>7 DEF Send, vars
  <2>2. NormalWaiting => NormalWaiting'
    BY <2>1 DEF NormalWaiting
  <2>3. CASE picked.priority = "priority"
    <3> PICK b \in 0 .. BurstLimit : b = IF burst < BurstLimit THEN burst + 1 ELSE burst
      BY <1>0
    <3>1. PickAgain(b)
      BY <1>7, <2>3 DEF Send
    <3>2. waited' = CASE ~normalUp -> 0
                      [] normalUp /\ waited <= BurstLimit -> waited + 1
                      [] OTHER -> waited
      BY <1>7, <2>3 DEF Send
    <3>3. normalUp => burst < BurstLimit
      BY <1>0, <2>1, <2>3 DEF Burst
    <3>4. waited' \in Nat /\ waited' <= b
      <4>1. waited <= burst /\ burst \in Nat /\ burst <= BurstLimit /\ b \in Nat
        BY <1>0 DEF Burst
      <4>2. CASE normalUp
        <5>1. b = burst + 1 /\ waited <= BurstLimit /\ waited' = waited + 1
          BY <1>0, <3>2, <3>3, <4>1, <4>2
        <5> QED BY <1>0, <4>1, <5>1
      <4>3. CASE ~normalUp
        BY <3>2, <4>1, <4>3
      <4> QED BY <4>2, <4>3
    <3> QED BY <2>2, <3>1, <3>4, BurstBegins
  <2>4. CASE picked.priority # "priority"
    <3>1. PickAgain(0) /\ waited' = 0 /\ 0 \in 0 .. BurstLimit
      BY <1>0, <1>7, <2>4 DEF Send
    <3> QED BY <2>2, <3>1, BurstBegins
  <2> QED BY <2>3, <2>4
<1>8. ASSUME NEW g \in Senders, Deliver(g) PROVE Burst'
  <2>1. UNCHANGED <<generation, activeOutputs, wpc, burst, waited, normalUp, picked>>
    BY <1>8 DEF Deliver, vars
  <2>2. NormalWaiting => NormalWaiting'
    BY <1>0, <1>8, <2>1, ControlStays, NormalStays
  <2> QED BY <1>0, <2>1, <2>2, BurstFrame
<1>9. CASE Connect
  <2>1. /\ PickAgain(0) /\ wpc = "dialing"
        /\ UNCHANGED <<generation, activeOutputs, control, waited>>
        /\ 0 \in 0 .. BurstLimit
    BY <1>0, <1>9 DEF Connect, vars
  <2>2. (NormalWaiting => NormalWaiting') /\ waited' = 0
    BY <1>0, <2>1 DEF NormalWaiting, Burst
  <2> QED BY <2>1, <2>2, BurstBegins
<1>10. ASSUME NEW t \in Resetters, RunResets \/ StopResets(t) \/ SwapQueues(t) \/ Drain(t)
       PROVE  Burst'
  <2>1. /\ normalUp' = FALSE /\ waited' = 0 /\ burst' = burst
        /\ wpc' \in {wpc, "off"}
    BY <1>10 DEF RunResets, StopResets, SwapQueues, Drain
  <2> QED BY <1>0, <2>1 DEF Burst
<1>11. CASE UNCHANGED <<generation, activeOutputs, control, wpc, burst, waited, normalUp, picked>>
  <2>1. NormalWaiting => NormalWaiting'
    BY <1>11 DEF NormalWaiting
  <2> QED BY <1>0, <1>11, <2>1, BurstFrame
<1>12. CASE QueuesOnly
  <2>1. UNCHANGED <<control, wpc, burst, waited, normalUp, picked>>
    BY <1>12 DEF QueuesOnly, writerVars
  <2>2. ASSUME NEW w \in Writers, NEW q \in Queues, Enter(w, q) \/ Resume(w, q) PROVE Burst'
    <3>1. /\ UNCHANGED generation
          /\ activeOutputs["normal"] # <<>> => activeOutputs'["normal"] # <<>>
      BY <1>0, <2>2, WriterStreams DEF Appends, Waits, Leaves
    <3>2. NormalWaiting => NormalWaiting'
      BY <1>0, <2>1, <3>1, ControlStays, NormalStays
    <3> QED BY <1>0, <2>1, <3>1, <3>2, BurstFrame
  <2> QED BY <1>11, <1>12, <2>1, <2>2
          DEF QueuesOnly, Begin, Notify, MarkComplete, CancelContext, vars
<1> QED BY StepCases, WriterAssumption, <1>1, <1>2, <1>3, <1>4, <1>5, <1>6, <1>7, <1>8, <1>9,
           <1>10, <1>11, <1>12
        DEF Offer, Abandon, LoseConnection, vars

-----------------------------------------------------------------------------
(* Sleep.                                                                  *)

LEMMA AwakeFrame ==
  ASSUME Awake, UNCHANGED <<activeOutputs, outputReady>>,
         wpc' = wpc \/ wpc' \notin {"normalControl", "normalOutput", "select"},
         \A w \in Writers : pc[w] = "notify" => pc'[w] = "notify"
  PROVE  Awake'
BY DEF Awake, Announced

LEMMA AwakeKept ==
  ASSUME WInv, [NextWriter]_tunnelVars
  PROVE  Awake'
<1>0. /\ Awake /\ IInv /\ "normal" \in Priorities /\ "priority" \in Priorities
      /\ pc \in [Writers -> {"idle", "enter", "waiting", "woken", "notify"}]
  BY DEF WInv, IInv, Typed, TypeOK, Priorities
<1>1. \A b : FirstTry(b) \notin {"normalControl", "normalOutput", "select"}
  BY DEF FirstTry
<1>2. CASE TryControl
  BY <1>0, <1>2, AwakeFrame DEF TryControl, vars
<1>3. CASE TryOutput
  BY <1>3 DEF TryOutput, Awake
<1>4. CASE TryNothing
  <2>1. /\ UNCHANGED <<activeOutputs, outputReady, pc>> /\ wpc' = NextTry[wpc]
        /\ wpc \in ControlTries \cup OutputTries
        /\ wpc = "priorityOutput" => activeOutputs["priority"] = <<>>
        /\ wpc = "normalOutput" => activeOutputs["normal"] = <<>>
    BY <1>4 DEF TryNothing, vars, ControlTries, OutputTries, Lane
  <2>2. /\ wpc' = "normalControl" => wpc = "priorityOutput"
        /\ wpc' = "normalOutput" => wpc = "normalControl"
        /\ wpc' = "select" => wpc = "normalOutput"
    BY <2>1 DEF NextTry, ControlTries, OutputTries
  <2> QED BY <1>0, <2>1, <2>2 DEF Awake, Announced
<1>5. ASSUME NEW p \in Priorities, SelectControl(p) PROVE Awake'
  BY <1>0, <1>1, <1>5, AwakeFrame DEF SelectControl, PickAgain, vars
<1>6. CASE SelectReady \/ Send \/ Connect
  BY <1>1, <1>6 DEF SelectReady, Send, Connect, PickAgain, Awake
<1>7. CASE SelectDone \/ SendFails \/ Dial \/ LoseConnection
  BY <1>0, <1>7, AwakeFrame DEF SelectDone, SendFails, Dial, LoseConnection, vars
<1>8. ASSUME NEW g \in Senders, (\E p \in Priorities : Offer(g, p)) \/ Deliver(g) \/ Abandon(g)
      PROVE  Awake'
  BY <1>0, <1>8, AwakeFrame DEF Offer, Deliver, Abandon, vars
<1>9. ASSUME NEW t \in Resetters, RunResets \/ StopResets(t) \/ Drain(t) PROVE Awake'
  BY <1>0, <1>9, AwakeFrame DEF RunResets, StopResets, BumpGeneration, Drain, vars
<1>10. ASSUME NEW t \in Resetters, SwapQueues(t) PROVE Awake'
  BY <1>0, <1>10 DEF SwapQueues, ClearQueues, Awake
<1>11. CASE QueuesOnly
  <2>1. UNCHANGED wpc
    BY <1>11 DEF QueuesOnly, writerVars
  <2>2. ASSUME NEW w \in Writers, NEW k \in Keys, NEW m \in Messages, NEW s \in Sizes,
               Begin(w, k, PriorityOf[k], m, s)
        PROVE  Awake'
    BY <1>0, <2>1, <2>2, AwakeFrame DEF Begin
  <2>3. ASSUME NEW w \in Writers, NEW q \in Queues, Enter(w, q) \/ Resume(w, q) PROVE Awake'
    <3>1. /\ pc[w] \in {"enter", "woken"} /\ UNCHANGED outputReady
          /\ Appends(w) \/ Waits(w) \/ Leaves(w)
      BY <1>0, <2>3, WriterStreams
    <3>2. CASE Appends(w)
      <4>1. pc'[w] = "notify"
        BY <1>0, <3>2 DEF Appends
      <4> QED BY <4>1 DEF Awake, Announced
    <3>3. CASE Waits(w) \/ Leaves(w)
      BY <1>0, <2>1, <3>1, <3>3, AwakeFrame DEF Waits, Leaves
    <3> QED BY <3>1, <3>2, <3>3
  <2>4. ASSUME NEW w \in Writers, Notify(w) PROVE Awake'
    BY <2>4 DEF Notify, Awake, Announced
  <2>5. ASSUME NEW k \in Keys, MarkComplete(k) PROVE Awake'
    BY <1>0, <2>1, <2>5, AwakeFrame DEF MarkComplete
  <2>6. CASE CancelContext \/ UNCHANGED vars
    BY <1>0, <2>1, <2>6, AwakeFrame DEF CancelContext, vars
  <2> QED BY <1>11, <2>2, <2>3, <2>4, <2>5, <2>6 DEF QueuesOnly
<1> QED BY StepCases, WriterAssumption, <1>2, <1>3, <1>4, <1>5, <1>6, <1>7, <1>8, <1>9, <1>10, <1>11

-----------------------------------------------------------------------------
(* The theorems.                                                           *)

LEMMA WriterInit == InitWriter => WInv
<1> SUFFICES ASSUME InitWriter PROVE WInv
  OBVIOUS
<1>1. IInv
  BY InitEstablishes DEF InitWriter
<1>2. TypedWriter
  <2>1. generation = 1 /\ ControlCapacity \in Nat \ {0} /\ BurstLimit \in Nat \ {0}
    BY WriterAssumption DEF InitWriter, Init
  <2>2. \A p \in Priorities : control[p] = <<>> /\ Len(control[p]) <= ControlCapacity
    BY <2>1 DEF InitWriter
  <2>3. control \in [Priorities -> Seq(Nat)] /\ NoMessage \in Message
    BY DEF InitWriter, NoMessage, Message, Priorities
  <2>4. conn \in 0 .. generation /\ burst \in 0 .. BurstLimit
    BY <2>1 DEF InitWriter
  <2> QED BY <2>2, <2>3, <2>4 DEF InitWriter, TypedWriter
<1>3. \A k \in Keys : StreamOf(k) = <<>>
  BY DEF InitWriter, Init, StreamOf
<1>4. Own
  BY <1>3 DEF InitWriter, Init, Own, Past, NoMessage, OwnMessagesOnly
<1>5. Burst /\ Awake
  BY WriterAssumption DEF InitWriter, Burst, Awake
<1> QED BY <1>1, <1>2, <1>4, <1>5 DEF WInv

LEMMA WriterStepKeeps == WInv /\ [NextWriter]_tunnelVars => WInv'
<1> SUFFICES ASSUME WInv, [NextWriter]_tunnelVars PROVE WInv'
  OBVIOUS
<1>1. IInv'
  BY StepOfQueues, NextPreserves DEF WInv
<1> QED BY <1>1, TypesKept, OwnKept, BurstKept, AwakeKept DEF WInv

LEMMA WriterInvariance == SpecWriter => []WInv
BY WriterInit, WriterStepKeeps, PTL DEF SpecWriter

\* The tunnel drives its queues as OutputQueues allows: what holds of the queues
\* under any client holds of them here.
THEOREM WriterUsesQueues == SpecWriter => Spec
<1>1. InitWriter => Init
  BY DEF InitWriter
<1>2. [NextWriter]_tunnelVars => [Next]_vars
  BY StepOfQueues
<1> QED BY <1>1, <1>2, PTL DEF SpecWriter, Spec

\* The writer, the senders and the resets keep their types: no control queue
\* outgrows controlQueueSize and no count passes priorityBurstLimit.
THEOREM WriterTypeCorrect == SpecWriter => []TypeOKWriter
<1>1. WInv => TypeOKWriter
  BY DEF WInv, IInv, Typed, TypedWriter, TypeOKWriter
<1> QED BY <1>1, WriterInvariance, PTL

\* The writer never sleeps in its select while a session has output: the token
\* of outputReady is there, or the goroutine that queued it is about to send it.
THEOREM WriterNeverOversleeps == SpecWriter => []NoSleepWithOutput
<1>1. WInv => NoSleepWithOutput
  BY DEF WInv, Awake, Announced, NoSleepWithOutput, Priorities
<1> QED BY <1>1, WriterInvariance, PTL

\* Whatever a connection sends was made under its own generation, whoever wins
\* the races between blocked senders, drainControlQueues and the next connection.
THEOREM ConnectionSendsItsOwn == SpecWriter => []OwnMessagesOnly
<1>1. WInv => OwnMessagesOnly
  BY DEF WInv, Own
<1> QED BY <1>1, WriterInvariance, PTL

\* A waiting normal message is overtaken by priorityBurstLimit priority messages
\* at most.
THEOREM BurstsAreBounded == SpecWriter => []NormalWaitsOneBurst
<1>1. WInv => NormalWaitsOneBurst
  BY WriterAssumption DEF WInv, TypedWriter, Burst, NormalWaitsOneBurst
<1> QED BY <1>1, WriterInvariance, PTL
=============================================================================
