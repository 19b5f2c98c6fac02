---------------------------- MODULE TunnelWriter ----------------------------
(***************************************************************************)
(* The writer goroutine of messageLoop over the output queues and the two  *)
(* control queues (internal/tunnel/websocket.go): how it picks the next    *)
(* message, when it sleeps, and what reaches a connection across resets.   *)
(*                                                                         *)
(* A control message is the generation it carries: that is all the writer  *)
(* looks at.  Senders are the goroutines in enqueueControlForGeneration:   *)
(* the handlers of requests, and the heartbeat.                            *)
(***************************************************************************)
EXTENDS OutputQueues

CONSTANTS
  Senders,         \* goroutines that send control messages
  ControlCapacity, \* controlQueueSize
  BurstLimit,      \* priorityBurstLimit
  Run,             \* the resetter that owns the connection: Run itself
  PriorityOf       \* the priority of each session

ASSUME WriterAssumption ==
  /\ ControlCapacity \in Nat \ {0}
  /\ BurstLimit \in Nat \ {0}
  /\ Run \in Resetters
  /\ PriorityOf \in [Keys -> Priorities]

VARIABLES
  control,  \* priority -> the control queue, a sequence of generations
  sending,  \* the message a sender is blocked with, or NoMessage
  conn,     \* the generation messageLoop read for its connection, 0 for none
  reading,  \* the reader loop of the connection runs
  wpc,      \* where the writer is
  burst,    \* consecutivePriority, which only ever is compared to BurstLimit
  picked,   \* the message the writer is about to write, or NoMessage
  draining, \* where a resetter is in drainControlQueues
  normalUp, \* history: a normal message was waiting when the pick began
  waited    \* history: priority messages sent while a normal one was waiting,
            \* counted up to BurstLimit + 1

writerVars ==
  <<control, sending, conn, reading, wpc, burst, picked, draining, normalUp, waited>>
tunnelVars == <<vars, writerVars>>

Message == [gen : Nat, priority : Priorities]
NoMessage == [gen |-> 0, priority |-> "normal"]

\* The order of tryDequeueNextMessage, which begins with the burst states once
\* the burst is over, and the select that follows it.
NextTry ==
  [burstControl |-> "burstOutput", burstOutput |-> "priorityControl",
   priorityControl |-> "priorityOutput", priorityOutput |-> "normalControl",
   normalControl |-> "normalOutput", normalOutput |-> "select"]

ControlTries == {"burstControl", "priorityControl", "normalControl"}
OutputTries == {"burstOutput", "priorityOutput", "normalOutput"}
Lane(try) == IF try \in {"priorityControl", "priorityOutput"} THEN "priority" ELSE "normal"

TypeOKWriter ==
  /\ TypeOK
  /\ control \in [Priorities -> Seq(Nat)]
  /\ \A p \in Priorities : Len(control[p]) <= ControlCapacity
  /\ sending \in [Senders -> Message]
  /\ conn \in 0 .. generation
  /\ reading \in BOOLEAN
  /\ wpc \in DOMAIN NextTry \cup {"off", "dialing", "select", "send", "done"}
  /\ burst \in 0 .. BurstLimit
  /\ picked \in Message
  /\ draining \in [Resetters -> Priorities \cup {"no"}]
  /\ normalUp \in BOOLEAN
  /\ waited \in Nat

InitWriter ==
  /\ Init
  /\ control = [p \in Priorities |-> <<>>]
  /\ sending = [g \in Senders |-> NoMessage]
  /\ conn = 0
  /\ reading = FALSE
  /\ wpc = "off"
  /\ burst = 0
  /\ picked = NoMessage
  /\ draining = [t \in Resetters |-> "no"]
  /\ normalUp = FALSE
  /\ waited = 0

-----------------------------------------------------------------------------
(* Senders of control messages, and goroutines that stream output.         *)

\* enqueueControlForGeneration for a message of the connection's generation,
\* up to the snapshot, which refuses any other.
Offer(g, p) ==
  /\ sending[g] = NoMessage
  /\ conn = generation
  /\ sending' = [sending EXCEPT ![g] = [gen |-> generation, priority |-> p]]
  /\ UNCHANGED <<vars, control, conn, reading, wpc, burst, picked, draining, normalUp, waited>>

DeliverAnyway(g) ==
  /\ sending[g] # NoMessage
  /\ control' = [control EXCEPT ![sending[g].priority] = Append(@, sending[g].gen)]
  /\ sending' = [sending EXCEPT ![g] = NoMessage]
  /\ UNCHANGED <<vars, conn, reading, wpc, burst, picked, draining, normalUp, waited>>

\* The channel takes the message, whatever the generation is by now.
Deliver(g) ==
  LET p == sending[g].priority IN
  /\ sending[g] # NoMessage
  /\ Len(control[p]) < ControlCapacity
  /\ control' = [control EXCEPT ![p] = Append(@, sending[g].gen)]
  /\ sending' = [sending EXCEPT ![g] = NoMessage]
  /\ UNCHANGED <<vars, conn, reading, wpc, burst, picked, draining, normalUp, waited>>

\* runtime.ctx or t.ctx is done.
Abandon(g) ==
  /\ sending[g] # NoMessage
  /\ sending[g].gen # generation \/ ctxDone
  /\ sending' = [sending EXCEPT ![g] = NoMessage]
  /\ UNCHANGED <<vars, control, conn, reading, wpc, burst, picked, draining, normalUp, waited>>

\* Only requests read from a connection start sessions, so only sessions of
\* its generation have output that passes the first generation check.  The
\* priority is the one the session was spawned with.
Stream(w, k, m, s) ==
  /\ conn = generation
  /\ Begin(w, k, PriorityOf[k], m, s)
  /\ UNCHANGED writerVars

-----------------------------------------------------------------------------
(* The writer.                                                             *)

NormalWaiting ==
  \/ activeOutputs["normal"] # <<>>
  \/ \E i \in DOMAIN control["normal"] : control["normal"][i] = generation

FirstTryPriority(b) == "priorityControl"

FirstTry(b) == IF b >= BurstLimit THEN "burstControl" ELSE "priorityControl"

\* The writer goes round its loop.
PickAgain(b) ==
  /\ wpc' = FirstTry(b)
  /\ burst' = b
  /\ normalUp' = NormalWaiting
  /\ picked' = NoMessage

StaleNever(gen) == FALSE

\* shouldDropQueuedControlMessage
Stale(gen) == gen # generation

\* tryDequeueControl receives a message.
TryControl ==
  /\ wpc \in ControlTries
  /\ LET p == Lane(wpc) IN
     /\ control[p] # <<>>
     /\ control' = [control EXCEPT ![p] = Tail(@)]
     /\ IF Stale(Head(control[p]))
        THEN UNCHANGED <<wpc, picked>>
        ELSE /\ wpc' = "send"
             /\ picked' = [gen |-> Head(control[p]), priority |-> p]
  /\ UNCHANGED <<vars, sending, conn, reading, burst, draining, normalUp, waited>>

\* dequeueOutputForPriority has a result.
TryOutput ==
  /\ wpc \in OutputTries
  /\ LET p == Lane(wpc) IN
     /\ Dequeue(p)
     /\ picked' = [gen |-> Head(queue[outputQueues[Front(p)]].items).gen, priority |-> p]
  /\ wpc' = "send"
  /\ UNCHANGED <<control, sending, conn, reading, burst, draining, normalUp, waited>>

TryNothing ==
  /\ \/ wpc \in ControlTries /\ control[Lane(wpc)] = <<>>
     \/ wpc \in OutputTries /\ activeOutputs[Lane(wpc)] = <<>>
  /\ wpc' = NextTry[wpc]
  /\ UNCHANGED <<vars, control, sending, conn, reading, burst, picked, draining,
                 normalUp, waited>>

\* The select receives a control message.
SelectControl(p) ==
  /\ wpc = "select"
  /\ control[p] # <<>>
  /\ control' = [control EXCEPT ![p] = Tail(@)]
  /\ IF Stale(Head(control[p]))
     THEN PickAgain(burst)
     ELSE /\ wpc' = "send"
          /\ picked' = [gen |-> Head(control[p]), priority |-> p]
          /\ UNCHANGED <<burst, normalUp>>
  /\ UNCHANGED <<vars, sending, conn, reading, draining, waited>>

SelectReadyOnce ==
  /\ wpc = "select"
  /\ TakeReady
  /\ UNCHANGED writerVars

\* The select receives the token of outputReady.
SelectReady ==
  /\ wpc = "select"
  /\ TakeReady
  /\ PickAgain(burst)
  /\ UNCHANGED <<control, sending, conn, reading, draining, waited>>

\* The select sees t.ctx done, or heartbeatStop closed.
SelectDone ==
  /\ wpc = "select"
  /\ ctxDone \/ ~reading
  /\ wpc' = "done"
  /\ UNCHANGED <<vars, control, sending, conn, reading, burst, picked, draining,
                 normalUp, waited>>

\* writeMessageOnConn succeeds: send counts the burst.
Send ==
  /\ wpc = "send"
  /\ reading
  /\ IF picked.priority = "priority"
     THEN /\ PickAgain(IF burst < BurstLimit THEN burst + 1 ELSE burst)
          /\ waited' = CASE ~normalUp -> 0
                         [] normalUp /\ waited <= BurstLimit -> waited + 1
                         [] OTHER -> waited
     ELSE PickAgain(0) /\ waited' = 0
  /\ UNCHANGED <<vars, control, sending, conn, reading, draining>>

\* It fails: the peer is gone, or the socket was closed on this side.
SendFails ==
  /\ wpc = "send"
  /\ wpc' = "done"
  /\ picked' = NoMessage
  /\ UNCHANGED <<vars, control, sending, conn, reading, burst, draining, normalUp, waited>>

-----------------------------------------------------------------------------
(* The connection, and the resets of Run and Stop.                         *)

Dial ==
  /\ wpc = "off"
  /\ ~ctxDone
  /\ Run \notin clearing /\ draining[Run] = "no"
  /\ wpc' = "dialing"
  /\ UNCHANGED <<vars, control, sending, conn, reading, burst, picked, draining,
                 normalUp, waited>>

\* messageLoop begins: it reads the generation and starts the writer.
Connect ==
  /\ wpc = "dialing"
  /\ conn' = generation
  /\ reading' = TRUE
  /\ PickAgain(0)
  /\ UNCHANGED <<vars, control, sending, draining, waited>>

\* The reader returns: a read error, or t.ctx is done.
LoseConnection ==
  /\ reading
  /\ reading' = FALSE
  /\ UNCHANGED <<vars, control, sending, conn, wpc, burst, picked, draining, normalUp, waited>>

\* messageLoop has returned, once its writer has; Run resets.
RunResets ==
  /\ wpc = "done" /\ ~reading
  /\ BumpGeneration(Run)
  /\ conn' = 0
  /\ wpc' = "off"
  /\ normalUp' = FALSE /\ waited' = 0
  /\ UNCHANGED <<control, sending, reading, burst, picked, draining>>

\* Stop, which has cancelled t.ctx, resets.
StopResets(t) ==
  /\ t # Run
  /\ ctxDone /\ draining[t] = "no"
  /\ BumpGeneration(t)
  /\ normalUp' = FALSE /\ waited' = 0
  /\ UNCHANGED <<control, sending, conn, reading, wpc, burst, picked, draining>>

Cancel == CancelContext /\ UNCHANGED writerVars

SwapQueues(t) ==
  /\ ClearQueues(t)
  /\ draining' = [draining EXCEPT ![t] = "priority"]
  /\ normalUp' = FALSE /\ waited' = 0
  /\ UNCHANGED <<control, sending, conn, reading, wpc, burst, picked>>

\* A step of drainControlQueues, which senders can race.
Drain(t) ==
  LET p == draining[t] IN
  /\ p # "no"
  /\ IF control[p] # <<>>
     THEN control' = [control EXCEPT ![p] = Tail(@)] /\ UNCHANGED draining
     ELSE /\ draining' = [draining EXCEPT ![t] = IF p = "priority" THEN "normal" ELSE "no"]
          /\ UNCHANGED control
  /\ normalUp' = FALSE /\ waited' = 0
  /\ UNCHANGED <<vars, sending, conn, reading, wpc, burst, picked>>

-----------------------------------------------------------------------------
WriterStep ==
  \/ TryControl \/ TryOutput \/ TryNothing
  \/ \E p \in Priorities : SelectControl(p)
  \/ SelectReady \/ SelectDone \/ Send \/ SendFails

SenderStep(g) == (\E p \in Priorities : Offer(g, p)) \/ Deliver(g) \/ Abandon(g)

OutputStep(w) ==
  \/ \E k \in Keys, m \in Messages, s \in Sizes : Stream(w, k, m, s)
  \/ /\ (\E q \in Queues : Enter(w, q) \/ Resume(w, q)) \/ Notify(w)
     /\ UNCHANGED writerVars

MarkStep(k) == MarkComplete(k) /\ UNCHANGED writerVars

ResetStep ==
  \/ RunResets \/ Cancel
  \/ \E t \in Resetters : StopResets(t) \/ SwapQueues(t) \/ Drain(t)

NextWriter ==
  \/ WriterStep
  \/ \E g \in Senders : SenderStep(g)
  \/ \E w \in Writers : OutputStep(w)
  \/ \E k \in Keys : MarkStep(k)
  \/ Dial \/ Connect \/ LoseConnection
  \/ ResetStep

SpecWriter == InitWriter /\ [][NextWriter]_tunnelVars

\* The writer goroutine runs whenever it can (a write that neither succeeds nor
\* fails is the network's fault, not assumed away: it is not allowed here), and
\* a goroutine that has queued output runs on to its notification.
FairWriter ==
  /\ WF_tunnelVars(WriterStep)
  /\ \A w \in Writers : WF_tunnelVars(Notify(w) /\ UNCHANGED writerVars)

FairSpecWriter == SpecWriter /\ FairWriter

-----------------------------------------------------------------------------
(* Properties.                                                             *)

\* The writer never sleeps on output: when it is in its select and some session
\* has output, the token of outputReady is there or about to be.  The token is
\* one for all sessions and survives the connection, and the writer may take it
\* for output it has sent already, so this is not local to any action.
NoSleepWithOutput ==
  wpc = "select" /\ (\E p \in Priorities : activeOutputs[p] # <<>>) =>
    outputReady \/ \E w \in Writers : pc[w] = "notify"

\* What the writer sends on a connection was queued under its generation: the
\* control queues outlive a connection, and blocked senders of the old runtime
\* can win the race against drainControlQueues.
OwnMessagesOnly == wpc = "send" => picked.gen = conn

\* While a normal message waits, at most one burst of priority messages is sent
\* before a normal one: tryDequeueNextMessage and the count kept by send.
NormalWaitsOneBurst == waited <= BurstLimit

\* Normal traffic is not starved: while the connection lasts, a waiting normal
\* message leads to a normal message being sent, or dropped by a reset.
NormalIsSent ==
  (reading /\ wpc # "done" /\ NormalWaiting)
    ~> (\/ ~reading \/ wpc = "done"
        \/ wpc = "send" /\ picked.priority = "normal"
        \/ ~NormalWaiting)
=============================================================================
