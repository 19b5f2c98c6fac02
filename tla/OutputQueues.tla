---------------------------- MODULE OutputQueues ----------------------------
(***************************************************************************)
(* The per-session output queues of a tunnel (internal/tunnel/websocket.go): *)
(* the goroutines that stream a session's output block on a bounded queue, *)
(* the websocket writer drains the queues of a priority round-robin, and a *)
(* runtime reset throws every queue away and releases the blocked writers. *)
(*                                                                         *)
(* The client is the most general one: any goroutine may enqueue for any   *)
(* session under the current generation, and any session may be marked     *)
(* complete at any time.  ProcSessions restricts it to what spawned        *)
(* processes do.  An action is one critical section of outputMu, or one    *)
(* step taken outside of it.                                               *)
(***************************************************************************)
EXTENDS Naturals, Sequences, FiniteSets

CONSTANTS
  Keys,         \* session keys, outputSessionQueueKey(namespace, sessionID)
  Writers,      \* goroutines inside enqueueOutputForGeneration
  Queues,       \* heap cells that hold sessionOutputQueue objects
  Resetters,    \* goroutines that run resetRuntimeState: Run and Stop
  Messages,     \* payloads, opaque to the queues
  Sizes,        \* payload sizes
  MaxMessages,  \* sessionQueueMaxMessages
  MaxBytes,     \* sessionQueueMaxBytes
  NoQueue,      \* the nil *sessionOutputQueue
  MaxGeneration \* bound: no reset starts in this generation

ASSUME BoundsAssumption ==
  /\ MaxMessages \in Nat \ {0}
  /\ MaxBytes \in Nat
  /\ MaxGeneration \in Nat \ {0}
  /\ Sizes \subseteq Nat

ASSUME WritersAssumption == IsFiniteSet(Writers)
ASSUME NoQueueAssumption == NoQueue \notin Queues

Priorities == {"priority", "normal"}

\* "gen" is a history field: the generation whose callback queued the item.
Item == [msg : Messages, size : Sizes, gen : Nat]

QueueRecord ==
  [items : Seq(Item), bytes : Nat, active : BOOLEAN, closed : BOOLEAN,
   drainWhenEmpty : BOOLEAN, writers : Nat, priority : Priorities]

\* A cell that holds no object any more (the garbage collector took it).
Blank ==
  [items |-> <<>>, bytes |-> 0, active |-> FALSE, closed |-> FALSE,
   drainWhenEmpty |-> FALSE, writers |-> 0, priority |-> "normal"]

Call == [key : Keys, gen : Nat, priority : Priorities, msg : Messages, size : Sizes]
NoCall == [key |-> "none"]

VARIABLES
  generation,    \* runtimeGeneration
  queue,         \* the heap of queue objects
  outputQueues,  \* session key -> its queue, or NoQueue
  completed,     \* completedOutputSessions
  activeOutputs, \* activePriorityOutputs and activeNormalOutputs
  rrIndex,       \* priorityRRIndex and normalRRIndex
  pc,            \* where each writer is in enqueueOutputForGeneration
  call,          \* the arguments of the writer's call
  held,          \* the queue a writer waits on
  outputReady,   \* the outputReady channel (capacity 1) holds a token
  clearing,      \* resetters between the generation bump and the map swap
  ctxDone        \* t.ctx is cancelled

vars == <<generation, queue, outputQueues, completed, activeOutputs, rrIndex,
          pc, call, held, outputReady, clearing, ctxDone>>

runtimeVars == <<generation, clearing, ctxDone>>

TypeOK ==
  /\ generation \in Nat \ {0}
  /\ queue \in [Queues -> QueueRecord]
  /\ outputQueues \in [Keys -> Queues \cup {NoQueue}]
  /\ completed \subseteq Keys
  /\ activeOutputs \in [Priorities -> Seq(Keys)]
  /\ rrIndex \in [Priorities -> Nat]
  /\ pc \in [Writers -> {"idle", "enter", "waiting", "woken", "notify"}]
  /\ call \in [Writers -> Call \cup {NoCall}]
  /\ held \in [Writers -> Queues \cup {NoQueue}]
  /\ outputReady \in BOOLEAN
  /\ clearing \subseteq Resetters
  /\ ctxDone \in BOOLEAN

Init ==
  /\ generation = 1
  /\ queue = [q \in Queues |-> Blank]
  /\ outputQueues = [k \in Keys |-> NoQueue]
  /\ completed = {}
  /\ activeOutputs = [p \in Priorities |-> <<>>]
  /\ rrIndex = [p \in Priorities |-> 0]
  /\ pc = [w \in Writers |-> "idle"]
  /\ call = [w \in Writers |-> NoCall]
  /\ held = [w \in Writers |-> NoQueue]
  /\ outputReady = FALSE
  /\ clearing = {}
  /\ ctxDone = FALSE

-----------------------------------------------------------------------------
(* Helpers.                                                                *)

WouldBlockOffByOne(r, size) ==
  \/ Len(r.items) > MaxMessages
  \/ IF size > MaxBytes THEN r.items # <<>> ELSE r.bytes + size > MaxBytes

\* sessionQueueWouldBlock
WouldBlock(r, size) ==
  \/ Len(r.items) >= MaxMessages
  \/ IF size > MaxBytes THEN r.items # <<>> ELSE r.bytes + size > MaxBytes

\* What maybeDeleteOutputQueueLocked asks of a queue.
Drained(r) == ~r.active /\ r.items = <<>> /\ r.writers = 0 /\ r.drainWhenEmpty

Mapped(q) == \E k \in Keys : outputQueues[k] = q

\* A cell that a new queue object can take.
Unused(q) == ~Mapped(q) /\ queue[q].writers = 0

Waiting(q) == {w \in Writers : pc[w] = "waiting" /\ held[w] = q}

RejectedIfClosed(r, c) == r.closed

\* The writer of call c gives up: the queue or its generation is gone.
Rejected(r, c) == r.closed \/ c.gen # generation

WithoutIndex(s, i) == SubSeq(s, 1, i - 1) \o SubSeq(s, i + 1, Len(s))

ReleaseWithoutDelete(k, q, r, m) ==
  /\ queue' = [queue EXCEPT ![q] = IF m[k] = q \/ r.writers > 0 THEN r ELSE Blank]
  /\ outputQueues' = m
  /\ UNCHANGED completed

\* Releases object r in cell q under key k: maybeDeleteOutputQueueLocked, with
\* m the map to delete from.  The cell of a dropped object is blanked.
Release(k, q, r, m) ==
  IF Drained(r)
  THEN /\ queue' = [queue EXCEPT ![q] = Blank]
       /\ outputQueues' = IF m[k] = q THEN [m EXCEPT ![k] = NoQueue] ELSE m
       /\ completed' = completed \ {k}
  ELSE /\ queue' = [queue EXCEPT ![q] = IF m[k] = q \/ r.writers > 0 THEN r ELSE Blank]
       /\ outputQueues' = m
       /\ UNCHANGED completed

-----------------------------------------------------------------------------
(* enqueueOutputForGeneration.                                             *)

\* The call and its first, unlocked, generation check: a callback of an older
\* runtime returns here and changes nothing.
Begin(w, k, p, m, s) ==
  /\ pc[w] = "idle"
  /\ pc' = [pc EXCEPT ![w] = "enter"]
  /\ call' = [call EXCEPT ![w] =
       [key |-> k, gen |-> generation, priority |-> p, msg |-> m, size |-> s]]
  /\ UNCHANGED <<generation, queue, outputQueues, completed, activeOutputs, rrIndex,
                 held, outputReady, clearing, ctxDone>>

ItemOf(c) == [msg |-> c.msg, size |-> c.size, gen |-> c.gen]

PushFront(r, it) ==
  [r EXCEPT !.items = <<it>> \o @, !.bytes = @ + it.size, !.active = TRUE]

Push(r, it) ==
  [r EXCEPT !.items = Append(@, it), !.bytes = @ + it.size, !.active = TRUE]

\* The rest of the critical section, entered with the lock: r is the object
\* in cell q without this writer in its count, m the map that holds it.
AppendItem(w, q, r, m) ==
  LET c == call[w] IN
  /\ ~Rejected(r, c)
  /\ ~WouldBlock(r, c.size)
  /\ queue' = [queue EXCEPT ![q] = Push(r, ItemOf(c))]
  /\ outputQueues' = m
  /\ activeOutputs' = IF r.active THEN activeOutputs
                      ELSE [activeOutputs EXCEPT ![r.priority] = Append(@, c.key)]
  /\ pc' = [pc EXCEPT ![w] = "notify"]
  /\ call' = [call EXCEPT ![w] = NoCall]
  /\ held' = [held EXCEPT ![w] = NoQueue]
  /\ UNCHANGED completed

WaitUncounted(w, q, r, m) ==
  /\ ~Rejected(r, call[w])
  /\ WouldBlock(r, call[w].size)
  /\ ~ctxDone
  /\ queue' = [queue EXCEPT ![q] = r]
  /\ outputQueues' = m
  /\ pc' = [pc EXCEPT ![w] = "waiting"]
  /\ held' = [held EXCEPT ![w] = q]
  /\ UNCHANGED <<completed, activeOutputs, call>>

WaitForRoom(w, q, r, m) ==
  /\ ~Rejected(r, call[w])
  /\ WouldBlock(r, call[w].size)
  /\ ~ctxDone
  /\ queue' = [queue EXCEPT ![q] = [r EXCEPT !.writers = @ + 1]]
  /\ outputQueues' = m
  /\ pc' = [pc EXCEPT ![w] = "waiting"]
  /\ held' = [held EXCEPT ![w] = q]
  /\ UNCHANGED <<completed, activeOutputs, call>>

GiveUp(w, q, r, m) ==
  /\ Rejected(r, call[w]) \/ (WouldBlock(r, call[w].size) /\ ctxDone)
  /\ Release(call[w].key, q, r, m)
  /\ pc' = [pc EXCEPT ![w] = "idle"]
  /\ call' = [call EXCEPT ![w] = NoCall]
  /\ held' = [held EXCEPT ![w] = NoQueue]
  /\ UNCHANGED activeOutputs

TryAppend(w, q, r, m) ==
  /\ AppendItem(w, q, r, m) \/ WaitForRoom(w, q, r, m) \/ GiveUp(w, q, r, m)
  /\ UNCHANGED <<generation, rrIndex, outputReady, clearing, ctxDone>>

\* The writer takes outputMu for the first time, and creates the queue of its
\* session when there is none.
Enter(w, q) ==
  LET c == call[w] IN
  /\ pc[w] = "enter"
  /\ IF outputQueues[c.key] = NoQueue THEN Unused(q) ELSE q = outputQueues[c.key]
  /\ LET r == IF outputQueues[c.key] = NoQueue THEN Blank ELSE queue[q] IN
     TryAppend(w, q,
               [r EXCEPT !.priority = c.priority,
                         !.drainWhenEmpty = @ \/ c.key \in completed],
               [outputQueues EXCEPT ![c.key] = q])

\* The writer has been signalled and takes outputMu again, inside Wait.
Resume(w, q) ==
  /\ pc[w] = "woken"
  /\ q = held[w]
  /\ TryAppend(w, q, [queue[q] EXCEPT !.writers = @ - 1], outputQueues)

\* The non-blocking send on outputReady, after the unlock.
Notify(w) ==
  /\ pc[w] = "notify"
  /\ outputReady' = TRUE
  /\ pc' = [pc EXCEPT ![w] = "idle"]
  /\ UNCHANGED <<generation, queue, outputQueues, completed, activeOutputs, rrIndex,
                 call, held, clearing, ctxDone>>

-----------------------------------------------------------------------------
(* The websocket writer's side.                                            *)

Front(p) == activeOutputs[p][(rrIndex[p] % Len(activeOutputs[p])) + 1]

PopStillActive(r) ==
  [r EXCEPT !.items = Tail(@),
            !.bytes = IF @ < Head(r.items).size THEN 0 ELSE @ - Head(r.items).size]

\* The object once its first item is taken; it leaves its active list, and so
\* is no longer active, when that was its last.
Pop(r) ==
  [r EXCEPT !.items = Tail(@),
            !.bytes = IF @ < Head(r.items).size THEN 0 ELSE @ - Head(r.items).size,
            !.active = Len(r.items) > 1]

NoSignal(q) == UNCHANGED pc

\* q.full.Signal(): sync.Cond promises no order among its waiters.
Signal(q) ==
  \/ Waiting(q) = {} /\ UNCHANGED pc
  \/ \E w \in Waiting(q) : pc' = [pc EXCEPT ![w] = "woken"]

\* rrIndex after the entry at 0-based idx left the list that is now s.
IndexAfterRemoval(rr, idx, s) ==
  LET moved == IF idx < rr THEN rr - 1 ELSE rr IN
  IF moved >= Len(s) THEN 0 ELSE moved

\* dequeueOutputForPriority with a result.  The branch of its loop that
\* discards an entry without items has no action: ActiveEntriesHaveItems
\* shows that the list never holds one.
Dequeue(p) ==
  LET list == activeOutputs[p]
      idx  == rrIndex[p] % Len(list)
      k    == Front(p)
      q    == outputQueues[k]
      last == Len(queue[q].items) = 1
      rest == WithoutIndex(list, idx + 1)
  IN
  /\ list # <<>>
  /\ Release(k, q, Pop(queue[q]), outputQueues)
  /\ activeOutputs' = IF last THEN [activeOutputs EXCEPT ![p] = rest] ELSE activeOutputs
  /\ rrIndex' = [rrIndex EXCEPT ![p] =
       IF last THEN IndexAfterRemoval(@, idx, rest) ELSE (idx + 1) % Len(list)]
  /\ Signal(q)
  /\ UNCHANGED <<generation, call, held, outputReady, clearing, ctxDone>>

\* The writer's select takes the token of outputReady.
TakeReady ==
  /\ outputReady
  /\ outputReady' = FALSE
  /\ UNCHANGED <<generation, queue, outputQueues, completed, activeOutputs, rrIndex,
                 pc, call, held, clearing, ctxDone>>

-----------------------------------------------------------------------------
(* Session completion and runtime reset.                                   *)

\* markOutputSessionComplete
MarkComplete(k) ==
  /\ IF outputQueues[k] = NoQueue
     THEN completed' = completed \cup {k} /\ UNCHANGED <<queue, outputQueues>>
     ELSE LET q == outputQueues[k]
              r == [queue[q] EXCEPT !.drainWhenEmpty = TRUE]
          IN /\ queue' = [queue EXCEPT ![q] = IF Drained(r) THEN Blank ELSE r]
             /\ outputQueues' = IF Drained(r) THEN [outputQueues EXCEPT ![k] = NoQueue]
                                ELSE outputQueues
             /\ completed' = IF Drained(r) THEN completed \ {k} ELSE completed \cup {k}
  /\ UNCHANGED <<generation, activeOutputs, rrIndex, pc, call, held, outputReady,
                 clearing, ctxDone>>

\* Stop cancels t.ctx before it resets.
CancelContext ==
  /\ ~ctxDone
  /\ ctxDone' = TRUE
  /\ UNCHANGED <<generation, queue, outputQueues, completed, activeOutputs, rrIndex,
                 pc, call, held, outputReady, clearing>>

\* resetRuntimeState up to the end of its runtimeMu section.
BumpGeneration(t) ==
  /\ t \notin clearing
  /\ generation < MaxGeneration
  /\ generation' = generation + 1
  /\ clearing' = clearing \cup {t}
  /\ UNCHANGED <<queue, outputQueues, completed, activeOutputs, rrIndex, pc, call,
                 held, outputReady, ctxDone>>

SignalEach ==
  pc' = [w \in Writers |->
    IF \E q \in Queues : Mapped(q) /\ w \in Waiting(q) /\ w = CHOOSE v \in Waiting(q) : TRUE
    THEN "woken" ELSE pc[w]]

\* q.full.Broadcast() on every queue of the map.
Broadcast ==
  pc' = [w \in Writers |->
    IF pc[w] = "waiting" /\ Mapped(held[w]) THEN "woken" ELSE pc[w]]

\* Its outputMu section: every queue is closed and its writers broadcast to.
ClearQueues(t) ==
  /\ t \in clearing
  /\ queue' = [q \in Queues |->
       IF ~Mapped(q) THEN queue[q]
       ELSE IF queue[q].writers = 0 THEN Blank
       ELSE [queue[q] EXCEPT !.closed = TRUE]]
  /\ Broadcast
  /\ outputQueues' = [k \in Keys |-> NoQueue]
  /\ completed' = {}
  /\ activeOutputs' = [p \in Priorities |-> <<>>]
  /\ rrIndex' = [p \in Priorities |-> 0]
  /\ clearing' = clearing \ {t}
  /\ UNCHANGED <<generation, call, held, outputReady, ctxDone>>

Next ==
  \/ \E w \in Writers, k \in Keys, p \in Priorities, m \in Messages, s \in Sizes :
       Begin(w, k, p, m, s)
  \/ \E w \in Writers, q \in Queues : Enter(w, q) \/ Resume(w, q)
  \/ \E w \in Writers : Notify(w)
  \/ \E p \in Priorities : Dequeue(p)
  \/ TakeReady
  \/ \E k \in Keys : MarkComplete(k)
  \/ CancelContext
  \/ \E t \in Resetters : BumpGeneration(t) \/ ClearQueues(t)

Spec == Init /\ [][Next]_vars

-----------------------------------------------------------------------------
(* Properties.                                                             *)

\* A session never holds more than MaxMessages items, and never more than
\* MaxBytes bytes unless its only item is an oversized one: whatever the
\* interleaving of blocked, signalled and barging writers, memory is bounded.
QueueBounds ==
  \A q \in Queues :
    /\ Len(queue[q].items) <= MaxMessages
    /\ queue[q].bytes <= MaxBytes \/ Len(queue[q].items) <= 1

\* A session with items is listed, once, in exactly one of the two active
\* lists, and every listed session has items: no queued output is ever out of
\* the writer's sight, and dequeueOutputForPriorityLocked never meets an entry
\* of a deleted or empty queue, also when a session changes its priority.
ActiveEntriesHaveItems ==
  /\ \A p \in Priorities : \A i \in DOMAIN activeOutputs[p] :
       LET q == outputQueues[activeOutputs[p][i]] IN
       q # NoQueue /\ queue[q].items # <<>> /\ queue[q].active
  /\ \A k \in Keys :
       outputQueues[k] # NoQueue /\ queue[outputQueues[k]].items # <<>> =>
         \E p \in Priorities : \E i \in DOMAIN activeOutputs[p] : activeOutputs[p][i] = k
  /\ \A p, r \in Priorities :
       \A i \in DOMAIN activeOutputs[p], j \in DOMAIN activeOutputs[r] :
         activeOutputs[p][i] = activeOutputs[r][j] => p = r /\ i = j

\* Once no reset is half done, every queued item was queued by a callback of
\* the current generation: output of an old runtime is never sent on a new
\* connection.
NoStaleItems ==
  clearing = {} =>
    \A k \in Keys : outputQueues[k] # NoQueue =>
      \A i \in DOMAIN queue[outputQueues[k]].items :
        queue[outputQueues[k]].items[i].gen = generation

\* A goroutine that waits for room is always going to be signalled: its queue
\* holds an item whose dequeue will signal, or another writer of the queue was
\* signalled and has not run yet, or a reset is about to broadcast, or (t.ctx
\* cancelled by Stop) a reset is still to come.
NoLostWakeup ==
  \A w \in Writers : pc[w] = "waiting" =>
    LET q == held[w] IN
    /\ Mapped(q)
    /\ \/ queue[q].items # <<>>
       \/ \E v \in Writers : pc[v] = "woken" /\ held[v] = q
       \/ clearing # {}
       \/ ctxDone

\* A queue whose session is complete (drainWhenEmpty) is deleted by whoever
\* empties it: no critical section leaves one behind drained.  A queue that the
\* exit message makes after the mark is not one of these: DrainedIdIsFree.
DrainedQueueIsDeleted ==
  \A k \in Keys : outputQueues[k] # NoQueue => ~Drained(queue[outputQueues[k]])

\* The queues implement the streams of SessionStreams: no priority change,
\* deletion of a drained queue, retired queue or late writer ever loses,
\* repeats or reorders an item of a session.
Promise == INSTANCE SessionStreams WITH
  stream <- [k \in Keys |-> IF outputQueues[k] = NoQueue THEN <<>>
                            ELSE queue[outputQueues[k]].items],
  current <- generation,
  resetting <- clearing,
  Items <- [msg : Messages, size : Sizes, gen : 1 .. MaxGeneration],
  Capacity <- MaxMessages

ImplementsStreams == Promise!SSpec
=============================================================================
