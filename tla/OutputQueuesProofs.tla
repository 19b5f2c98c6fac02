------------------------- MODULE OutputQueuesProofs -------------------------
(***************************************************************************)
(* The safety of OutputQueues for every set of sessions and goroutines,    *)
(* every queue bound and every generation bound.  The inductive invariant  *)
(* is a conjunction of parts, each about one aspect of the queues.         *)
(***************************************************************************)
EXTENDS OutputQueues, FiniteSetTheorems, SequenceTheorems, TLAPS

Inside(q) == {w \in Writers : pc[w] \in {"waiting", "woken"} /\ held[w] = q}

\* The arguments of a call are there as long as it needs them.
CallsTyped ==
  \A w \in Writers :
    /\ pc[w] \in {"enter", "waiting", "woken"} => call[w] \in Call
    /\ pc[w] \in {"waiting", "woken"} => held[w] \in Queues

\* bytes is the sum of the sizes of the items: f[i] is what the items from the
\* i-th on add up to.
RunningSum(f, r) ==
  /\ f \in [1 .. Len(r.items) + 1 -> Nat]
  /\ f[Len(r.items) + 1] = 0
  /\ \A i \in 1 .. Len(r.items) : f[i] = f[i + 1] + r.items[i].size
  /\ f[1] = r.bytes

Accounted(r) == \E f : RunningSum(f, r)
Bounded(r) == Len(r.items) <= MaxMessages /\ (r.bytes <= MaxBytes \/ Len(r.items) <= 1)

Accounts == \A q \in Queues : Accounted(queue[q]) /\ Bounded(queue[q])

-----------------------------------------------------------------------------
(* Facts about one queue object.                                           *)

\* A blank object holds nothing.
LEMMA BlankObject == Blank \in QueueRecord /\ Accounted(Blank) /\ Bounded(Blank)
<1>1. Blank \in QueueRecord
  BY DEF Blank, QueueRecord, Priorities
<1>2. RunningSum([i \in 1 .. 1 |-> 0], Blank)
  BY DEF RunningSum, Blank
<1>3. Bounded(Blank)
  BY BoundsAssumption DEF Bounded, Blank
<1> QED BY <1>1, <1>2, <1>3 DEF Accounted

\* An object without items accounts for no bytes.
LEMMA EmptyObject ==
  ASSUME NEW r \in QueueRecord, Accounted(r), r.items = <<>>
  PROVE  r.bytes = 0
BY DEF Accounted, RunningSum, QueueRecord

\* Appending an item that does not block keeps the object's accounts.
LEMMA PushObject ==
  ASSUME NEW r \in QueueRecord, NEW it \in Item, Accounted(r), Bounded(r),
         ~WouldBlock(r, it.size)
  PROVE  Push(r, it) \in QueueRecord /\ Accounted(Push(r, it)) /\ Bounded(Push(r, it))
<1> DEFINE p == Push(r, it)
           n == Len(r.items)
<1>1. p \in QueueRecord
  <2>1. it.size \in Nat
    BY BoundsAssumption DEF Item
  <2>2. Append(r.items, it) \in Seq(Item) /\ r.bytes + it.size \in Nat
    BY <2>1 DEF QueueRecord
  <2> QED BY <2>1, <2>2 DEF Push, QueueRecord
<1>2. p.items = Append(r.items, it) /\ p.bytes = r.bytes + it.size
  BY DEF Push, QueueRecord
<1>3. n \in Nat /\ Len(p.items) = n + 1 /\ r.items \in Seq(Item)
  BY <1>2 DEF QueueRecord
<1>4. Bounded(p)
  <2>1. Len(p.items) <= MaxMessages
    BY <1>3, BoundsAssumption DEF WouldBlock
  <2>2. p.bytes <= MaxBytes \/ Len(p.items) <= 1
    <3>1. r.bytes \in Nat /\ it.size \in Nat
      BY BoundsAssumption DEF QueueRecord, Item
    <3>2. CASE it.size > MaxBytes
      BY <1>3, <3>2 DEF WouldBlock
    <3>3. CASE ~(it.size > MaxBytes)
      BY <1>2, <3>1, <3>3, BoundsAssumption DEF WouldBlock
    <3> QED BY <3>2, <3>3
  <2> QED BY <2>1, <2>2 DEF Bounded
<1>5. Accounted(p)
  <2>1. PICK f : RunningSum(f, r)
    BY DEF Accounted
  <2> DEFINE g == [i \in 1 .. n + 2 |-> IF i = n + 2 THEN 0 ELSE f[i] + it.size]
  <2>0. it.size \in Nat
    BY BoundsAssumption DEF Item
  <2>2. g \in [1 .. n + 2 -> Nat]
    BY <1>3, <2>0, <2>1 DEF RunningSum
  <2>3. \A i \in 1 .. n + 1 : g[i] = g[i + 1] + p.items[i].size
    <3>1. \A i \in 1 .. n : p.items[i] = r.items[i]
      BY <1>2, <1>3
    <3>2. p.items[n + 1] = it
      BY <1>2, <1>3
    <3>3. \A i \in 1 .. n + 1 : g[i] = f[i] + it.size /\ f[i] \in Nat
      BY <1>3, <2>1 DEF RunningSum
    <3>4. g[n + 1] = g[n + 2] + p.items[n + 1].size
      BY <1>3, <2>0, <2>1, <3>2 DEF RunningSum
    <3>5. ASSUME NEW i \in 1 .. n PROVE g[i] = g[i + 1] + p.items[i].size
      <4>1. r.items[i] \in Item
        BY <1>3
      <4>2. r.items[i].size \in Nat /\ f[i] = f[i + 1] + r.items[i].size
        BY <1>3, <2>1, <4>1, BoundsAssumption DEF RunningSum, Item
      <4>3. i \in 1 .. n + 1 /\ i + 1 \in 1 .. n + 1
        BY <1>3
      <4> HIDE DEF g, p
      <4> QED BY <2>0, <3>1, <3>3, <4>2, <4>3
    <3> HIDE DEF g, p
    <3>6. \A i \in 1 .. n + 1 : i = n + 1 \/ i \in 1 .. n
      BY <1>3
    <3> QED BY <3>4, <3>5, <3>6
  <2>4. g[1] = p.bytes /\ g[n + 2] = 0
    BY <1>2, <1>3, <2>0, <2>1 DEF RunningSum
  <2>5. Len(p.items) + 1 = n + 2
    BY <1>3
  <2> HIDE DEF g, p
  <2>6. RunningSum(g, p)
    BY <1>3, <2>2, <2>3, <2>4, <2>5 DEF RunningSum
  <2> QED BY <2>6 DEF Accounted
<1> QED BY <1>1, <1>4, <1>5

\* Taking the first item keeps the object's accounts.
LEMMA PopObject ==
  ASSUME NEW r \in QueueRecord, Accounted(r), Bounded(r), r.items # <<>>
  PROVE  /\ Pop(r) \in QueueRecord /\ Accounted(Pop(r)) /\ Bounded(Pop(r))
         /\ Pop(r).items = Tail(r.items)
         /\ Pop(r).active <=> Pop(r).items # <<>>
<1> DEFINE p == Pop(r)
           n == Len(r.items)
<1>1. r.items \in Seq(Item) /\ n \in Nat /\ n > 0 /\ r.bytes \in Nat
  BY DEF QueueRecord
<1>2. PICK f : RunningSum(f, r)
  BY DEF Accounted
<1>3. Head(r.items) = r.items[1] /\ r.items[1].size \in Nat
  <2>1. Head(r.items) = r.items[1] /\ r.items[1] \in Item
    BY <1>1
  <2> QED BY <2>1, BoundsAssumption DEF Item
<1>4. Tail(r.items) \in Seq(Item) /\ Len(Tail(r.items)) = n - 1
      /\ \A i \in 1 .. n - 1 : Tail(r.items)[i] = r.items[i + 1]
  BY <1>1
<1>5. r.bytes = f[2] + r.items[1].size /\ f[2] \in Nat
  BY <1>1, <1>2 DEF RunningSum
<1>6. p.items = Tail(r.items) /\ p.bytes = f[2]
  BY <1>1, <1>3, <1>5 DEF Pop, QueueRecord
<1>7. (p.active <=> n > 1) /\ p \in QueueRecord
  <2>1. (n > 1) \in BOOLEAN
    BY <1>1
  <2>2. p.active = (n > 1)
    BY DEF Pop, QueueRecord
  <2>3. p.bytes \in Nat /\ p.items \in Seq(Item)
    BY <1>4, <1>5, <1>6
  <2>4. p \in QueueRecord
    BY <2>1, <2>3 DEF Pop, QueueRecord
  <2> QED BY <2>2, <2>4
<1>8. Accounted(p)
  <2> DEFINE g == [i \in 1 .. n |-> f[i + 1]]
  <2>1. g \in [1 .. n -> Nat] /\ g[n] = 0 /\ g[1] = p.bytes
    BY <1>1, <1>2, <1>6 DEF RunningSum
  <2>2. \A i \in 1 .. n - 1 : g[i] = g[i + 1] + p.items[i].size
    BY <1>1, <1>2, <1>4, <1>6 DEF RunningSum
  <2> HIDE DEF g, p
  <2> QED BY <1>1, <1>4, <1>6, <2>1, <2>2 DEF Accounted, RunningSum
<1>9. Bounded(p)
  BY <1>1, <1>3, <1>4, <1>5, <1>6, BoundsAssumption DEF Bounded
<1>10. p.active <=> p.items # <<>>
  <2>1. \A t \in Seq(Item) : t = <<>> <=> Len(t) = 0
    OBVIOUS
  <2> HIDE DEF p
  <2>2. p.items \in Seq(Item) /\ Len(p.items) = n - 1
    BY <1>4, <1>6
  <2> QED BY <1>1, <1>7, <2>1, <2>2
<1> QED BY <1>6, <1>7, <1>8, <1>9, <1>10

-----------------------------------------------------------------------------
(* The inductive invariant.                                                *)

Typed == TypeOK /\ CallsTyped

\* A queue object is mapped by one key at most and is then open; whoever is
\* inside it is counted, and finds it mapped or closed.
Heap ==
  /\ \A j, k \in Keys : outputQueues[j] = outputQueues[k] /\ outputQueues[j] # NoQueue => j = k
  /\ \A k \in Keys : outputQueues[k] # NoQueue => ~queue[outputQueues[k]].closed
  /\ \A w \in Writers : pc[w] = "waiting" => outputQueues[call[w].key] = held[w]
  /\ \A w \in Writers : pc[w] = "woken" =>
       outputQueues[call[w].key] = held[w] \/ queue[held[w]].closed
  /\ \A q \in Queues : queue[q].writers = Cardinality(Inside(q))

\* The active lists hold exactly the sessions with items, once.
Lists ==
  /\ \A k \in Keys : outputQueues[k] # NoQueue =>
       (queue[outputQueues[k]].active <=> queue[outputQueues[k]].items # <<>>)
  /\ \A p \in Priorities : rrIndex[p] = 0 \/ rrIndex[p] < Len(activeOutputs[p])
  /\ ActiveEntriesHaveItems

\* Items and waiting writers of a queue in the map are of the current
\* generation, unless a reset is about to swap the map.
Fresh ==
  /\ NoStaleItems
  /\ \A w \in Writers :
       pc[w] \in {"waiting", "woken"} /\ outputQueues[call[w].key] = held[w] =>
         call[w].gen = generation \/ clearing # {}

IInv ==
  /\ Typed
  /\ Heap
  /\ Accounts
  /\ Lists
  /\ Fresh
  /\ NoLostWakeup
  /\ DrainedQueueIsDeleted

-----------------------------------------------------------------------------
(* Facts about the goroutines inside a queue.                              *)

\* The goroutines inside a queue are finitely many.
LEMMA InsideFinite == \A q : IsFiniteSet(Inside(q))
BY WritersAssumption, FS_Subset DEF Inside

\* Nobody is inside a queue whose count is zero.
LEMMA NobodyInside ==
  ASSUME Heap, NEW q \in Queues, queue[q].writers = 0
  PROVE  Inside(q) = {}
BY InsideFinite, FS_EmptySet DEF Heap

\* What the critical section of writer w finds when it runs on object r in
\* cell q, with m the map of queues and w itself not counted in r.
SectionTyped(w, q, r, m) ==
  /\ pc[w] \in {"enter", "woken"} /\ call[w] \in Call
  /\ q \in Queues /\ r \in QueueRecord /\ m \in [Keys -> Queues \cup {NoQueue}]
  /\ Accounted(r) /\ Bounded(r)

SectionMap(k, q, r, m) ==
  /\ \A j \in Keys \ {k} : m[j] = outputQueues[j] /\ m[j] # q
  /\ m[k] # q => r.closed /\ m = outputQueues
  /\ m[k] = q => ~r.closed /\ IF outputQueues[k] = q
                              THEN r.items = queue[q].items /\ r.active = queue[q].active
                              ELSE /\ outputQueues[k] = NoQueue /\ Inside(q) = {}
                                   /\ r.items = <<>> /\ ~r.active

SectionInside(w, q, r, m) ==
  /\ r.writers = Cardinality(Inside(q) \ {w})
  /\ \A v \in Inside(q) \ {w} : call[v].key = call[w].key \/ m[call[w].key] # q
  /\ \A x \in Queues \ {q} : w \notin Inside(x)

Section(w, q, r, m) ==
  SectionTyped(w, q, r, m) /\ SectionMap(call[w].key, q, r, m) /\ SectionInside(w, q, r, m)

\* A writer that enters runs its critical section on such an object.
LEMMA EnterSection ==
  ASSUME IInv, NEW w \in Writers, NEW q \in Queues, Enter(w, q)
  PROVE  \E r, m : Section(w, q, r, m) /\ TryAppend(w, q, r, m)
<1> DEFINE c == call[w]
           r0 == IF outputQueues[c.key] = NoQueue THEN Blank ELSE queue[q]
           r == [r0 EXCEPT !.priority = c.priority,
                           !.drainWhenEmpty = @ \/ c.key \in completed]
           m == [outputQueues EXCEPT ![c.key] = q]
<1>1. pc[w] = "enter" /\ c \in Call /\ c.key \in Keys /\ c.priority \in Priorities
  BY DEF Enter, IInv, Typed, CallsTyped, Call
<1>2. TryAppend(w, q, r, m)
  BY DEF Enter
<1>3. r0 \in QueueRecord /\ Accounted(r0) /\ Bounded(r0)
  BY BlankObject DEF IInv, Typed, TypeOK, Accounts
<1>4. /\ r \in QueueRecord /\ r.items = r0.items /\ r.bytes = r0.bytes
      /\ r.active = r0.active /\ r.closed = r0.closed /\ r.writers = r0.writers
  BY <1>1, <1>3 DEF QueueRecord
<1> HIDE DEF r
<1>5. Accounted(r) /\ Bounded(r)
  BY <1>3, <1>4 DEF Accounted, RunningSum, Bounded
<1>6. \A x : w \notin Inside(x)
  BY <1>1 DEF Inside
<1>7. m \in [Keys -> Queues \cup {NoQueue}] /\ m[c.key] = q
  BY <1>1 DEF IInv, Typed, TypeOK
<1>8. CASE outputQueues[c.key] = NoQueue
  <2>1. Unused(q) /\ r0 = Blank
    BY <1>8 DEF Enter
  <2>2. Inside(q) = {}
    BY <2>1, NobodyInside DEF Unused, IInv
  <2>3. r.writers = Cardinality(Inside(q) \ {w})
    BY <1>4, <2>1, <2>2, FS_EmptySet DEF Blank
  <2>4. \A j \in Keys \ {c.key} : m[j] = outputQueues[j] /\ m[j] # q
    BY <2>1 DEF Unused, Mapped, IInv, Typed, TypeOK
  <2>5. r.items = <<>> /\ ~r.active /\ ~r.closed
    BY <1>4, <2>1 DEF Blank
  <2>6. outputQueues[c.key] # q
    BY <1>8, NoQueueAssumption
  <2> HIDE DEF m, r0
  <2>7. Section(w, q, r, m)
    <3>1. SectionTyped(w, q, r, m)
      BY <1>1, <1>4, <1>5, <1>7 DEF SectionTyped
    <3>2. SectionMap(c.key, q, r, m)
      BY <1>7, <1>8, <2>2, <2>4, <2>5, <2>6 DEF SectionMap
    <3>3. SectionInside(w, q, r, m)
      BY <1>6, <2>2, <2>3 DEF SectionInside
    <3> QED BY <3>1, <3>2, <3>3 DEF Section
  <2> QED BY <1>2, <2>7
<1>9. CASE outputQueues[c.key] # NoQueue
  <2>1. outputQueues[c.key] = q /\ r0 = queue[q]
    BY <1>9 DEF Enter
  <2>2. r.writers = Cardinality(Inside(q) \ {w})
    <3>1. Inside(q) \ {w} = Inside(q)
      BY <1>6
    <3> QED BY <1>4, <2>1, <3>1 DEF IInv, Heap
  <2>3. \A j \in Keys \ {c.key} : m[j] = outputQueues[j] /\ m[j] # q
    BY <1>1, <1>9, <2>1 DEF IInv, Heap, Typed, TypeOK
  <2>4. ~r.closed
    BY <1>1, <1>4, <1>9, <2>1 DEF IInv, Heap
  <2>5. \A v \in Inside(q) : call[v].key = c.key
    BY <1>1, <1>9, <2>1, <2>4, <1>4 DEF IInv, Heap, Inside, Typed, CallsTyped, Call
  <2> HIDE DEF m, r0
  <2>6. Section(w, q, r, m)
    <3>1. SectionTyped(w, q, r, m)
      BY <1>1, <1>4, <1>5, <1>7 DEF SectionTyped
    <3>2. SectionMap(c.key, q, r, m)
      BY <1>4, <1>7, <2>1, <2>3, <2>4 DEF SectionMap
    <3>3. SectionInside(w, q, r, m)
      BY <1>6, <2>2, <2>5 DEF SectionInside
    <3> QED BY <3>1, <3>2, <3>3 DEF Section
  <2> QED BY <1>2, <2>6
<1> QED BY <1>8, <1>9

\* A writer that was signalled runs the rest of its critical section likewise.
LEMMA ResumeSection ==
  ASSUME IInv, NEW w \in Writers, NEW q \in Queues, Resume(w, q)
  PROVE  \E r, m : Section(w, q, r, m) /\ TryAppend(w, q, r, m)
<1> DEFINE c == call[w]
           r == [queue[q] EXCEPT !.writers = @ - 1]
           m == outputQueues
<1>1. pc[w] = "woken" /\ held[w] = q /\ c \in Call /\ c.key \in Keys
  BY DEF Resume, IInv, Typed, CallsTyped, Call
<1>2. TryAppend(w, q, r, m)
  BY DEF Resume
<1>3. queue[q] \in QueueRecord /\ Accounted(queue[q]) /\ Bounded(queue[q])
  BY DEF IInv, Typed, TypeOK, Accounts
<1>4. w \in Inside(q) /\ \A x \in Queues \ {q} : w \notin Inside(x)
  BY <1>1 DEF Inside
<1>5. /\ Cardinality(Inside(q)) = queue[q].writers
      /\ Cardinality(Inside(q) \ {w}) = queue[q].writers - 1
      /\ Cardinality(Inside(q) \ {w}) \in Nat
  <2>1. Cardinality(Inside(q)) = queue[q].writers
    BY DEF IInv, Heap
  <2>2. IsFiniteSet(Inside(q)) /\ IsFiniteSet(Inside(q) \ {w})
    BY InsideFinite, FS_RemoveElement
  <2>3. Cardinality(Inside(q) \ {w}) = Cardinality(Inside(q)) - 1
    BY <1>4, <2>2, FS_RemoveElement
  <2> QED BY <2>1, <2>2, <2>3, FS_CardinalityType
<1>6. /\ r \in QueueRecord /\ r.items = queue[q].items /\ r.bytes = queue[q].bytes
      /\ r.active = queue[q].active /\ r.closed = queue[q].closed
      /\ r.writers = Cardinality(Inside(q) \ {w})
  BY <1>3, <1>5 DEF QueueRecord
<1> HIDE DEF r
<1>7. Accounted(r) /\ Bounded(r)
  BY <1>3, <1>6 DEF Accounted, RunningSum, Bounded
<1>8. m \in [Keys -> Queues \cup {NoQueue}]
  BY DEF IInv, Typed, TypeOK
<1>9. \A k \in Keys : m[k] = q => ~r.closed
  BY <1>6, NoQueueAssumption DEF IInv, Heap
<1>10. m[c.key] = q \/ r.closed
  BY <1>1, <1>6 DEF IInv, Heap
<1>11. \A j \in Keys \ {c.key} : m[j] # q
  <2> SUFFICES ASSUME NEW j \in Keys \ {c.key}, m[j] = q PROVE FALSE
    OBVIOUS
  <2>1. m[c.key] = q
    BY <1>9, <1>10
  <2> QED BY <1>1, <2>1, NoQueueAssumption DEF IInv, Heap
<1>12. \A v \in Inside(q) : call[v].key = c.key \/ m[c.key] # q
  <2> SUFFICES ASSUME NEW v \in Inside(q), m[c.key] = q PROVE call[v].key = c.key
    OBVIOUS
  <2>1. call[v].key \in Keys /\ outputQueues[call[v].key] = q
    BY <1>1, <1>6, <1>9 DEF Inside, IInv, Heap, Typed, CallsTyped, Call
  <2> QED BY <1>1, <2>1, NoQueueAssumption DEF IInv, Heap
<1> HIDE DEF m
<1>13. m = outputQueues
  BY DEF m
<1>14. Section(w, q, r, m)
  <2>1. SectionTyped(w, q, r, m)
    BY <1>1, <1>6, <1>7, <1>8 DEF SectionTyped
  <2>2. SectionMap(c.key, q, r, m)
    BY <1>1, <1>6, <1>9, <1>10, <1>11, <1>13 DEF SectionMap
  <2>3. SectionInside(w, q, r, m)
    BY <1>4, <1>6, <1>12 DEF SectionInside
  <2> QED BY <2>1, <2>2, <2>3 DEF Section
<1> QED BY <1>2, <1>14

-----------------------------------------------------------------------------
(* The critical section preserves the invariant: the append.               *)

\* The goroutines inside a queue after w has left it.
LEMMA LeaveInside ==
  ASSUME Typed, NEW w \in Writers, NEW s \in {"idle", "notify"},
         pc' = [pc EXCEPT ![w] = s], held' = [held EXCEPT ![w] = NoQueue]
  PROVE  \A x : Inside(x)' = Inside(x) \ {w}
BY DEF Inside, Typed, TypeOK

LEMMA AppendPreserves ==
  ASSUME IInv, NEW w \in Writers, NEW q, NEW r, NEW m, Section(w, q, r, m),
         AppendItem(w, q, r, m),
         UNCHANGED <<generation, rrIndex, outputReady, clearing, ctxDone>>
  PROVE  IInv'
<1> DEFINE c == call[w]
           k == call[w].key
           it == ItemOf(call[w])
           o == Push(r, it)
<1>1. /\ q \in Queues /\ r \in QueueRecord /\ m \in [Keys -> Queues \cup {NoQueue}]
      /\ c \in Call /\ k \in Keys /\ pc[w] \in {"enter", "woken"}
      /\ Accounted(r) /\ Bounded(r)
  BY DEF Section, SectionTyped, Call
<1>2. ~r.closed /\ c.gen = generation /\ ~WouldBlock(r, c.size)
  BY DEF AppendItem, Rejected
<1>3. SectionMap(k, q, r, m) /\ SectionInside(w, q, r, m)
  BY DEF Section
<1>4. m[k] = q /\ \A j \in Keys \ {k} : m[j] = outputQueues[j] /\ m[j] # q
  BY <1>2, <1>3 DEF SectionMap
<1>5. it \in Item /\ it.size = c.size /\ it.gen = generation
  BY <1>1, <1>2 DEF ItemOf, Item, Call
<1>6. /\ o \in QueueRecord /\ Accounted(o) /\ Bounded(o)
  BY <1>1, <1>2, <1>5, PushObject
<1>7. /\ o.items = Append(r.items, it) /\ o.active /\ ~o.closed /\ o.writers = r.writers
      /\ r.items \in Seq(Item) /\ o.items # <<>>
  <2>1. r.items \in Seq(Item)
    BY <1>1 DEF QueueRecord
  <2>2. o.items = Append(r.items, it) /\ o.active /\ ~o.closed /\ o.writers = r.writers
    BY <1>1, <1>2 DEF Push, QueueRecord
  <2> QED BY <1>5, <2>1, <2>2
<1>8. /\ queue' = [queue EXCEPT ![q] = o]
      /\ outputQueues' = m
      /\ activeOutputs' = IF r.active THEN activeOutputs
                          ELSE [activeOutputs EXCEPT ![r.priority] = Append(@, k)]
      /\ pc' = [pc EXCEPT ![w] = "notify"]
      /\ call' = [call EXCEPT ![w] = NoCall]
      /\ held' = [held EXCEPT ![w] = NoQueue]
      /\ UNCHANGED completed
  BY DEF AppendItem
<1> HIDE DEF o, it, c, k
<1>9. Typed /\ Heap /\ Accounts /\ Lists /\ Fresh /\ NoLostWakeup /\ DrainedQueueIsDeleted
  BY DEF IInv
<1>10. queue'[q] = o /\ \A x \in Queues \ {q} : queue'[x] = queue[x]
  BY <1>1, <1>8, <1>9 DEF Typed, TypeOK
<1>11. \A x : Inside(x)' = Inside(x) \ {w}
  BY <1>8, <1>9, LeaveInside
<1>12. \A j \in Keys \ {k} : outputQueues'[j] = outputQueues[j] /\ outputQueues'[j] # q
  BY <1>4, <1>8
<1>13. outputQueues'[k] = q
  BY <1>4, <1>8
<1>14. Typed'
  <2>1. activeOutputs' \in [Priorities -> Seq(Keys)]
    BY <1>1, <1>8, <1>9 DEF Typed, TypeOK, QueueRecord
  <2>2. TypeOK'
    BY <1>1, <1>6, <1>8, <1>9, <2>1 DEF Typed, TypeOK
  <2>3. CallsTyped'
    BY <1>8, <1>9 DEF Typed, TypeOK, CallsTyped
  <2> QED BY <2>2, <2>3 DEF Typed
<1>15. Accounts'
  BY <1>6, <1>9, <1>10 DEF Accounts
<1>16. Heap'
  <2>1. \A i, j \in Keys : outputQueues'[i] = outputQueues'[j] /\ outputQueues'[i] # NoQueue => i = j
    BY <1>9, <1>12, <1>13 DEF Heap
  <2>2. \A j \in Keys : outputQueues'[j] # NoQueue => ~queue'[outputQueues'[j]].closed
    BY <1>7, <1>9, <1>10, <1>12, <1>13 DEF Heap, Typed, TypeOK
  <2>3. ASSUME NEW v \in Writers, pc'[v] \in {"waiting", "woken"}
        PROVE  /\ v # w /\ pc[v] = pc'[v] /\ held'[v] = held[v] /\ call'[v] = call[v]
               /\ held[v] \in Queues /\ call[v].key \in Keys /\ v \in Inside(held[v])
    BY <1>8, <1>9, <2>3 DEF Typed, TypeOK, CallsTyped, Call, Inside
  <2>4. ASSUME NEW v \in Writers, pc'[v] \in {"waiting", "woken"}, held[v] = q
        PROVE  outputQueues'[call'[v].key] = q
    <3>1. call[v].key = k
      BY <1>3, <1>4, <2>3, <2>4 DEF SectionInside, k
    <3> QED BY <1>13, <2>3, <2>4, <3>1
  <2>5. ASSUME NEW v \in Writers, pc'[v] \in {"waiting", "woken"}, held[v] # q,
               outputQueues[call[v].key] = held[v]
        PROVE  outputQueues'[call'[v].key] = held'[v]
    <3>1. call[v].key # k
      <4> SUFFICES ASSUME call[v].key = k PROVE FALSE
        OBVIOUS
      <4>1. outputQueues[k] # NoQueue
        BY <2>3, <2>5, NoQueueAssumption
      <4> QED BY <1>3, <1>4, <2>5, <4>1 DEF SectionMap
    <3> QED BY <1>12, <2>3, <2>5, <3>1
  <2>6. \A v \in Writers : pc'[v] = "waiting" => outputQueues'[call'[v].key] = held'[v]
    BY <1>9, <2>3, <2>4, <2>5 DEF Heap
  <2>7. \A v \in Writers : pc'[v] = "woken" =>
           outputQueues'[call'[v].key] = held'[v] \/ queue'[held'[v]].closed
    BY <1>9, <1>10, <2>3, <2>4, <2>5 DEF Heap
  <2>8. \A x \in Queues : queue'[x].writers = Cardinality(Inside(x)')
    <3>1. queue'[q].writers = Cardinality(Inside(q)')
      BY <1>3, <1>7, <1>10, <1>11 DEF SectionInside
    <3>2. ASSUME NEW x \in Queues \ {q} PROVE queue'[x].writers = Cardinality(Inside(x)')
      <4>1. Inside(x)' = Inside(x)
        BY <1>3, <1>11 DEF SectionInside
      <4> QED BY <1>9, <1>10, <4>1 DEF Heap
    <3> QED BY <3>1, <3>2
  <2> QED BY <2>1, <2>2, <2>6, <2>7, <2>8 DEF Heap
<1>17. Lists'
  <2>1. \A j \in Keys : outputQueues'[j] # NoQueue =>
          (queue'[outputQueues'[j]].active <=> queue'[outputQueues'[j]].items # <<>>)
    BY <1>7, <1>9, <1>10, <1>12, <1>13 DEF Lists, Typed, TypeOK
  <2>2. \A p \in Priorities :
          Len(activeOutputs'[p]) \in Nat /\ Len(activeOutputs'[p]) >= Len(activeOutputs[p])
    BY <1>1, <1>8, <1>9 DEF Typed, TypeOK, QueueRecord
  <2>3. \A p \in Priorities : rrIndex'[p] = 0 \/ rrIndex'[p] < Len(activeOutputs'[p])
    BY <1>9, <2>2 DEF Lists, Typed, TypeOK
  <2>4. ASSUME NEW p \in Priorities, NEW i \in DOMAIN activeOutputs[p]
        PROVE  i \in DOMAIN activeOutputs'[p] /\ activeOutputs'[p][i] = activeOutputs[p][i]
    BY <1>1, <1>8, <1>9 DEF Typed, TypeOK, QueueRecord
  <2>5. ASSUME NEW p \in Priorities, NEW i \in DOMAIN activeOutputs'[p]
        PROVE  \/ i \in DOMAIN activeOutputs[p] /\ activeOutputs'[p][i] = activeOutputs[p][i]
               \/ /\ ~r.active /\ p = r.priority
                  /\ i = Len(activeOutputs[p]) + 1 /\ activeOutputs'[p][i] = k
    BY <1>1, <1>8, <1>9 DEF Typed, TypeOK, QueueRecord
  <2>6. ASSUME ~r.active, NEW p \in Priorities, NEW i \in DOMAIN activeOutputs[p]
        PROVE  activeOutputs[p][i] # k
    BY <1>3, <1>4, <1>9, <2>6 DEF SectionMap, Lists, ActiveEntriesHaveItems
  <2>7. ASSUME NEW p \in Priorities, NEW i \in DOMAIN activeOutputs[p]
        PROVE  activeOutputs[p][i] \in Keys
    BY <1>9 DEF Typed, TypeOK
  <2>8. ASSUME NEW p \in Priorities, NEW i \in DOMAIN activeOutputs'[p]
        PROVE  LET x == outputQueues'[activeOutputs'[p][i]] IN
               x # NoQueue /\ queue'[x].items # <<>> /\ queue'[x].active
    <3>1. CASE activeOutputs'[p][i] = k
      BY <1>1, <1>7, <1>10, <1>13, <3>1, NoQueueAssumption
    <3>2. CASE activeOutputs'[p][i] # k
      <4> DEFINE j == activeOutputs'[p][i]
      <4>1. i \in DOMAIN activeOutputs[p] /\ j = activeOutputs[p][i] /\ j \in Keys \ {k}
        BY <2>5, <2>7, <3>2
      <4>2. /\ outputQueues[j] # NoQueue /\ queue[outputQueues[j]].items # <<>>
            /\ queue[outputQueues[j]].active
        BY <1>9, <4>1 DEF Lists, ActiveEntriesHaveItems
      <4> HIDE DEF j
      <4>3. outputQueues'[j] = outputQueues[j] /\ outputQueues'[j] \in Queues \ {q}
        BY <1>9, <1>12, <4>1, <4>2 DEF Typed, TypeOK
      <4> QED BY <1>10, <4>2, <4>3 DEF j
    <3> QED BY <3>1, <3>2
  <2>9. ASSUME NEW j \in Keys, outputQueues'[j] # NoQueue, queue'[outputQueues'[j]].items # <<>>
        PROVE  \E p \in Priorities : \E i \in DOMAIN activeOutputs'[p] : activeOutputs'[p][i] = j
    <3>1. CASE j = k /\ ~r.active
      <4> DEFINE p == r.priority
                 i == Len(activeOutputs[r.priority]) + 1
      <4>1. p \in Priorities /\ i \in DOMAIN activeOutputs'[p] /\ activeOutputs'[p][i] = k
        BY <1>1, <1>8, <1>9, <3>1 DEF Typed, TypeOK, QueueRecord
      <4> QED BY <3>1, <4>1
    <3>2. CASE j = k /\ r.active
      <4>1. outputQueues[k] = q /\ queue[q].active
        BY <1>3, <1>4, <3>2 DEF SectionMap
      <4>2. q # NoQueue /\ queue[q].items # <<>>
        BY <1>1, <1>9, <4>1, NoQueueAssumption DEF Lists
      <4> QED BY <1>1, <1>9, <2>4, <3>2, <4>1, <4>2 DEF Lists, ActiveEntriesHaveItems
    <3>3. CASE j # k
      <4>1. outputQueues[j] = outputQueues'[j] /\ outputQueues[j] \in Queues \ {q}
        BY <1>9, <1>12, <2>9, <3>3 DEF Typed, TypeOK
      <4>2. queue[outputQueues[j]].items # <<>>
        BY <1>10, <2>9, <4>1
      <4> QED BY <1>9, <2>4, <2>9, <4>1, <4>2 DEF Lists, ActiveEntriesHaveItems
    <3> QED BY <3>1, <3>2, <3>3
  <2>10. ASSUME NEW p \in Priorities, NEW p2 \in Priorities,
                NEW i \in DOMAIN activeOutputs'[p], NEW j \in DOMAIN activeOutputs'[p2],
                activeOutputs'[p][i] = activeOutputs'[p2][j]
         PROVE  p = p2 /\ i = j
    <3>1. CASE i \in DOMAIN activeOutputs[p] /\ j \in DOMAIN activeOutputs[p2]
      BY <1>9, <2>4, <2>10, <3>1 DEF Lists, ActiveEntriesHaveItems
    <3>2. CASE i \notin DOMAIN activeOutputs[p] \/ j \notin DOMAIN activeOutputs[p2]
      BY <2>5, <2>6, <2>10, <3>2
    <3> QED BY <3>1, <3>2
  <2>11. ActiveEntriesHaveItems'
    BY <2>8, <2>9, <2>10 DEF ActiveEntriesHaveItems
  <2> QED BY <2>1, <2>3, <2>11 DEF Lists
<1>18. Fresh'
  <2>1. ASSUME clearing' = {}, NEW j \in Keys, outputQueues'[j] # NoQueue,
               NEW i \in DOMAIN queue'[outputQueues'[j]].items
        PROVE  queue'[outputQueues'[j]].items[i].gen = generation'
    <3>1. CASE j # k
      <4>1. outputQueues[j] = outputQueues'[j] /\ outputQueues[j] \in Queues \ {q}
        BY <1>9, <1>12, <2>1, <3>1 DEF Typed, TypeOK
      <4>2. queue'[outputQueues'[j]] = queue[outputQueues[j]]
        BY <1>10, <4>1
      <4> QED BY <1>9, <2>1, <4>1, <4>2 DEF Fresh, NoStaleItems
    <3>2. CASE j = k
      <4>1. queue'[outputQueues'[j]].items = Append(r.items, it)
        BY <1>7, <1>10, <1>13, <3>2
      <4>2. CASE i = Len(r.items) + 1
        BY <1>5, <1>7, <4>1, <4>2
      <4>3. CASE i # Len(r.items) + 1
        <5>1. i \in 1 .. Len(r.items) /\ Append(r.items, it)[i] = r.items[i]
          BY <1>5, <1>7, <2>1, <4>1, <4>3
        <5>2. outputQueues[k] = q /\ r.items = queue[q].items
          BY <1>3, <1>4, <5>1 DEF SectionMap
        <5>3. DOMAIN r.items = 1 .. Len(r.items)
          BY <1>7
        <5> QED BY <1>1, <1>9, <2>1, <4>1, <5>1, <5>2, <5>3, NoQueueAssumption
                DEF Fresh, NoStaleItems
      <4> QED BY <4>2, <4>3
    <3> QED BY <3>1, <3>2
  <2>2. ASSUME NEW v \in Writers, pc'[v] \in {"waiting", "woken"},
               outputQueues'[call'[v].key] = held'[v]
        PROVE  call'[v].gen = generation' \/ clearing' # {}
    <3>1. /\ v # w /\ pc[v] = pc'[v] /\ held'[v] = held[v] /\ call'[v] = call[v]
          /\ held[v] \in Queues /\ call[v].key \in Keys /\ v \in Inside(held[v])
      BY <1>8, <1>9, <2>2 DEF Typed, TypeOK, CallsTyped, Call, Inside
    <3>2. outputQueues[call[v].key] = held[v]
      <4>1. CASE call[v].key = k
        BY <1>3, <1>4, <1>13, <2>2, <3>1, <4>1 DEF SectionMap
      <4>2. CASE call[v].key # k
        BY <1>12, <2>2, <3>1, <4>2
      <4> QED BY <4>1, <4>2
    <3> QED BY <1>9, <2>2, <3>1, <3>2 DEF Fresh
  <2> QED BY <2>1, <2>2 DEF Fresh, NoStaleItems
<1>19. NoLostWakeup'
  <2>0. ASSUME NEW v \in Writers, pc'[v] = "waiting"
        PROVE  /\ \E j \in Keys : outputQueues'[j] = held'[v]
               /\ \/ queue'[held'[v]].items # <<>>
                  \/ \E u \in Writers : pc'[u] = "woken" /\ held'[u] = held'[v]
                  \/ clearing' # {}
                  \/ ctxDone'
    <3>1. /\ v # w /\ pc[v] = "waiting" /\ held'[v] = held[v] /\ call'[v] = call[v]
          /\ held[v] \in Queues /\ call[v].key \in Keys
      BY <1>8, <1>9, <2>0 DEF Typed, TypeOK, CallsTyped, Call
    <3>2. \E j \in Keys : outputQueues'[j] = held'[v]
      BY <1>16, <2>0, <3>1 DEF Heap
    <3>3. CASE held[v] = q
      BY <1>7, <1>10, <3>1, <3>2, <3>3
    <3>4. CASE held[v] # q
      <4>1. queue'[held[v]] = queue[held[v]]
        BY <1>10, <3>1, <3>4
      <4>2. ASSUME NEW u \in Writers, pc[u] = "woken", held[u] = held[v]
            PROVE  pc'[u] = "woken" /\ held'[u] = held'[v]
        <5>1. u # w
          BY <1>3, <3>1, <3>4, <4>2 DEF SectionInside, Inside
        <5> QED BY <1>8, <1>9, <3>1, <4>2, <5>1 DEF Typed, TypeOK
      <4>3. \/ queue[held[v]].items # <<>>
            \/ \E u \in Writers : pc[u] = "woken" /\ held[u] = held[v]
            \/ clearing # {}
            \/ ctxDone
        BY <1>9, <3>1 DEF NoLostWakeup
      <4> QED BY <3>1, <3>2, <4>1, <4>2, <4>3
    <3> QED BY <3>3, <3>4
  <2> QED BY <2>0 DEF NoLostWakeup, Mapped
<1>20. DrainedQueueIsDeleted'
  BY <1>7, <1>9, <1>10, <1>12, <1>13 DEF DrainedQueueIsDeleted, Drained, Typed, TypeOK
<1> QED BY <1>14, <1>15, <1>16, <1>17, <1>18, <1>19, <1>20 DEF IInv

-----------------------------------------------------------------------------
(* The critical section preserves the invariant: the wait.                 *)

\* A step that changes neither the active lists nor which sessions have items
\* leaves the lists right.
LEMMA ListsFrame ==
  ASSUME Lists, UNCHANGED activeOutputs,
         \A p \in Priorities : activeOutputs[p] \in Seq(Keys),
         \A p \in Priorities : rrIndex'[p] = 0 \/ rrIndex'[p] < Len(activeOutputs[p]),
         \A k \in Keys :
           outputQueues[k] # NoQueue /\ queue[outputQueues[k]].items # <<>> <=>
             outputQueues'[k] # NoQueue /\ queue'[outputQueues'[k]].items # <<>>,
         \A k \in Keys : outputQueues'[k] # NoQueue =>
           (queue'[outputQueues'[k]].active <=> queue'[outputQueues'[k]].items # <<>>)
  PROVE  Lists'
<1>1. \A p \in Priorities : \A i \in DOMAIN activeOutputs[p] : activeOutputs[p][i] \in Keys
  OBVIOUS
<1>2. \A p \in Priorities : \A i \in DOMAIN activeOutputs'[p] :
        /\ outputQueues'[activeOutputs'[p][i]] # NoQueue
        /\ queue'[outputQueues'[activeOutputs'[p][i]]].items # <<>>
        /\ queue'[outputQueues'[activeOutputs'[p][i]]].active
  BY <1>1 DEF Lists, ActiveEntriesHaveItems
<1>3. \A k \in Keys :
        outputQueues'[k] # NoQueue /\ queue'[outputQueues'[k]].items # <<>> =>
          \E p \in Priorities : \E i \in DOMAIN activeOutputs'[p] : activeOutputs'[p][i] = k
  BY DEF Lists, ActiveEntriesHaveItems
<1>4. \A p \in Priorities : rrIndex'[p] = 0 \/ rrIndex'[p] < Len(activeOutputs'[p])
  OBVIOUS
<1>5. \A p, r \in Priorities :
        \A i \in DOMAIN activeOutputs'[p], j \in DOMAIN activeOutputs'[r] :
          activeOutputs'[p][i] = activeOutputs'[r][j] => p = r /\ i = j
  BY DEF Lists, ActiveEntriesHaveItems
<1> QED BY <1>2, <1>3, <1>4, <1>5 DEF Lists, ActiveEntriesHaveItems

\* A step that queues nothing, and that no writer of an older generation uses
\* to get at a queue of the map, leaves the queues fresh.
LEMMA FreshFrame ==
  ASSUME Fresh, UNCHANGED <<generation, clearing>>,
         \A k \in Keys : outputQueues'[k] # NoQueue =>
           \/ queue'[outputQueues'[k]].items = <<>>
           \/ /\ outputQueues[k] # NoQueue
              /\ queue'[outputQueues'[k]].items = queue[outputQueues[k]].items,
         \A v \in Writers :
           pc'[v] \in {"waiting", "woken"} /\ outputQueues'[call'[v].key] = held'[v] =>
             \/ call'[v].gen = generation
             \/ /\ pc[v] \in {"waiting", "woken"} /\ call'[v] = call[v]
                /\ outputQueues[call[v].key] = held[v]
  PROVE  Fresh'
<1>1. DOMAIN <<>> = {}
  OBVIOUS
<1>2. ASSUME clearing = {}, NEW k \in Keys, outputQueues'[k] # NoQueue,
             NEW i \in DOMAIN queue'[outputQueues'[k]].items
      PROVE  queue'[outputQueues'[k]].items[i].gen = generation
  BY <1>1, <1>2 DEF Fresh, NoStaleItems
<1>3. \A v \in Writers :
        pc'[v] \in {"waiting", "woken"} /\ outputQueues'[call'[v].key] = held'[v] =>
          call'[v].gen = generation' \/ clearing' # {}
  BY DEF Fresh
<1> QED BY <1>2, <1>3 DEF Fresh, NoStaleItems

\* Only an object with items makes a writer wait.
LEMMA BlockedObject ==
  ASSUME NEW r \in QueueRecord, Accounted(r), NEW n \in Nat, WouldBlock(r, n)
  PROVE  r.items # <<>>
<1> SUFFICES ASSUME r.items = <<>> PROVE FALSE
  OBVIOUS
<1>1. r.bytes = 0 /\ Len(r.items) = 0
  BY EmptyObject
<1> QED BY <1>1, BoundsAssumption DEF WouldBlock

LEMMA WaitPreserves ==
  ASSUME IInv, NEW w \in Writers, NEW q, NEW r, NEW m, Section(w, q, r, m),
         WaitForRoom(w, q, r, m),
         UNCHANGED <<generation, rrIndex, outputReady, clearing, ctxDone>>
  PROVE  IInv'
<1> DEFINE c == call[w]
           k == call[w].key
           o == [r EXCEPT !.writers = @ + 1]
<1>1. /\ q \in Queues /\ r \in QueueRecord /\ m \in [Keys -> Queues \cup {NoQueue}]
      /\ c \in Call /\ k \in Keys /\ pc[w] \in {"enter", "woken"}
      /\ Accounted(r) /\ Bounded(r) /\ c.size \in Nat
  BY BoundsAssumption DEF Section, SectionTyped, Call
<1>2. ~r.closed /\ c.gen = generation /\ r.items # <<>>
  BY <1>1, BlockedObject DEF WaitForRoom, Rejected
<1>3. SectionMap(k, q, r, m) /\ SectionInside(w, q, r, m)
  BY DEF Section
<1>4. Typed /\ Heap /\ Accounts /\ Lists /\ Fresh /\ NoLostWakeup /\ DrainedQueueIsDeleted
  BY DEF IInv
<1>5. outputQueues[k] = q /\ r.items = queue[q].items /\ r.active = queue[q].active
  BY <1>2, <1>3 DEF SectionMap
<1>6. m = outputQueues
  <2>1. \A j \in Keys : m[j] = outputQueues[j]
    BY <1>2, <1>3, <1>5 DEF SectionMap
  <2> QED BY <1>1, <1>4, <2>1 DEF Typed, TypeOK
<1>7. /\ o \in QueueRecord /\ o.items = r.items /\ o.bytes = r.bytes /\ o.active = r.active
      /\ o.closed = r.closed /\ o.writers = r.writers + 1
      /\ o.drainWhenEmpty = r.drainWhenEmpty
  BY <1>1 DEF QueueRecord
<1>8. /\ queue' = [queue EXCEPT ![q] = o]
      /\ outputQueues' = outputQueues
      /\ pc' = [pc EXCEPT ![w] = "waiting"]
      /\ held' = [held EXCEPT ![w] = q]
      /\ UNCHANGED <<completed, activeOutputs, call>>
  BY <1>6 DEF WaitForRoom
<1> HIDE DEF o, c, k
<1>9. queue'[q] = o /\ \A x \in Queues \ {q} : queue'[x] = queue[x]
  BY <1>1, <1>4, <1>8 DEF Typed, TypeOK
<1>10. \A v \in Writers \ {w} : pc'[v] = pc[v] /\ held'[v] = held[v] /\ call'[v] = call[v]
  BY <1>4, <1>8 DEF Typed, TypeOK
<1>11. pc'[w] = "waiting" /\ held'[w] = q /\ call'[w] = c
  BY <1>4, <1>8 DEF Typed, TypeOK, c
<1>12. Typed'
  <2>1. TypeOK'
    BY <1>1, <1>4, <1>7, <1>8 DEF Typed, TypeOK
  <2>2. CallsTyped'
    BY <1>1, <1>4, <1>10, <1>11 DEF Typed, CallsTyped
  <2> QED BY <2>1, <2>2 DEF Typed
<1>13. Accounts'
  <2>1. Accounted(o) /\ Bounded(o)
    BY <1>1, <1>7 DEF Accounted, RunningSum, Bounded
  <2> QED BY <1>4, <1>9, <2>1 DEF Accounts
<1>14. Heap'
  <2>1. \A j \in Keys : outputQueues[j] # NoQueue => ~queue'[outputQueues[j]].closed
    BY <1>2, <1>4, <1>7, <1>9 DEF Heap, Typed, TypeOK
  <2>2. \A v \in Writers : pc'[v] = "waiting" => outputQueues'[call'[v].key] = held'[v]
    BY <1>4, <1>5, <1>8, <1>10, <1>11 DEF Heap, k, c
  <2>3. ASSUME NEW v \in Writers, pc'[v] = "woken"
        PROVE  outputQueues'[call'[v].key] = held'[v] \/ queue'[held'[v]].closed
    <3>1. v # w /\ pc[v] = "woken" /\ held[v] \in Queues
      BY <1>4, <1>10, <1>11, <2>3 DEF Typed, CallsTyped
    <3>2. outputQueues[call[v].key] = held[v] \/ queue[held[v]].closed
      BY <1>4, <3>1 DEF Heap
    <3>3. ~queue[q].closed
      BY <1>1, <1>4, <1>5, NoQueueAssumption DEF Heap, k
    <3> QED BY <1>8, <1>9, <1>10, <3>1, <3>2, <3>3
  <2>4. \A x \in Queues \ {q} : Inside(x)' = Inside(x)
    <3>1. \A x \in Queues \ {q} : w \notin Inside(x)
      BY <1>3 DEF SectionInside
    <3> QED BY <1>10, <1>11, <3>1 DEF Inside
  <2>5. Cardinality(Inside(q)') = Cardinality(Inside(q) \ {w}) + 1
    <3>1. Inside(q)' = (Inside(q) \ {w}) \cup {w}
      BY <1>10, <1>11 DEF Inside
    <3>2. IsFiniteSet(Inside(q) \ {w})
      BY InsideFinite, FS_RemoveElement
    <3> HIDE DEF Inside
    <3> DEFINE S == Inside(q) \ {w}
    <3>3. w \notin S /\ IsFiniteSet(S)
      BY <3>2
    <3> HIDE DEF S
    <3>4. Cardinality(S \cup {w}) = Cardinality(S) + 1
      BY <3>3, FS_AddElement
    <3> QED BY <3>1, <3>4 DEF S
  <2>6. ASSUME NEW x \in Queues PROVE queue'[x].writers = Cardinality(Inside(x)')
    <3>1. CASE x = q
      BY <1>3, <1>7, <1>9, <2>5, <3>1 DEF SectionInside
    <3>2. CASE x # q
      BY <1>4, <1>9, <2>4, <3>2 DEF Heap
    <3> QED BY <3>1, <3>2
  <2>7. \A i, j \in Keys : outputQueues'[i] = outputQueues'[j] /\ outputQueues'[i] # NoQueue => i = j
    BY <1>4, <1>8 DEF Heap
  <2> QED BY <1>8, <2>1, <2>2, <2>3, <2>6, <2>7 DEF Heap
<1>15. \A j \in Keys : outputQueues[j] # NoQueue =>
         /\ queue'[outputQueues[j]].items = queue[outputQueues[j]].items
         /\ queue'[outputQueues[j]].active = queue[outputQueues[j]].active
  BY <1>4, <1>5, <1>7, <1>9 DEF Typed, TypeOK
<1>16. Lists'
  <2>1. \A j \in Keys : outputQueues[j] # NoQueue =>
          (queue'[outputQueues[j]].active <=> queue'[outputQueues[j]].items # <<>>)
    BY <1>4, <1>15 DEF Lists
  <2> QED BY <1>4, <1>8, <1>15, <2>1, ListsFrame DEF Typed, TypeOK, Lists
<1>17. Fresh'
  <2>1. \A v \in Writers :
           pc'[v] \in {"waiting", "woken"} /\ outputQueues'[call'[v].key] = held'[v] =>
             \/ call'[v].gen = generation
             \/ /\ pc[v] \in {"waiting", "woken"} /\ call'[v] = call[v]
                /\ outputQueues[call[v].key] = held[v]
    BY <1>2, <1>8, <1>10, <1>11
  <2> QED BY <1>4, <1>8, <1>15, <2>1, FreshFrame
<1>18. NoLostWakeup'
  <2>1. ASSUME NEW v \in Writers, pc'[v] = "waiting"
        PROVE  /\ \E j \in Keys : outputQueues'[j] = held'[v]
               /\ \/ queue'[held'[v]].items # <<>>
                  \/ \E u \in Writers : pc'[u] = "woken" /\ held'[u] = held'[v]
                  \/ clearing' # {}
                  \/ ctxDone'
    <3>1. CASE held'[v] = q
      BY <1>1, <1>2, <1>5, <1>7, <1>8, <1>9, <3>1 DEF k
    <3>2. CASE held'[v] # q
      <4>1. v # w /\ pc[v] = "waiting" /\ held[v] = held'[v] /\ held[v] \in Queues \ {q}
        BY <1>4, <1>10, <1>11, <2>1, <3>2 DEF Typed, CallsTyped
      <4>2. queue'[held[v]] = queue[held[v]]
        BY <1>9, <4>1
      <4>3. /\ \E j \in Keys : outputQueues[j] = held[v]
            /\ \/ queue[held[v]].items # <<>>
               \/ \E u \in Writers : pc[u] = "woken" /\ held[u] = held[v]
               \/ clearing # {}
               \/ ctxDone
        BY <1>4, <4>1 DEF NoLostWakeup, Mapped
      <4>4. ASSUME NEW u \in Writers, pc[u] = "woken", held[u] = held[v]
            PROVE  pc'[u] = "woken" /\ held'[u] = held[v]
        <5>1. u # w
          BY <1>3, <4>1, <4>4 DEF SectionInside, Inside
        <5> QED BY <1>10, <4>4, <5>1
      <4> QED BY <1>8, <4>1, <4>2, <4>3, <4>4
    <3> QED BY <3>1, <3>2
  <2> QED BY <2>1 DEF NoLostWakeup, Mapped
<1>19. DrainedQueueIsDeleted'
  <2>1. ~Drained(o)
    BY <1>2, <1>7 DEF Drained
  <2>2. \A j \in Keys : outputQueues[j] # NoQueue => ~Drained(queue'[outputQueues[j]])
    BY <1>4, <1>9, <2>1 DEF DrainedQueueIsDeleted, Typed, TypeOK
  <2> QED BY <1>8, <2>2 DEF DrainedQueueIsDeleted
<1> QED BY <1>12, <1>13, <1>14, <1>16, <1>17, <1>18, <1>19 DEF IInv

-----------------------------------------------------------------------------
(* The critical section preserves the invariant: the writer gives up.      *)

LEMMA GiveUpPreserves ==
  ASSUME IInv, NEW w \in Writers, NEW q, NEW r, NEW m, Section(w, q, r, m),
         GiveUp(w, q, r, m),
         UNCHANGED <<generation, rrIndex, outputReady, clearing, ctxDone>>
  PROVE  IInv'
<1> DEFINE c == call[w]
           k == call[w].key
           o == queue'[q]
           Others == Inside(q) \ {w}
<1>1. /\ q \in Queues /\ r \in QueueRecord /\ m \in [Keys -> Queues \cup {NoQueue}]
      /\ c \in Call /\ k \in Keys /\ pc[w] \in {"enter", "woken"}
      /\ Accounted(r) /\ Bounded(r)
  BY DEF Section, SectionTyped, Call
<1>2. SectionMap(k, q, r, m) /\ SectionInside(w, q, r, m)
  BY DEF Section
<1>3. Typed /\ Heap /\ Accounts /\ Lists /\ Fresh /\ NoLostWakeup /\ DrainedQueueIsDeleted
  BY DEF IInv
<1>4. /\ r.closed \/ c.gen # generation \/ ctxDone
      /\ Release(k, q, r, m)
      /\ pc' = [pc EXCEPT ![w] = "idle"]
      /\ call' = [call EXCEPT ![w] = NoCall]
      /\ held' = [held EXCEPT ![w] = NoQueue]
      /\ UNCHANGED activeOutputs
  BY DEF GiveUp, Rejected
<1>5. \A v \in Writers \ {w} : pc'[v] = pc[v] /\ held'[v] = held[v] /\ call'[v] = call[v]
  BY <1>3, <1>4 DEF Typed, TypeOK
<1>6. pc'[w] = "idle"
  BY <1>3, <1>4 DEF Typed, TypeOK
<1>7. \A x : Inside(x)' = Inside(x) \ {w}
  BY <1>3, <1>4, LeaveInside
<1>8. r.writers = Cardinality(Others) /\ (r.writers = 0 => Others = {})
      /\ (Others = {} => Cardinality(Others) = 0)
  <2>1. r.writers = Cardinality(Others)
    BY <1>2 DEF SectionInside
  <2>2. IsFiniteSet(Others)
    BY InsideFinite, FS_RemoveElement
  <2> HIDE DEF Others
  <2> QED BY <2>1, <2>2, FS_EmptySet
<1>9. \A x \in Queues \ {q} : queue'[x] = queue[x]
  BY <1>1, <1>3, <1>4 DEF Release, Typed, TypeOK
<1>10. \A j \in Keys \ {k} : outputQueues'[j] = outputQueues[j] /\ outputQueues'[j] # q
  BY <1>1, <1>2, <1>4 DEF Release, SectionMap
<1>11. /\ queue' \in [Queues -> QueueRecord] /\ outputQueues' \in [Keys -> Queues \cup {NoQueue}]
       /\ completed' \subseteq Keys
       /\ o \in QueueRecord /\ Accounted(o) /\ Bounded(o) /\ o.writers = Cardinality(Others)
  <2> HIDE DEF k, Others
  <2>1. Blank \in QueueRecord /\ Accounted(Blank) /\ Bounded(Blank) /\ Blank.writers = 0
    BY BlankObject DEF Blank
  <2>2. r.writers \in Nat
    BY <1>1 DEF QueueRecord
  <2>3. o = r \/ (o = Blank /\ r.writers = 0)
    BY <1>1, <1>3, <1>4, <2>2 DEF Release, Drained, Typed, TypeOK
  <2>4. queue' \in [Queues -> QueueRecord]
    BY <1>1, <1>3, <1>4, <2>1 DEF Release, Typed, TypeOK
  <2>5. outputQueues' \in [Keys -> Queues \cup {NoQueue}] /\ completed' \subseteq Keys
    BY <1>1, <1>3, <1>4 DEF Release, Typed, TypeOK
  <2>6. o \in QueueRecord /\ Accounted(o) /\ Bounded(o)
    BY <1>1, <2>1, <2>3
  <2>7. o.writers = Cardinality(Others)
    BY <1>8, <2>1, <2>3
  <2> QED BY <2>4, <2>5, <2>6, <2>7
<1>12. outputQueues'[k] = q => m[k] = q /\ o = r /\ ~r.closed /\ ~Drained(r)
  BY <1>1, <1>2, <1>3, <1>4, NoQueueAssumption DEF Release, SectionMap, Typed, TypeOK
<1>13. outputQueues'[k] # q =>
         /\ o.closed \/ Others = {}
         /\ \/ outputQueues'[k] = outputQueues[k] /\ outputQueues[k] # q
            \/ /\ outputQueues'[k] = NoQueue /\ Others = {}
               /\ outputQueues[k] = NoQueue \/ (outputQueues[k] = q /\ queue[q].items = <<>>)
  <2> SUFFICES ASSUME outputQueues'[k] # q
               PROVE  /\ o.closed \/ Others = {}
                      /\ \/ outputQueues'[k] = outputQueues[k] /\ outputQueues[k] # q
                         \/ /\ outputQueues'[k] = NoQueue /\ Others = {}
                            /\ \/ outputQueues[k] = NoQueue
                               \/ outputQueues[k] = q /\ queue[q].items = <<>>
    OBVIOUS
  <2>1. CASE Drained(r)
    <3>1. r.items = <<>> /\ Others = {}
      BY <1>8, <2>1 DEF Drained
    <3>2. CASE m[k] = q
      <4>1. outputQueues'[k] = NoQueue
        BY <1>1, <1>4, <2>1, <3>2 DEF Release
      <4>2. outputQueues[k] = NoQueue \/ (outputQueues[k] = q /\ queue[q].items = <<>>)
        BY <1>2, <3>1, <3>2 DEF SectionMap
      <4> QED BY <3>1, <4>1, <4>2
    <3>3. CASE m[k] # q
      BY <1>2, <1>4, <2>1, <3>1, <3>3 DEF Release, SectionMap
    <3> QED BY <3>2, <3>3
  <2>2. CASE ~Drained(r)
    <3>1. outputQueues' = m /\ m[k] # q /\ r.closed /\ m = outputQueues
      BY <1>2, <1>4, <2>2 DEF Release, SectionMap
    <3>2. o = IF r.writers > 0 THEN r ELSE Blank
      BY <1>1, <1>3, <1>4, <2>2, <3>1 DEF Release, Typed, TypeOK
    <3>3. r.writers > 0 \/ r.writers = 0
      BY <1>1 DEF QueueRecord
    <3> QED BY <1>8, <3>1, <3>2, <3>3
  <2> QED BY <2>1, <2>2
<1>14. outputQueues'[k] = q =>
         \/ outputQueues[k] = q /\ o.items = queue[q].items /\ o.active = queue[q].active
         \/ outputQueues[k] = NoQueue /\ Inside(q) = {} /\ o.items = <<>> /\ ~o.active
  BY <1>2, <1>12 DEF SectionMap
<1> HIDE DEF o, k, c, Others
<1>15. \A j \in Keys : outputQueues'[j] # NoQueue /\ outputQueues'[j] # q =>
         /\ outputQueues[j] = outputQueues'[j] /\ outputQueues[j] \in Queues
         /\ queue'[outputQueues[j]] = queue[outputQueues[j]]
  BY <1>3, <1>9, <1>10, <1>13 DEF Typed, TypeOK
<1>16. \A j \in Keys : outputQueues'[j] = q => j = k
  BY <1>10
<1>17. Typed'
  <2>1. TypeOK'
    BY <1>3, <1>4, <1>11 DEF Typed, TypeOK
  <2>2. CallsTyped'
    BY <1>3, <1>5, <1>6 DEF Typed, CallsTyped
  <2> QED BY <2>1, <2>2 DEF Typed
<1>18. Accounts'
  BY <1>3, <1>9, <1>11 DEF Accounts, o
<1>19. Heap'
  <2>1. \A i, j \in Keys : outputQueues'[i] = outputQueues'[j] /\ outputQueues'[i] # NoQueue => i = j
    BY <1>3, <1>15, <1>16 DEF Heap
  <2>2. \A j \in Keys : outputQueues'[j] # NoQueue => ~queue'[outputQueues'[j]].closed
    BY <1>3, <1>12, <1>15, <1>16 DEF Heap, o
  <2>3. ASSUME NEW v \in Writers, pc'[v] \in {"waiting", "woken"}
        PROVE  /\ v # w /\ pc[v] = pc'[v] /\ held'[v] = held[v] /\ call'[v] = call[v]
               /\ held[v] \in Queues /\ call[v].key \in Keys /\ v \in Inside(held[v])
    BY <1>3, <1>5, <1>6, <2>3 DEF Typed, TypeOK, CallsTyped, Call, Inside
  <2>4. ASSUME NEW v \in Writers, pc'[v] \in {"waiting", "woken"},
               outputQueues[call[v].key] = held[v]
        PROVE  outputQueues'[call'[v].key] = held'[v]
    <3>1. CASE call[v].key # k
      BY <1>10, <2>3, <2>4, <3>1
    <3>2. CASE call[v].key = k /\ held[v] = q
      <4>1. v \in Others /\ outputQueues[k] = q /\ q # NoQueue
        BY <1>1, <2>3, <2>4, <3>2, NoQueueAssumption DEF Others
      <4> QED BY <1>13, <2>3, <2>4, <3>2, <4>1
    <3>3. CASE call[v].key = k /\ held[v] # q
      <4>1. outputQueues[k] # q /\ outputQueues[k] # NoQueue
        BY <2>3, <2>4, <3>3, NoQueueAssumption
      <4> QED BY <1>13, <1>14, <2>3, <2>4, <3>3, <4>1
    <3> QED BY <3>1, <3>2, <3>3
  <2>5. \A v \in Writers : pc'[v] = "waiting" => outputQueues'[call'[v].key] = held'[v]
    BY <1>3, <2>3, <2>4 DEF Heap
  <2>6. ASSUME NEW v \in Writers, pc'[v] = "woken", queue[held[v]].closed
        PROVE  outputQueues'[call'[v].key] = held'[v] \/ queue'[held'[v]].closed
    <3>1. CASE held[v] # q
      BY <1>9, <2>3, <2>6, <3>1
    <3>2. CASE held[v] = q
      <4>1. v \in Others /\ v \in Inside(q)
        BY <2>3, <2>6, <3>2 DEF Others
      <4>2. \A j \in Keys : outputQueues[j] # q
        BY <1>1, <1>3, <2>6, <3>2, NoQueueAssumption DEF Heap
      <4>3. k \in Keys
        BY <1>1
      <4> QED BY <1>13, <1>14, <2>3, <2>6, <3>2, <4>1, <4>2, <4>3 DEF o
    <3> QED BY <3>1, <3>2
  <2>7. \A v \in Writers : pc'[v] = "woken" =>
           outputQueues'[call'[v].key] = held'[v] \/ queue'[held'[v]].closed
    BY <1>3, <2>3, <2>4, <2>6 DEF Heap
  <2>8. \A x \in Queues : queue'[x].writers = Cardinality(Inside(x)')
    <3>1. queue'[q].writers = Cardinality(Inside(q)')
      BY <1>7, <1>11 DEF o, Others
    <3>2. ASSUME NEW x \in Queues \ {q} PROVE queue'[x].writers = Cardinality(Inside(x)')
      <4>1. Inside(x)' = Inside(x)
        BY <1>2, <1>7 DEF SectionInside
      <4> QED BY <1>3, <1>9, <4>1 DEF Heap
    <3> QED BY <3>1, <3>2
  <2> QED BY <2>1, <2>2, <2>5, <2>7, <2>8 DEF Heap
<1>20. Lists'
  <2>1. \A j \in Keys : outputQueues'[j] # NoQueue =>
          (queue'[outputQueues'[j]].active <=> queue'[outputQueues'[j]].items # <<>>)
    <3>1. outputQueues'[k] = q => (queue'[q].active <=> queue'[q].items # <<>>)
      <4> SUFFICES ASSUME outputQueues'[k] = q
                   PROVE  queue'[q].active <=> queue'[q].items # <<>>
        OBVIOUS
      <4>1. CASE outputQueues[k] = q
        BY <1>1, <1>3, <1>14, <4>1, NoQueueAssumption DEF Lists, o, k
      <4>2. CASE outputQueues[k] # q
        BY <1>14, <4>2 DEF o
      <4> QED BY <4>1, <4>2
    <3>2. ASSUME NEW j \in Keys, outputQueues'[j] # NoQueue, outputQueues'[j] # q
          PROVE  queue'[outputQueues'[j]].active <=> queue'[outputQueues'[j]].items # <<>>
      BY <1>3, <1>15, <3>2 DEF Lists
    <3> QED BY <1>16, <3>1, <3>2
  <2>2. ASSUME NEW j \in Keys
        PROVE  outputQueues[j] # NoQueue /\ queue[outputQueues[j]].items # <<>> <=>
                 outputQueues'[j] # NoQueue /\ queue'[outputQueues'[j]].items # <<>>
    <3>1. CASE j # k
      BY <1>10, <1>15, <3>1
    <3>2. CASE j = k /\ outputQueues'[k] = q
      BY <1>1, <1>14, <3>2, NoQueueAssumption DEF o
    <3>3. CASE j = k /\ outputQueues'[k] # q
      BY <1>13, <1>15, <3>3
    <3> QED BY <3>1, <3>2, <3>3
  <2>3. /\ UNCHANGED activeOutputs
        /\ \A p \in Priorities : activeOutputs[p] \in Seq(Keys)
        /\ \A p \in Priorities : rrIndex'[p] = 0 \/ rrIndex'[p] < Len(activeOutputs[p])
    BY <1>3, <1>4 DEF Typed, TypeOK, Lists
  <2> QED BY <1>3, <2>1, <2>2, <2>3, ListsFrame
<1>21. Fresh'
  <2>1. ASSUME NEW j \in Keys, outputQueues'[j] # NoQueue
        PROVE  \/ queue'[outputQueues'[j]].items = <<>>
               \/ /\ outputQueues[j] # NoQueue
                  /\ queue'[outputQueues'[j]].items = queue[outputQueues[j]].items
    <3>1. CASE outputQueues'[j] = q
      BY <1>1, <1>14, <1>16, <2>1, <3>1, NoQueueAssumption DEF o
    <3>2. CASE outputQueues'[j] # q
      BY <1>15, <2>1, <3>2
    <3> QED BY <3>1, <3>2
  <2>2. ASSUME NEW v \in Writers, pc'[v] \in {"waiting", "woken"},
               outputQueues'[call'[v].key] = held'[v]
        PROVE  /\ pc[v] \in {"waiting", "woken"} /\ call'[v] = call[v]
               /\ outputQueues[call[v].key] = held[v]
    <3>1. /\ v # w /\ pc[v] = pc'[v] /\ held'[v] = held[v] /\ call'[v] = call[v]
          /\ held[v] \in Queues /\ call[v].key \in Keys /\ v \in Inside(held[v])
      BY <1>3, <1>5, <1>6, <2>2 DEF Typed, TypeOK, CallsTyped, Call, Inside
    <3>2. held[v] # NoQueue
      BY <3>1, NoQueueAssumption
    <3> QED BY <1>14, <1>15, <1>16, <2>2, <3>1, <3>2
  <2> QED BY <1>3, <2>1, <2>2, FreshFrame
<1>22. NoLostWakeup'
  <2>1. ASSUME NEW v \in Writers, pc'[v] = "waiting"
        PROVE  /\ \E j \in Keys : outputQueues'[j] = held'[v]
               /\ \/ queue'[held'[v]].items # <<>>
                  \/ \E u \in Writers : pc'[u] = "woken" /\ held'[u] = held'[v]
                  \/ clearing' # {}
                  \/ ctxDone'
    <3>1. /\ v # w /\ pc[v] = "waiting" /\ held'[v] = held[v] /\ call'[v] = call[v]
          /\ held[v] \in Queues /\ call[v].key \in Keys /\ v \in Inside(held[v])
      BY <1>3, <1>5, <1>6, <2>1 DEF Typed, TypeOK, CallsTyped, Call, Inside
    <3>2. \E j \in Keys : outputQueues'[j] = held'[v]
      BY <1>19, <1>5, <2>1, <3>1 DEF Heap
    <3>3. \/ queue[held[v]].items # <<>>
          \/ \E u \in Writers : pc[u] = "woken" /\ held[u] = held[v]
          \/ clearing # {}
          \/ ctxDone
      BY <1>3, <3>1 DEF NoLostWakeup
    <3>4. queue'[held[v]].items = queue[held[v]].items
      BY <1>9, <1>14, <1>16, <3>1, <3>2 DEF o
    <3>5. ASSUME NEW u \in Writers, pc[u] = "woken", held[u] = held[v], u # w
          PROVE  pc'[u] = "woken" /\ held'[u] = held'[v]
      BY <1>5, <3>1, <3>5
    <3>6. ASSUME pc[w] = "woken", held[w] = held[v] PROVE clearing # {} \/ ctxDone
      <4>1. held[v] = q /\ w \in Inside(q)
        BY <1>2, <3>1, <3>6 DEF SectionInside, Inside
      <4>2. outputQueues'[k] = q
        BY <1>16, <3>1, <3>2, <4>1
      <4>3. outputQueues[k] = q /\ ~r.closed
        BY <1>12, <1>14, <4>1, <4>2
      <4> QED BY <1>3, <1>4, <3>6, <4>1, <4>3 DEF Fresh, c, k
    <3> QED BY <1>4, <3>1, <3>2, <3>3, <3>4, <3>5, <3>6
  <2> QED BY <2>1 DEF NoLostWakeup, Mapped
<1>23. DrainedQueueIsDeleted'
  <2>1. \A j \in Keys : outputQueues'[j] # NoQueue => ~Drained(queue'[outputQueues'[j]])
    BY <1>3, <1>12, <1>15, <1>16 DEF DrainedQueueIsDeleted, o
  <2> QED BY <2>1 DEF DrainedQueueIsDeleted, Drained
<1> QED BY <1>17, <1>18, <1>19, <1>20, <1>21, <1>22, <1>23 DEF IInv

-----------------------------------------------------------------------------
(* The steps outside of the enqueue's critical section.                    *)

\* A step that touches no queue and moves nobody into or out of one preserves
\* the invariant, be it the start of a reset.
LEMMA QuietPreserves ==
  ASSUME IInv, Typed',
         UNCHANGED <<queue, outputQueues, activeOutputs, rrIndex, held>>,
         UNCHANGED <<generation, clearing>> \/ clearing' # {},
         ctxDone => ctxDone',
         \A v \in Writers :
           pc[v] \in {"waiting", "woken"} \/ pc'[v] \in {"waiting", "woken"} =>
             pc'[v] = pc[v] /\ call'[v] = call[v]
  PROVE  IInv'
<1>1. Typed /\ Heap /\ Accounts /\ Lists /\ Fresh /\ NoLostWakeup /\ DrainedQueueIsDeleted
  BY DEF IInv
<1>2. \A x : Inside(x)' = Inside(x)
  BY DEF Inside
<1>3. Heap'
  <2>1. \A x \in Queues : queue'[x].writers = Cardinality(Inside(x)')
    BY <1>1, <1>2 DEF Heap
  <2>2. \A v \in Writers : pc'[v] = "waiting" => outputQueues'[call'[v].key] = held'[v]
    BY <1>1 DEF Heap
  <2>3. \A v \in Writers : pc'[v] = "woken" =>
          outputQueues'[call'[v].key] = held'[v] \/ queue'[held'[v]].closed
    BY <1>1 DEF Heap
  <2> QED BY <1>1, <2>1, <2>2, <2>3 DEF Heap
<1>4. Accounts' /\ Lists' /\ DrainedQueueIsDeleted'
  BY <1>1 DEF Accounts, Lists, ActiveEntriesHaveItems, DrainedQueueIsDeleted
<1>5. Fresh'
  <2>1. NoStaleItems'
    BY <1>1 DEF Fresh, NoStaleItems
  <2>2. \A v \in Writers :
          pc'[v] \in {"waiting", "woken"} /\ outputQueues'[call'[v].key] = held'[v] =>
            call'[v].gen = generation' \/ clearing' # {}
    BY <1>1 DEF Fresh
  <2> QED BY <2>1, <2>2 DEF Fresh
<1>6. NoLostWakeup'
  <2>1. ASSUME NEW v \in Writers, pc'[v] = "waiting"
        PROVE  /\ \E j \in Keys : outputQueues'[j] = held'[v]
               /\ \/ queue'[held'[v]].items # <<>>
                  \/ \E u \in Writers : pc'[u] = "woken" /\ held'[u] = held'[v]
                  \/ clearing' # {}
                  \/ ctxDone'
    BY <1>1, <2>1 DEF NoLostWakeup, Mapped
  <2> QED BY <2>1 DEF NoLostWakeup, Mapped
<1> QED BY <1>3, <1>4, <1>5, <1>6 DEF IInv

LEMMA BeginPreserves ==
  ASSUME IInv, NEW w \in Writers, NEW k \in Keys, NEW p \in Priorities,
         NEW m \in Messages, NEW s \in Sizes, Begin(w, k, p, m, s)
  PROVE  IInv'
<1>1. Typed
  BY DEF IInv
<1>2. /\ pc' = [pc EXCEPT ![w] = "enter"]
      /\ call' = [call EXCEPT ![w] =
           [key |-> k, gen |-> generation, priority |-> p, msg |-> m, size |-> s]]
      /\ pc[w] = "idle"
      /\ UNCHANGED <<generation, queue, outputQueues, completed, activeOutputs, rrIndex,
                     held, outputReady, clearing, ctxDone>>
  BY DEF Begin
<1>3. [key |-> k, gen |-> generation, priority |-> p, msg |-> m, size |-> s] \in Call
  BY <1>1 DEF Typed, TypeOK, Call
<1>4. TypeOK'
  BY <1>1, <1>2, <1>3 DEF Typed, TypeOK
<1>5. CallsTyped'
  BY <1>1, <1>2, <1>3 DEF Typed, TypeOK, CallsTyped
<1>6. \A v \in Writers :
        pc[v] \in {"waiting", "woken"} \/ pc'[v] \in {"waiting", "woken"} =>
          pc'[v] = pc[v] /\ call'[v] = call[v]
  BY <1>1, <1>2 DEF Typed, TypeOK
<1> QED BY <1>2, <1>4, <1>5, <1>6, QuietPreserves DEF Typed

LEMMA NotifyPreserves ==
  ASSUME IInv, NEW w \in Writers, Notify(w)
  PROVE  IInv'
<1>1. Typed
  BY DEF IInv
<1>2. Typed'
  BY <1>1 DEF Typed, TypeOK, CallsTyped, Notify
<1>3. \A v \in Writers :
        pc[v] \in {"waiting", "woken"} \/ pc'[v] \in {"waiting", "woken"} =>
          pc'[v] = pc[v] /\ call'[v] = call[v]
  BY <1>1 DEF Typed, TypeOK, Notify
<1> QED BY <1>2, <1>3, QuietPreserves DEF Notify

LEMMA TakeReadyPreserves == IInv /\ TakeReady => IInv'
<1> SUFFICES ASSUME IInv, TakeReady PROVE IInv'
  OBVIOUS
<1>1. Typed'
  BY DEF IInv, Typed, TypeOK, CallsTyped, TakeReady
<1> QED BY <1>1, QuietPreserves DEF TakeReady

LEMMA CancelContextPreserves == IInv /\ CancelContext => IInv'
<1> SUFFICES ASSUME IInv, CancelContext PROVE IInv'
  OBVIOUS
<1>1. Typed'
  BY DEF IInv, Typed, TypeOK, CallsTyped, CancelContext
<1> QED BY <1>1, QuietPreserves DEF CancelContext

LEMMA BumpGenerationPreserves ==
  ASSUME IInv, NEW t \in Resetters, BumpGeneration(t)
  PROVE  IInv'
<1>1. Typed'
  BY DEF IInv, Typed, TypeOK, CallsTyped, BumpGeneration
<1>2. clearing' # {}
  BY DEF BumpGeneration
<1> QED BY <1>1, <1>2, QuietPreserves DEF BumpGeneration

LEMMA MarkCompletePreserves ==
  ASSUME IInv, NEW k \in Keys, MarkComplete(k)
  PROVE  IInv'
<1> DEFINE q == outputQueues[k]
           r == [queue[q] EXCEPT !.drainWhenEmpty = TRUE]
           o == IF Drained(r) THEN Blank ELSE r
<1>1. Typed /\ Heap /\ Accounts /\ Lists /\ Fresh /\ NoLostWakeup /\ DrainedQueueIsDeleted
  BY DEF IInv
<1>2. CASE outputQueues[k] = NoQueue
  <2>1. Typed'
    BY <1>1, <1>2 DEF Typed, TypeOK, CallsTyped, MarkComplete
  <2> QED BY <1>2, <2>1, QuietPreserves DEF MarkComplete
<1>3. CASE outputQueues[k] # NoQueue
  <2>1. /\ queue' = [queue EXCEPT ![q] = o]
        /\ outputQueues' = IF Drained(r) THEN [outputQueues EXCEPT ![k] = NoQueue] ELSE outputQueues
        /\ completed' = IF Drained(r) THEN completed \ {k} ELSE completed \cup {k}
        /\ UNCHANGED <<generation, activeOutputs, rrIndex, pc, call, held, outputReady,
                       clearing, ctxDone>>
    BY <1>3 DEF MarkComplete
  <2>2. q \in Queues /\ queue[q] \in QueueRecord
    BY <1>1, <1>3 DEF Typed, TypeOK
  <2>3. /\ r \in QueueRecord /\ r.items = queue[q].items /\ r.bytes = queue[q].bytes
        /\ r.active = queue[q].active /\ r.closed = queue[q].closed /\ r.writers = queue[q].writers
    BY <2>2 DEF QueueRecord
  <2> HIDE DEF r
  <2>4. Drained(r) => /\ r.items = <<>> /\ ~r.active /\ queue[q].writers = 0 /\ Inside(q) = {}
    BY <1>1, <2>2, <2>3, NobodyInside DEF Drained
  <2>5. /\ o \in QueueRecord /\ o.items = queue[q].items /\ o.writers = queue[q].writers
        /\ (o.active <=> queue[q].active) /\ ~o.closed /\ Accounted(o) /\ Bounded(o)
    <3>1. Accounted(queue[q]) /\ Bounded(queue[q]) /\ ~queue[q].closed
      BY <1>1, <1>3, <2>2 DEF Accounts, Heap
    <3>2. CASE Drained(r)
      <4>1. Blank.items = <<>> /\ Blank.writers = 0 /\ ~Blank.active /\ ~Blank.closed
        BY DEF Blank
      <4>2. o = Blank /\ queue[q].items = <<>> /\ queue[q].writers = 0 /\ ~queue[q].active
        BY <2>3, <2>4, <3>2
      <4> QED BY <4>1, <4>2, BlankObject
    <3>3. CASE ~Drained(r)
      <4>1. Accounted(r) /\ Bounded(r)
        BY <2>3, <3>1 DEF Accounted, RunningSum, Bounded
      <4> QED BY <2>3, <3>1, <3>3, <4>1
    <3> QED BY <3>2, <3>3
  <2>6. /\ \A j \in Keys \ {k} : outputQueues'[j] = outputQueues[j]
        /\ outputQueues'[k] = IF Drained(r) THEN NoQueue ELSE q
    BY <1>1, <2>1 DEF Typed, TypeOK
  <2> HIDE DEF o
  <2>7. queue'[q] = o /\ \A x \in Queues \ {q} : queue'[x] = queue[x]
    BY <1>1, <2>1, <2>2 DEF Typed, TypeOK
  <2>8. \A x : Inside(x)' = Inside(x)
    BY <2>1 DEF Inside
  <2>9. \A j \in Keys : outputQueues[j] # NoQueue /\ j # k => outputQueues[j] \in Queues \ {q}
    BY <1>1, <1>3 DEF Heap, Typed, TypeOK
  <2> HIDE DEF q
  <2>10. /\ \A x \in Queues : queue'[x].items = queue[x].items
         /\ \A x \in Queues : queue'[x].active <=> queue[x].active
         /\ \A x \in Queues : queue'[x].writers = queue[x].writers
    BY <2>2, <2>5, <2>7
  <2>11. ASSUME NEW v \in Writers, v \in Inside(outputQueues[call[v].key])
         PROVE  outputQueues'[call[v].key] = outputQueues[call[v].key]
    <3>1. call[v].key \in Keys
      BY <1>1, <2>11 DEF Typed, CallsTyped, Call, Inside
    <3>2. call[v].key = k => ~Drained(r)
      BY <2>4, <2>11 DEF q
    <3> QED BY <2>6, <3>1, <3>2 DEF q
  <2>12. Typed'
    <3>1. TypeOK'
      BY <1>1, <2>1, <2>5 DEF Typed, TypeOK
    <3>2. CallsTyped'
      BY <1>1, <2>1 DEF Typed, CallsTyped
    <3> QED BY <3>1, <3>2 DEF Typed
  <2>13. Accounts'
    BY <1>1, <2>5, <2>7 DEF Accounts
  <2>14. Heap'
    <3>1. \A i, j \in Keys : outputQueues'[i] = outputQueues'[j] /\ outputQueues'[i] # NoQueue => i = j
      BY <1>1, <2>6 DEF Heap, q
    <3>2. ASSUME NEW j \in Keys, outputQueues'[j] # NoQueue PROVE ~queue'[outputQueues'[j]].closed
      <4>1. CASE j = k
        BY <2>5, <2>6, <2>7, <3>2, <4>1
      <4>2. CASE j # k
        BY <1>1, <2>6, <2>7, <2>9, <3>2, <4>2 DEF Heap
      <4> QED BY <4>1, <4>2
    <3>3. ASSUME NEW v \in Writers, pc[v] = "waiting"
          PROVE  outputQueues'[call[v].key] = held[v]
      <4>1. outputQueues[call[v].key] = held[v] /\ v \in Inside(held[v])
        BY <1>1, <3>3 DEF Heap, Inside
      <4> QED BY <2>11, <4>1
    <3>4. ASSUME NEW v \in Writers, pc[v] = "woken"
          PROVE  outputQueues'[call[v].key] = held[v] \/ queue'[held[v]].closed
      <4>1. v \in Inside(held[v]) /\ held[v] \in Queues
        BY <1>1, <3>4 DEF Inside, Typed, CallsTyped
      <4>2. CASE outputQueues[call[v].key] = held[v]
        BY <2>11, <4>1, <4>2
      <4>3. CASE queue[held[v]].closed
        <5>1. held[v] # q
          BY <1>1, <1>3, <4>3 DEF Heap, q
        <5> QED BY <2>7, <4>1, <4>3, <5>1
      <4> QED BY <1>1, <3>4, <4>2, <4>3 DEF Heap
    <3>5. \A x \in Queues : queue'[x].writers = Cardinality(Inside(x)')
      BY <1>1, <2>8, <2>10 DEF Heap
    <3>6. (\A v \in Writers : pc'[v] = "waiting" => outputQueues'[call'[v].key] = held'[v])
          /\ (\A v \in Writers : pc'[v] = "woken" =>
                 outputQueues'[call'[v].key] = held'[v] \/ queue'[held'[v]].closed)
      BY <2>1, <3>3, <3>4
    <3> QED BY <3>1, <3>2, <3>5, <3>6 DEF Heap
  <2>15. ASSUME NEW j \in Keys, outputQueues'[j] # NoQueue
         PROVE  outputQueues[j] = outputQueues'[j] /\ outputQueues[j] \in Queues
    BY <1>1, <2>2, <2>6, <2>15 DEF Typed, TypeOK, q
  <2>16. Lists'
    <3>1. \A j \in Keys : outputQueues'[j] # NoQueue =>
            (queue'[outputQueues'[j]].active <=> queue'[outputQueues'[j]].items # <<>>)
      BY <1>1, <2>10, <2>15 DEF Lists
    <3>2. ASSUME NEW j \in Keys
          PROVE  outputQueues[j] # NoQueue /\ queue[outputQueues[j]].items # <<>> <=>
                   outputQueues'[j] # NoQueue /\ queue'[outputQueues'[j]].items # <<>>
      <4>1. CASE outputQueues'[j] # NoQueue
        BY <2>10, <2>15, <4>1
      <4>2. CASE outputQueues'[j] = NoQueue /\ outputQueues[j] # NoQueue
        BY <2>2, <2>3, <2>4, <2>6, <4>2 DEF q
      <4> QED BY <4>1, <4>2
    <3>3. /\ UNCHANGED activeOutputs
          /\ \A p \in Priorities : activeOutputs[p] \in Seq(Keys)
          /\ \A p \in Priorities : rrIndex'[p] = 0 \/ rrIndex'[p] < Len(activeOutputs[p])
      BY <1>1, <2>1 DEF Typed, TypeOK, Lists
    <3> QED BY <1>1, <3>1, <3>2, <3>3, ListsFrame
  <2>17. Fresh'
    <3>1. \A j \in Keys : outputQueues'[j] # NoQueue =>
            /\ outputQueues[j] # NoQueue
            /\ queue'[outputQueues'[j]].items = queue[outputQueues[j]].items
      BY <2>10, <2>15
    <3>2. ASSUME NEW v \in Writers, pc'[v] \in {"waiting", "woken"},
                 outputQueues'[call'[v].key] = held'[v]
          PROVE  /\ pc[v] \in {"waiting", "woken"} /\ call'[v] = call[v]
                 /\ outputQueues[call[v].key] = held[v]
      <4>1. call[v].key \in Keys /\ held[v] \in Queues
        BY <1>1, <2>1, <3>2 DEF Typed, CallsTyped, Call
      <4> QED BY <2>1, <2>15, <3>2, <4>1, NoQueueAssumption
    <3> QED BY <1>1, <2>1, <3>1, <3>2, FreshFrame
  <2>18. NoLostWakeup'
    <3>1. ASSUME NEW v \in Writers, pc'[v] = "waiting"
          PROVE  /\ \E j \in Keys : outputQueues'[j] = held'[v]
                 /\ \/ queue'[held'[v]].items # <<>>
                    \/ \E u \in Writers : pc'[u] = "woken" /\ held'[u] = held'[v]
                    \/ clearing' # {}
                    \/ ctxDone'
      <4>1. pc[v] = "waiting" /\ held'[v] = held[v] /\ held[v] \in Queues /\ call'[v].key \in Keys
        BY <1>1, <2>1, <3>1 DEF Typed, CallsTyped, Call
      <4>2. \E j \in Keys : outputQueues'[j] = held'[v]
        BY <2>14, <3>1, <4>1 DEF Heap
      <4>3. \/ queue[held[v]].items # <<>>
            \/ \E u \in Writers : pc[u] = "woken" /\ held[u] = held[v]
            \/ clearing # {}
            \/ ctxDone
        BY <1>1, <4>1 DEF NoLostWakeup
      <4> QED BY <2>1, <2>10, <4>1, <4>2, <4>3
    <3> QED BY <3>1 DEF NoLostWakeup, Mapped
  <2>19. DrainedQueueIsDeleted'
    <3>1. ASSUME NEW j \in Keys, outputQueues'[j] # NoQueue PROVE ~Drained(queue'[outputQueues'[j]])
      <4>1. CASE j = k
        BY <2>6, <2>7, <3>1, <4>1 DEF o
      <4>2. CASE j # k
        BY <1>1, <2>7, <2>9, <2>15, <3>1, <4>2 DEF DrainedQueueIsDeleted
      <4> QED BY <4>1, <4>2
    <3> QED BY <3>1 DEF DrainedQueueIsDeleted, Drained
  <2> QED BY <2>12, <2>13, <2>14, <2>16, <2>17, <2>18, <2>19 DEF IInv
<1> QED BY <1>2, <1>3

-----------------------------------------------------------------------------
(* The websocket writer takes an item.                                     *)

\* What is left of a list when one entry is removed.
LEMMA WithoutIndexElements ==
  ASSUME NEW S, NEW s \in Seq(S), NEW i \in 1 .. Len(s)
  PROVE  /\ WithoutIndex(s, i) \in Seq(S)
         /\ Len(WithoutIndex(s, i)) = Len(s) - 1
         /\ \A j \in 1 .. Len(s) - 1 :
              WithoutIndex(s, i)[j] = IF j < i THEN s[j] ELSE s[j + 1]
<1> DEFINE a == SubSeq(s, 1, i - 1)
           b == SubSeq(s, i + 1, Len(s))
<1>0. Len(s) \in Nat /\ i \in Nat /\ 1 <= i /\ i <= Len(s)
  OBVIOUS
<1>1. a \in Seq(S) /\ Len(a) = i - 1 /\ \A j \in 1 .. i - 1 : a[j] = s[j]
  BY <1>0
<1>2. b \in Seq(S) /\ Len(b) = Len(s) - i /\ \A j \in 1 .. Len(s) - i : b[j] = s[i + j]
  BY <1>0
<1> HIDE DEF a, b
<1>3. /\ a \o b \in Seq(S) /\ Len(a \o b) = Len(a) + Len(b)
      /\ \A j \in 1 .. Len(a) + Len(b) : (a \o b)[j] = IF j <= Len(a) THEN a[j] ELSE b[j - Len(a)]
  BY <1>1, <1>2, ConcatProperties
<1>4. ASSUME NEW j \in 1 .. Len(s) - 1
      PROVE  (a \o b)[j] = IF j < i THEN s[j] ELSE s[j + 1]
  <2>1. CASE j < i
    BY <1>0, <1>1, <1>2, <1>3, <2>1
  <2>2. CASE ~(j < i)
    <3>1. j - (i - 1) \in 1 .. Len(s) - i /\ i + (j - (i - 1)) = j + 1
      BY <1>0, <2>2
    <3>2. (a \o b)[j] = b[j - (i - 1)]
      BY <1>0, <1>1, <1>2, <1>3, <2>2
    <3> QED BY <1>2, <2>2, <3>1, <3>2
  <2> QED BY <2>1, <2>2
<1>5. Len(a \o b) = Len(s) - 1
  BY <1>0, <1>1, <1>2, <1>3
<1>6. WithoutIndex(s, i) = a \o b
  BY DEF WithoutIndex, a, b
<1> QED BY <1>3, <1>4, <1>5, <1>6

LEMMA DequeuePreserves ==
  ASSUME IInv, NEW p \in Priorities, Dequeue(p)
  PROVE  IInv'
<1> DEFINE list == activeOutputs[p]
           idx == rrIndex[p] % Len(list)
           k == Front(p)
           q == outputQueues[k]
           r == Pop(queue[q])
           o == IF Drained(r) THEN Blank ELSE r
           last == Len(queue[q].items) = 1
           rest == WithoutIndex(list, idx + 1)
<1>1. Typed /\ Heap /\ Accounts /\ Lists /\ Fresh /\ NoLostWakeup /\ DrainedQueueIsDeleted
  BY DEF IInv
<1>2. /\ list # <<>>
      /\ Release(k, q, r, outputQueues)
      /\ activeOutputs' = IF last THEN [activeOutputs EXCEPT ![p] = rest] ELSE activeOutputs
      /\ rrIndex' = [rrIndex EXCEPT ![p] =
           IF last THEN IndexAfterRemoval(@, idx, rest) ELSE (idx + 1) % Len(list)]
      /\ Signal(q)
      /\ UNCHANGED <<generation, call, held, outputReady, clearing, ctxDone>>
  BY DEF Dequeue
<1>3. list \in Seq(Keys) /\ Len(list) \in Nat /\ Len(list) > 0 /\ rrIndex[p] \in Nat
  BY <1>1, <1>2 DEF Typed, TypeOK
<1>4. idx = rrIndex[p] /\ idx \in 0 .. Len(list) - 1 /\ idx + 1 \in DOMAIN list
  <2>1. rrIndex[p] < Len(list)
    BY <1>1, <1>3 DEF Lists
  <2>2. \A a, b \in Nat : a < b => a % b = a
    OBVIOUS
  <2>3. idx = rrIndex[p]
    BY <1>3, <2>1, <2>2
  <2> HIDE DEF idx
  <2>4. idx \in 0 .. Len(list) - 1
    BY <1>3, <2>1, <2>3
  <2> HIDE DEF list
  <2> QED BY <1>3, <2>3, <2>4
<1>5. k \in Keys /\ k = list[idx + 1]
  BY <1>3, <1>4 DEF Front
<1>6. /\ q # NoQueue /\ q \in Queues /\ queue[q] \in QueueRecord
      /\ queue[q].items # <<>> /\ ~queue[q].closed /\ Accounted(queue[q]) /\ Bounded(queue[q])
  <2>1. q # NoQueue /\ queue[q].items # <<>>
    BY <1>1, <1>4, <1>5 DEF Lists, ActiveEntriesHaveItems
  <2>2. q \in Queues
    BY <1>1, <1>5, <2>1 DEF Typed, TypeOK
  <2> QED BY <1>1, <1>5, <2>1, <2>2 DEF Typed, TypeOK, Heap, Accounts
<1> HIDE DEF list, idx, k, r, rest
<1>7. /\ r \in QueueRecord /\ Accounted(r) /\ Bounded(r) /\ r.items = Tail(queue[q].items)
      /\ (r.active <=> r.items # <<>>)
  BY <1>6, PopObject DEF r
<1>8. r.closed = queue[q].closed /\ r.writers = queue[q].writers
  BY <1>6 DEF r, Pop, QueueRecord
<1>9. Drained(r) => r.items = <<>> /\ ~r.active /\ queue[q].writers = 0 /\ Inside(q) = {}
  BY <1>1, <1>6, <1>8, NobodyInside DEF Drained
<1>10. /\ o \in QueueRecord /\ Accounted(o) /\ Bounded(o) /\ o.items = Tail(queue[q].items)
       /\ (o.active <=> o.items # <<>>) /\ ~o.closed /\ o.writers = queue[q].writers
  <2>1. CASE Drained(r)
    <3>1. Blank.items = <<>> /\ Blank.writers = 0 /\ ~Blank.active /\ ~Blank.closed
      BY DEF Blank
    <3>2. o = Blank /\ Tail(queue[q].items) = <<>> /\ queue[q].writers = 0
      BY <1>7, <1>9, <2>1
    <3> HIDE DEF o
    <3> QED BY <3>1, <3>2, BlankObject
  <2>2. CASE ~Drained(r)
    <3>1. o = r
      BY <2>2
    <3> HIDE DEF o
    <3> QED BY <1>6, <1>7, <1>8, <3>1
  <2> QED BY <2>1, <2>2
<1>11. last <=> Tail(queue[q].items) = <<>>
  <2> DEFINE n == Len(queue[q].items)
             t == Tail(queue[q].items)
  <2>1. n \in Nat /\ n > 0 /\ t \in Seq(Item) /\ Len(t) = n - 1
    BY <1>6 DEF QueueRecord
  <2>2. \A x \in Seq(Item) : x = <<>> <=> Len(x) = 0
    OBVIOUS
  <2>3. last <=> n = 1
    OBVIOUS
  <2> HIDE DEF n, t, last
  <2>4. t = <<>> <=> Len(t) = 0
    BY <2>1, <2>2
  <2>5. t = <<>> <=> n = 1
    BY <2>1, <2>4
  <2> QED BY <2>3, <2>5 DEF t
<1>12. /\ queue' = [queue EXCEPT ![q] = o]
       /\ outputQueues' = IF Drained(r) THEN [outputQueues EXCEPT ![k] = NoQueue] ELSE outputQueues
       /\ completed' \subseteq Keys
  BY <1>1, <1>2 DEF Release, Typed, TypeOK
<1>13. /\ \A j \in Keys \ {k} : outputQueues'[j] = outputQueues[j]
       /\ outputQueues'[k] = IF Drained(r) THEN NoQueue ELSE q
  BY <1>1, <1>5, <1>12 DEF Typed, TypeOK
<1> HIDE DEF o
<1>14. queue'[q] = o /\ \A x \in Queues \ {q} : queue'[x] = queue[x]
  BY <1>1, <1>6, <1>12 DEF Typed, TypeOK
<1>15. \A j \in Keys : outputQueues[j] # NoQueue /\ j # k => outputQueues[j] \in Queues \ {q}
  BY <1>1, <1>5, <1>6 DEF Heap, Typed, TypeOK
<1>16. \/ Waiting(q) = {} /\ pc' = pc
       \/ \E u \in Waiting(q) : pc' = [pc EXCEPT ![u] = "woken"]
  BY <1>2 DEF Signal
<1>17. /\ pc' \in [Writers -> {"idle", "enter", "waiting", "woken", "notify"}]
       /\ \A v \in Writers : pc'[v] = pc[v] \/ (pc[v] = "waiting" /\ held[v] = q /\ pc'[v] = "woken")
  BY <1>1, <1>16 DEF Waiting, Typed, TypeOK
<1>18. (\E v \in Writers : pc[v] = "waiting" /\ held[v] = q) =>
         \E u \in Writers : pc'[u] = "woken" /\ held[u] = q
  BY <1>1, <1>16 DEF Waiting, Typed, TypeOK
<1>19. \A x : Inside(x)' = Inside(x)
  <2>1. held' = held
    BY <1>2
  <2> QED BY <1>17, <2>1 DEF Inside
<1>20. ASSUME NEW j \in Keys, outputQueues'[j] # NoQueue
       PROVE  outputQueues[j] = outputQueues'[j] /\ outputQueues[j] \in Queues
  BY <1>1, <1>6, <1>13, <1>20 DEF Typed, TypeOK
<1>21. ASSUME NEW v \in Writers, v \in Inside(outputQueues[call[v].key])
       PROVE  outputQueues'[call[v].key] = outputQueues[call[v].key]
  <2>1. call[v].key \in Keys
    BY <1>1, <1>21 DEF Typed, CallsTyped, Call, Inside
  <2>2. call[v].key = k => ~Drained(r)
    BY <1>9, <1>21
  <2> QED BY <1>13, <2>1, <2>2
<1>22. rest \in Seq(Keys) /\ Len(rest) = Len(list) - 1
       /\ \A j \in 1 .. Len(list) - 1 : rest[j] = IF j < idx + 1 THEN list[j] ELSE list[j + 1]
  BY <1>3, <1>4, WithoutIndexElements DEF rest
<1>23. /\ activeOutputs' \in [Priorities -> Seq(Keys)] /\ rrIndex' \in [Priorities -> Nat]
       /\ \A x \in Priorities : rrIndex'[x] = 0 \/ rrIndex'[x] < Len(activeOutputs'[x])
  <2>1. CASE last
    <3> DEFINE i == IndexAfterRemoval(rrIndex[p], idx, rest)
    <3>1. i \in Nat /\ (i = 0 \/ i < Len(rest))
      BY <1>3, <1>4, <1>22 DEF IndexAfterRemoval
    <3>2. rrIndex' = [rrIndex EXCEPT ![p] = i] /\ activeOutputs' = [activeOutputs EXCEPT ![p] = rest]
      BY <1>2, <2>1
    <3> HIDE DEF i
    <3> QED BY <1>1, <1>22, <3>1, <3>2 DEF Typed, TypeOK, Lists
  <2>2. CASE ~last
    <3> DEFINE i == (idx + 1) % Len(list)
    <3>1. i \in Nat /\ i < Len(list)
      BY <1>3, <1>4
    <3>2. rrIndex' = [rrIndex EXCEPT ![p] = i] /\ activeOutputs' = activeOutputs
      BY <1>2, <2>2
    <3> HIDE DEF i
    <3> QED BY <1>1, <3>1, <3>2 DEF Typed, TypeOK, Lists, list
  <2> QED BY <2>1, <2>2
<1> HIDE DEF q, last
<1>24. Typed'
  <2>1. outputQueues' \in [Keys -> Queues \cup {NoQueue}]
    BY <1>1, <1>12 DEF Typed, TypeOK
  <2>2. queue' \in [Queues -> QueueRecord]
    BY <1>1, <1>10, <1>12 DEF Typed, TypeOK
  <2>3. TypeOK'
    BY <1>1, <1>2, <1>12, <1>17, <1>23, <2>1, <2>2 DEF Typed, TypeOK
  <2>4. CallsTyped'
    BY <1>1, <1>2, <1>17 DEF Typed, CallsTyped
  <2> QED BY <2>3, <2>4 DEF Typed
<1>25. Accounts'
  BY <1>1, <1>10, <1>14 DEF Accounts
<1>26. Heap'
  <2>1. \A i, j \in Keys : outputQueues'[i] = outputQueues'[j] /\ outputQueues'[i] # NoQueue => i = j
    BY <1>1, <1>20 DEF Heap
  <2>2. ASSUME NEW j \in Keys, outputQueues'[j] # NoQueue PROVE ~queue'[outputQueues'[j]].closed
    <3>1. CASE j = k
      BY <1>10, <1>13, <1>14, <2>2, <3>1
    <3>2. CASE j # k
      BY <1>1, <1>14, <1>15, <1>20, <2>2, <3>2 DEF Heap
    <3> QED BY <3>1, <3>2
  <2>3. ASSUME NEW v \in Writers, pc'[v] = "waiting" PROVE outputQueues'[call'[v].key] = held'[v]
    <3>1. outputQueues[call[v].key] = held[v] /\ v \in Inside(held[v])
      BY <1>1, <1>17, <2>3 DEF Heap, Inside
    <3> QED BY <1>2, <1>21, <3>1
  <2>4. ASSUME NEW v \in Writers, pc'[v] = "woken"
        PROVE  outputQueues'[call'[v].key] = held'[v] \/ queue'[held'[v]].closed
    <3>1. pc[v] \in {"waiting", "woken"} /\ v \in Inside(held[v]) /\ held[v] \in Queues
      BY <1>1, <1>17, <2>4 DEF Inside, Typed, CallsTyped
    <3>2. CASE outputQueues[call[v].key] = held[v]
      BY <1>2, <1>21, <3>1, <3>2
    <3>3. CASE queue[held[v]].closed
      <4>1. held[v] # q
        BY <1>6, <3>3
      <4> QED BY <1>2, <1>14, <3>1, <3>3, <4>1
    <3> QED BY <1>1, <3>1, <3>2, <3>3 DEF Heap
  <2>5. ASSUME NEW x \in Queues PROVE queue'[x].writers = Cardinality(Inside(x)')
    <3>1. queue'[x].writers = queue[x].writers
      BY <1>10, <1>14
    <3> QED BY <1>1, <1>19, <3>1 DEF Heap
  <2> QED BY <2>1, <2>2, <2>3, <2>4, <2>5 DEF Heap
<1>27. Lists'
  <2>1. ASSUME NEW j \in Keys, outputQueues'[j] # NoQueue
        PROVE  queue'[outputQueues'[j]].active <=> queue'[outputQueues'[j]].items # <<>>
    <3>1. CASE j = k
      BY <1>10, <1>13, <1>14, <2>1, <3>1
    <3>2. CASE j # k
      BY <1>1, <1>14, <1>15, <1>20, <2>1, <3>2 DEF Lists
    <3> QED BY <3>1, <3>2
  <2>2. CASE ~last
    <3>1. outputQueues'[k] = q /\ o.items # <<>>
      <4>1. o.items # <<>>
        BY <1>10, <1>11, <2>2
      <4>2. ~Drained(r)
        BY <1>7, <1>9, <1>11, <2>2
      <4> QED BY <1>13, <4>1, <4>2
    <3>2. ASSUME NEW j \in Keys
          PROVE  outputQueues[j] # NoQueue /\ queue[outputQueues[j]].items # <<>> <=>
                   outputQueues'[j] # NoQueue /\ queue'[outputQueues'[j]].items # <<>>
      <4>1. CASE j = k
        BY <1>6, <1>14, <3>1, <4>1 DEF q
      <4>2. CASE j # k
        BY <1>13, <1>14, <1>15, <4>2
      <4> QED BY <4>1, <4>2
    <3>3. /\ UNCHANGED activeOutputs
          /\ \A x \in Priorities : activeOutputs[x] \in Seq(Keys)
          /\ \A x \in Priorities : rrIndex'[x] = 0 \/ rrIndex'[x] < Len(activeOutputs[x])
      BY <1>1, <1>2, <1>23, <2>2 DEF Typed, TypeOK
    <3> QED BY <1>1, <2>1, <3>2, <3>3, ListsFrame
  <2>3. CASE last
    <3>1. activeOutputs'[p] = rest /\ \A x \in Priorities \ {p} : activeOutputs'[x] = activeOutputs[x]
      BY <1>1, <1>2, <2>3 DEF Typed, TypeOK
    <3> DEFINE old(x, i) == IF x = p /\ i > idx THEN i + 1 ELSE i
    <3>2. ASSUME NEW x \in Priorities, NEW i \in DOMAIN activeOutputs'[x]
          PROVE  /\ old(x, i) \in DOMAIN activeOutputs[x] /\ i \in Nat
                 /\ activeOutputs'[x][i] = activeOutputs[x][old(x, i)]
                 /\ x = p => old(x, i) # idx + 1
      <4>1. CASE x = p
        <5>1. i \in 1 .. Len(list) - 1
          BY <1>22, <3>1, <3>2, <4>1
        <5> QED BY <1>3, <1>4, <1>22, <3>1, <4>1, <5>1 DEF list
      <4>2. CASE x # p
        <5>1. activeOutputs[x] \in Seq(Keys)
          BY <1>1 DEF Typed, TypeOK
        <5> QED BY <3>1, <3>2, <4>2, <5>1
      <4> QED BY <4>1, <4>2
    <3>3. ASSUME NEW x \in Priorities, NEW i \in DOMAIN activeOutputs'[x]
          PROVE  activeOutputs'[x][i] \in Keys \ {k}
      <4>1. activeOutputs'[x][i] \in Keys
        BY <1>23
      <4>2. activeOutputs[x][old(x, i)] # activeOutputs[p][idx + 1]
        <5> HIDE DEF old
        <5> QED BY <1>1, <1>4, <3>2 DEF Lists, ActiveEntriesHaveItems, list
      <4> HIDE DEF old
      <4> QED BY <1>5, <3>2, <4>1, <4>2 DEF list
    <3>4. ASSUME NEW x \in Priorities, NEW i \in DOMAIN activeOutputs'[x]
          PROVE  /\ outputQueues'[activeOutputs'[x][i]] # NoQueue
                 /\ queue'[outputQueues'[activeOutputs'[x][i]]].items # <<>>
                 /\ queue'[outputQueues'[activeOutputs'[x][i]]].active
      <4> DEFINE j == activeOutputs'[x][i]
      <4> HIDE DEF old
      <4>1. j \in Keys \ {k}
        BY <3>3
      <4>2. outputQueues[j] # NoQueue /\ queue[outputQueues[j]].items # <<>> /\ queue[outputQueues[j]].active
        BY <1>1, <3>2 DEF Lists, ActiveEntriesHaveItems
      <4> HIDE DEF j
      <4>3. outputQueues'[j] = outputQueues[j] /\ queue'[outputQueues[j]] = queue[outputQueues[j]]
        BY <1>13, <1>14, <1>15, <4>1, <4>2
      <4> QED BY <4>2, <4>3 DEF j
    <3>5. ASSUME NEW j \in Keys, outputQueues'[j] # NoQueue, queue'[outputQueues'[j]].items # <<>>
          PROVE  \E x \in Priorities : \E i \in DOMAIN activeOutputs'[x] : activeOutputs'[x][i] = j
      <4>1. j # k
        BY <1>10, <1>11, <1>13, <1>14, <2>3, <3>5
      <4>2. outputQueues[j] # NoQueue /\ queue[outputQueues[j]].items # <<>>
        BY <1>13, <1>14, <1>15, <1>20, <3>5, <4>1
      <4>0. PICK x \in Priorities : \E i \in DOMAIN activeOutputs[x] : activeOutputs[x][i] = j
        BY <1>1, <4>2 DEF Lists, ActiveEntriesHaveItems
      <4>3. PICK i \in DOMAIN activeOutputs[x] : activeOutputs[x][i] = j
        BY <4>0
      <4>4. CASE x # p
        BY <3>1, <4>3, <4>4
      <4>5. CASE x = p
        <5> DEFINE n == IF i <= idx THEN i ELSE i - 1
        <5>1. i \in 1 .. Len(list) /\ i # idx + 1
          BY <1>3, <1>5, <4>1, <4>3, <4>5 DEF list
        <5>2. n \in 1 .. Len(list) - 1 /\ rest[n] = list[i]
          BY <1>3, <1>4, <1>22, <5>1
        <5> HIDE DEF n
        <5> QED BY <1>3, <1>22, <3>1, <4>3, <4>5, <5>2 DEF list
      <4> QED BY <4>4, <4>5
    <3>6. ASSUME NEW x \in Priorities, NEW y \in Priorities,
                 NEW i \in DOMAIN activeOutputs'[x], NEW j \in DOMAIN activeOutputs'[y],
                 activeOutputs'[x][i] = activeOutputs'[y][j]
          PROVE  x = y /\ i = j
      <4>1. x = y /\ old(x, i) = old(y, j)
        <5> HIDE DEF old
        <5> QED BY <1>1, <3>2, <3>6 DEF Lists, ActiveEntriesHaveItems
      <4>2. i \in Nat /\ j \in Nat /\ idx \in Nat
        BY <1>4, <3>2
      <4> QED BY <4>1, <4>2
    <3>7. ActiveEntriesHaveItems'
      BY <3>4, <3>5, <3>6 DEF ActiveEntriesHaveItems
    <3> QED BY <1>23, <2>1, <3>7 DEF Lists
  <2> QED BY <2>2, <2>3
<1>28. Fresh'
  <2>1. ASSUME clearing' = {}, NEW j \in Keys, outputQueues'[j] # NoQueue,
               NEW i \in DOMAIN queue'[outputQueues'[j]].items
        PROVE  queue'[outputQueues'[j]].items[i].gen = generation'
    <3>1. CASE j = k
      <4>1. queue'[outputQueues'[j]].items = Tail(queue[q].items)
        BY <1>10, <1>13, <1>14, <2>1, <3>1
      <4>2. queue[q].items \in Seq(Item)
        BY <1>6 DEF QueueRecord
      <4>3. i + 1 \in DOMAIN queue[q].items /\ Tail(queue[q].items)[i] = queue[q].items[i + 1]
        BY <1>6, <2>1, <4>1, <4>2
      <4>4. clearing = {} /\ generation' = generation /\ k \in Keys /\ outputQueues[k] # NoQueue
        BY <1>2, <1>5, <1>6, <2>1 DEF q
      <4>5. queue[q].items[i + 1].gen = generation
        BY <1>1, <4>3, <4>4 DEF Fresh, NoStaleItems, q
      <4> QED BY <4>1, <4>3, <4>4, <4>5
    <3>2. CASE j # k
      <4>1. outputQueues[j] = outputQueues'[j] /\ queue'[outputQueues'[j]] = queue[outputQueues[j]]
        BY <1>14, <1>15, <1>20, <2>1, <3>2
      <4> QED BY <1>1, <1>2, <2>1, <4>1 DEF Fresh, NoStaleItems
    <3> QED BY <3>1, <3>2
  <2>2. ASSUME NEW v \in Writers, pc'[v] \in {"waiting", "woken"},
               outputQueues'[call'[v].key] = held'[v]
        PROVE  call'[v].gen = generation' \/ clearing' # {}
    <3>1. pc[v] \in {"waiting", "woken"} /\ call[v].key \in Keys /\ held[v] \in Queues
      BY <1>1, <1>17, <2>2 DEF Typed, CallsTyped, Call
    <3>2. outputQueues[call[v].key] = held[v]
      BY <1>2, <1>20, <2>2, <3>1, NoQueueAssumption
    <3> QED BY <1>1, <1>2, <3>1, <3>2 DEF Fresh
  <2> QED BY <2>1, <2>2 DEF Fresh, NoStaleItems
<1>29. NoLostWakeup'
  <2>1. ASSUME NEW v \in Writers, pc'[v] = "waiting"
        PROVE  /\ \E j \in Keys : outputQueues'[j] = held'[v]
               /\ \/ queue'[held'[v]].items # <<>>
                  \/ \E u \in Writers : pc'[u] = "woken" /\ held'[u] = held'[v]
                  \/ clearing' # {}
                  \/ ctxDone'
    <3>1. /\ pc[v] = "waiting" /\ held'[v] = held[v] /\ held[v] \in Queues
          /\ call'[v].key \in Keys /\ held' = held
      BY <1>1, <1>2, <1>17, <2>1 DEF Typed, CallsTyped, Call
    <3>2. \E j \in Keys : outputQueues'[j] = held'[v]
      BY <1>26, <2>1, <3>1 DEF Heap
    <3>3. CASE held[v] = q
      BY <1>18, <3>1, <3>2, <3>3
    <3>4. CASE held[v] # q
      <4>1. \/ queue[held[v]].items # <<>>
            \/ \E u \in Writers : pc[u] = "woken" /\ held[u] = held[v]
            \/ clearing # {}
            \/ ctxDone
        BY <1>1, <3>1 DEF NoLostWakeup
      <4> QED BY <1>2, <1>14, <1>17, <3>1, <3>2, <3>4, <4>1
    <3> QED BY <3>3, <3>4
  <2> QED BY <2>1 DEF NoLostWakeup, Mapped
<1>30. DrainedQueueIsDeleted'
  <2>1. ASSUME NEW j \in Keys, outputQueues'[j] # NoQueue PROVE ~Drained(queue'[outputQueues'[j]])
    <3>1. CASE j = k
      BY <1>13, <1>14, <2>1, <3>1 DEF o
    <3>2. CASE j # k
      BY <1>1, <1>14, <1>15, <1>20, <2>1, <3>2 DEF DrainedQueueIsDeleted
    <3> QED BY <3>1, <3>2
  <2> QED BY <2>1 DEF DrainedQueueIsDeleted, Drained
<1> QED BY <1>24, <1>25, <1>26, <1>27, <1>28, <1>29, <1>30 DEF IInv

-----------------------------------------------------------------------------
(* A reset swaps the maps.                                                 *)

LEMMA ClearQueuesPreserves ==
  ASSUME IInv, NEW t \in Resetters, ClearQueues(t)
  PROVE  IInv'
<1>1. Typed /\ Heap /\ Accounts
  BY DEF IInv
<1>2. /\ queue' = [q \in Queues |->
            IF ~Mapped(q) THEN queue[q]
            ELSE IF queue[q].writers = 0 THEN Blank
            ELSE [queue[q] EXCEPT !.closed = TRUE]]
      /\ pc' = [w \in Writers |-> IF pc[w] = "waiting" /\ Mapped(held[w]) THEN "woken" ELSE pc[w]]
      /\ outputQueues' = [k \in Keys |-> NoQueue]
      /\ completed' = {}
      /\ activeOutputs' = [p \in Priorities |-> <<>>]
      /\ rrIndex' = [p \in Priorities |-> 0]
      /\ clearing' \subseteq clearing
      /\ UNCHANGED <<generation, call, held, outputReady, ctxDone>>
  BY DEF ClearQueues, Broadcast
<1>3. ASSUME NEW q \in Queues
      PROVE  /\ queue'[q] \in QueueRecord /\ Accounted(queue'[q]) /\ Bounded(queue'[q])
             /\ queue'[q].writers = queue[q].writers
             /\ Mapped(q) /\ queue[q].writers # 0 => queue'[q].closed
             /\ ~Mapped(q) => queue'[q] = queue[q]
  <2> DEFINE c == [queue[q] EXCEPT !.closed = TRUE]
  <2>1. queue[q] \in QueueRecord /\ Accounted(queue[q]) /\ Bounded(queue[q])
    BY <1>1 DEF Typed, TypeOK, Accounts
  <2>2. /\ c \in QueueRecord /\ c.items = queue[q].items /\ c.bytes = queue[q].bytes
        /\ c.writers = queue[q].writers /\ c.closed
    BY <2>1 DEF QueueRecord
  <2>3. queue'[q] = IF ~Mapped(q) THEN queue[q] ELSE IF queue[q].writers = 0 THEN Blank ELSE c
    BY <1>2
  <2> HIDE DEF c
  <2>4. Accounted(c) /\ Bounded(c)
    BY <2>1, <2>2 DEF Accounted, RunningSum, Bounded
  <2>5. Blank.writers = 0
    BY DEF Blank
  <2> QED BY <2>1, <2>2, <2>3, <2>4, <2>5, BlankObject
<1>4. \A v \in Writers : pc[v] = "waiting" => Mapped(held[v])
  BY <1>1 DEF Heap, Mapped, Typed, CallsTyped, Call
<1>5. /\ pc' \in [Writers -> {"idle", "enter", "waiting", "woken", "notify"}]
      /\ \A v \in Writers : pc'[v] # "waiting"
      /\ \A v \in Writers : pc'[v] = pc[v] \/ (pc[v] = "waiting" /\ pc'[v] = "woken")
  BY <1>1, <1>2, <1>4 DEF Typed, TypeOK
<1>6. \A x : Inside(x)' = Inside(x)
  <2>1. held' = held
    BY <1>2
  <2> QED BY <1>5, <2>1 DEF Inside
<1>7. \A k \in Keys : outputQueues'[k] = NoQueue
  BY <1>2
<1>8. Typed'
  <2>1. queue' \in [Queues -> QueueRecord]
    BY <1>2, <1>3
  <2>2. <<>> \in Seq(Keys)
    OBVIOUS
  <2>3. TypeOK'
    BY <1>1, <1>2, <1>5, <2>1, <2>2 DEF Typed, TypeOK
  <2>4. CallsTyped'
    BY <1>1, <1>2, <1>5 DEF Typed, CallsTyped
  <2> QED BY <2>3, <2>4 DEF Typed
<1>9. Accounts'
  BY <1>3 DEF Accounts
<1>10. ASSUME NEW v \in Writers, pc'[v] = "woken" PROVE queue'[held'[v]].closed
  <2>1. /\ pc[v] \in {"waiting", "woken"} /\ held[v] \in Queues /\ v \in Inside(held[v])
        /\ held'[v] = held[v] /\ call[v].key \in Keys
    BY <1>1, <1>2, <1>5, <1>10 DEF Inside, Typed, CallsTyped, Call
  <2>2. CASE Mapped(held[v])
    <3>1. queue[held[v]].writers # 0
      BY <1>1, <2>1, NobodyInside
    <3> QED BY <1>3, <2>1, <2>2, <3>1
  <2>3. CASE ~Mapped(held[v])
    <3>1. queue[held[v]].closed
      BY <1>1, <1>4, <2>1, <2>3 DEF Heap, Mapped
    <3> QED BY <1>3, <2>1, <2>3, <3>1
  <2> QED BY <2>2, <2>3
<1>11. Heap'
  <2>1. \A x \in Queues : queue'[x].writers = Cardinality(Inside(x)')
    BY <1>1, <1>3, <1>6 DEF Heap
  <2> QED BY <1>5, <1>7, <1>10, <2>1 DEF Heap
<1>12. Lists'
  <2>1. \A p \in Priorities : activeOutputs'[p] = <<>> /\ rrIndex'[p] = 0
    BY <1>2
  <2>2. DOMAIN <<>> = {}
    OBVIOUS
  <2> QED BY <1>7, <2>1, <2>2 DEF Lists, ActiveEntriesHaveItems
<1>13. Fresh'
  <2>1. ASSUME NEW v \in Writers, pc'[v] \in {"waiting", "woken"}
        PROVE  outputQueues'[call'[v].key] # held'[v]
    BY <1>1, <1>2, <1>5, <1>7, <2>1, NoQueueAssumption DEF Typed, CallsTyped, Call
  <2> QED BY <1>7, <2>1 DEF Fresh, NoStaleItems
<1>14. NoLostWakeup' /\ DrainedQueueIsDeleted'
  BY <1>5, <1>7 DEF NoLostWakeup, DrainedQueueIsDeleted
<1> QED BY <1>8, <1>9, <1>11, <1>12, <1>13, <1>14 DEF IInv

-----------------------------------------------------------------------------
(* The theorems.                                                           *)

LEMMA InitEstablishes == Init => IInv
<1> SUFFICES ASSUME Init PROVE IInv
  OBVIOUS
<1>1. \A q \in Queues : queue[q] = Blank
  BY DEF Init
<1>2. \A q : Inside(q) = {}
  BY DEF Init, Inside
<1>3. Typed
  <2>1. Blank \in QueueRecord
    BY BlankObject
  <2>2. queue \in [Queues -> QueueRecord]
    BY <2>1 DEF Init
  <2>3. activeOutputs \in [Priorities -> Seq(Keys)] /\ rrIndex \in [Priorities -> Nat]
    BY DEF Init
  <2>4. /\ pc \in [Writers -> {"idle", "enter", "waiting", "woken", "notify"}]
        /\ call \in [Writers -> Call \cup {NoCall}]
        /\ held \in [Writers -> Queues \cup {NoQueue}]
        /\ outputQueues \in [Keys -> Queues \cup {NoQueue}]
    BY DEF Init
  <2>5. TypeOK
    <3>1. generation \in Nat \ {0} /\ completed \subseteq Keys /\ clearing \subseteq Resetters
      BY DEF Init
    <3>2. outputReady \in BOOLEAN /\ ctxDone \in BOOLEAN
      BY DEF Init
    <3> QED BY <2>2, <2>3, <2>4, <3>1, <3>2 DEF TypeOK
  <2>6. CallsTyped
    BY DEF Init, CallsTyped
  <2> QED BY <2>5, <2>6 DEF Typed
<1>4. Heap
  <2>1. \A q \in Queues : queue[q].writers = Cardinality(Inside(q))
    <3>1. Cardinality({}) = 0
      BY FS_EmptySet
    <3>2. Blank.writers = 0
      BY DEF Blank
    <3> QED BY <1>1, <1>2, <3>1, <3>2
  <2> QED BY <2>1 DEF Init, Heap
<1>5. Accounts
  BY <1>1, BlankObject DEF Accounts
<1>6. Lists
  <2>1. DOMAIN <<>> = {}
    OBVIOUS
  <2> QED BY <2>1 DEF Init, Lists, ActiveEntriesHaveItems
<1>7. Fresh /\ NoLostWakeup /\ DrainedQueueIsDeleted
  BY DEF Init, Fresh, NoStaleItems, NoLostWakeup, DrainedQueueIsDeleted
<1> QED BY <1>3, <1>4, <1>5, <1>6, <1>7 DEF IInv

LEMMA TryAppendPreserves ==
  ASSUME IInv, NEW w \in Writers, NEW q, NEW r, NEW m, Section(w, q, r, m),
         TryAppend(w, q, r, m)
  PROVE  IInv'
<1>1. UNCHANGED <<generation, rrIndex, outputReady, clearing, ctxDone>>
  BY DEF TryAppend
<1>2. CASE AppendItem(w, q, r, m)
  BY <1>1, <1>2, AppendPreserves
<1>3. CASE WaitForRoom(w, q, r, m)
  BY <1>1, <1>3, WaitPreserves
<1>4. CASE GiveUp(w, q, r, m)
  BY <1>1, <1>4, GiveUpPreserves
<1> QED BY <1>2, <1>3, <1>4 DEF TryAppend

LEMMA NextPreserves == IInv /\ [Next]_vars => IInv'
<1> SUFFICES ASSUME IInv, [Next]_vars PROVE IInv'
  OBVIOUS
<1>1. ASSUME NEW w \in Writers, NEW k \in Keys, NEW p \in Priorities, NEW m \in Messages,
             NEW s \in Sizes, Begin(w, k, p, m, s)
      PROVE  IInv'
  BY <1>1, BeginPreserves
<1>2. ASSUME NEW w \in Writers, NEW q \in Queues, Enter(w, q) PROVE IInv'
  <2>1. PICK r, m : Section(w, q, r, m) /\ TryAppend(w, q, r, m)
    BY <1>2, EnterSection
  <2> QED BY <2>1, TryAppendPreserves
<1>3. ASSUME NEW w \in Writers, NEW q \in Queues, Resume(w, q) PROVE IInv'
  <2>1. PICK r, m : Section(w, q, r, m) /\ TryAppend(w, q, r, m)
    BY <1>3, ResumeSection
  <2> QED BY <2>1, TryAppendPreserves
<1>4. ASSUME NEW w \in Writers, Notify(w) PROVE IInv'
  BY <1>4, NotifyPreserves
<1>5. ASSUME NEW p \in Priorities, Dequeue(p) PROVE IInv'
  BY <1>5, DequeuePreserves
<1>6. CASE TakeReady
  BY <1>6, TakeReadyPreserves
<1>7. ASSUME NEW k \in Keys, MarkComplete(k) PROVE IInv'
  BY <1>7, MarkCompletePreserves
<1>8. CASE CancelContext
  BY <1>8, CancelContextPreserves
<1>9. ASSUME NEW t \in Resetters, BumpGeneration(t) PROVE IInv'
  BY <1>9, BumpGenerationPreserves
<1>10. ASSUME NEW t \in Resetters, ClearQueues(t) PROVE IInv'
  BY <1>10, ClearQueuesPreserves
<1>11. CASE UNCHANGED vars
  <2>1. Typed'
    BY <1>11 DEF IInv, Typed, TypeOK, CallsTyped, vars
  <2> QED BY <1>11, <2>1, QuietPreserves DEF vars
<1> QED BY <1>1, <1>2, <1>3, <1>4, <1>5, <1>6, <1>7, <1>8, <1>9, <1>10, <1>11 DEF Next

LEMMA Invariance == Spec => []IInv
BY InitEstablishes, NextPreserves, PTL DEF Spec

\* Every step of the queues, blocked writers and resets keeps their types: no
\* count of blocked writers ever goes below zero.
THEOREM TypeCorrect == Spec => []TypeOK
<1>1. IInv => TypeOK
  BY DEF IInv, Typed
<1> QED BY <1>1, Invariance, PTL

\* However many goroutines write, block and are signalled, no session's queue
\* outgrows sessionQueueMaxMessages and sessionQueueMaxBytes.
THEOREM BoundedQueues == Spec => []QueueBounds
<1>1. IInv => QueueBounds
  BY DEF IInv, Accounts, Bounded, QueueBounds
<1> QED BY <1>1, Invariance, PTL

\* The active lists hold exactly the sessions that have output, each once, so
\* dequeueOutputForPriorityLocked finds all of it.
THEOREM ActiveListsExact == Spec => []ActiveEntriesHaveItems
<1>1. IInv => ActiveEntriesHaveItems
  BY DEF IInv, Lists
<1> QED BY <1>1, Invariance, PTL

\* After a reset no queue holds output that an older runtime queued.
THEOREM NoStaleOutput == Spec => []NoStaleItems
<1>1. IInv => NoStaleItems
  BY DEF IInv, Fresh
<1> QED BY <1>1, Invariance, PTL

\* A goroutine blocked in q.full.Wait is never forgotten: an item of its queue
\* or another signalled writer, a reset or the cancelled context is there to
\* release it.
THEOREM WakeupsKept == Spec => []NoLostWakeup
<1>1. IInv => NoLostWakeup
  BY DEF IInv
<1> QED BY <1>1, Invariance, PTL

\* No critical section leaves a complete, empty and unused queue in the map.
THEOREM DrainedQueuesDeleted == Spec => []DrainedQueueIsDeleted
<1>1. IInv => DrainedQueueIsDeleted
  BY DEF IInv
<1> QED BY <1>1, Invariance, PTL

-----------------------------------------------------------------------------
(* What the steps do to the streams of SessionStreams.                     *)

\* The items of session k on their way to the server: stream of Promise.
StreamOf(k) == IF outputQueues[k] = NoQueue THEN <<>> ELSE queue[outputQueues[k]].items

StreamsStay == \A k \in Keys : StreamOf(k)' = StreamOf(k)

\* Writer w of the current generation puts its item behind those of its session.
Appends(w) ==
  LET c == call[w] IN
  /\ c.gen = generation
  /\ Len(StreamOf(c.key)) < MaxMessages
  /\ \A k \in Keys :
       StreamOf(k)' = IF k = c.key THEN Append(StreamOf(k), ItemOf(c)) ELSE StreamOf(k)
  /\ \A p \in Priorities : activeOutputs[p] # <<>> => activeOutputs'[p] # <<>>
  /\ pc' = [pc EXCEPT ![w] = "notify"]
  /\ call' = [call EXCEPT ![w] = NoCall]

Waits(w) == StreamsStay /\ pc' = [pc EXCEPT ![w] = "waiting"] /\ UNCHANGED <<call, activeOutputs>>

Leaves(w) ==
  /\ StreamsStay
  /\ pc' = [pc EXCEPT ![w] = "idle"]
  /\ call' = [call EXCEPT ![w] = NoCall]
  /\ UNCHANGED activeOutputs

\* A step that leaves the queues alone leaves the streams alone.
LEMMA StreamsFrame == UNCHANGED <<queue, outputQueues>> => StreamsStay
BY DEF StreamsStay, StreamOf

LEMMA StreamsTyped ==
  ASSUME IInv
  PROVE  \A k \in Keys : StreamOf(k) \in Seq(Item)
BY DEF StreamOf, IInv, Typed, TypeOK, QueueRecord

\* What the critical section of w does outside of its own cell.
LEMMA SectionStreams ==
  ASSUME IInv, NEW w \in Writers, NEW q, NEW r, NEW m, Section(w, q, r, m)
  PROVE  /\ call[w] \in Call /\ call[w].key \in Keys /\ q \in Queues /\ q # NoQueue
         /\ r \in QueueRecord
         /\ \A j \in Keys \ {call[w].key} : m[j] = outputQueues[j] /\ m[j] # q
         /\ m[call[w].key] = q => StreamOf(call[w].key) = r.items
         /\ m[call[w].key] # q => m = outputQueues
         /\ m \in [Keys -> Queues \cup {NoQueue}]
         /\ queue \in [Queues -> QueueRecord]
<1> DEFINE k == call[w].key
<1>1. /\ SectionMap(k, q, r, m) /\ call[w] \in Call /\ k \in Keys /\ q \in Queues
      /\ r \in QueueRecord /\ m \in [Keys -> Queues \cup {NoQueue}]
  BY DEF Section, SectionTyped, Call
<1>2. q # NoQueue /\ queue \in [Queues -> QueueRecord]
  BY <1>1, NoQueueAssumption DEF IInv, Typed, TypeOK
<1> HIDE DEF k
<1>3. m[k] = q => StreamOf(k) = r.items
  BY <1>1, <1>2 DEF SectionMap, StreamOf
<1> QED BY <1>1, <1>2, <1>3 DEF SectionMap, k

LEMMA AppendStreams ==
  ASSUME IInv, NEW w \in Writers, NEW q, NEW r, NEW m, Section(w, q, r, m),
         AppendItem(w, q, r, m)
  PROVE  Appends(w)
<1> PICK k \in Keys : k = call[w].key
  BY SectionStreams
<1> PICK it : it = ItemOf(call[w])
  OBVIOUS
<1>1. /\ k \in Keys /\ q \in Queues /\ q # NoQueue /\ r \in QueueRecord
      /\ \A j \in Keys \ {k} : m[j] = outputQueues[j] /\ m[j] # q
      /\ m[k] = q => StreamOf(k) = r.items
      /\ m \in [Keys -> Queues \cup {NoQueue}]
      /\ queue \in [Queues -> QueueRecord]
  BY SectionStreams
<1>2. /\ ~r.closed /\ call[w].gen = generation /\ ~WouldBlock(r, call[w].size)
      /\ queue' = [queue EXCEPT ![q] = Push(r, it)] /\ outputQueues' = m
      /\ pc' = [pc EXCEPT ![w] = "notify"]
      /\ call' = [call EXCEPT ![w] = NoCall]
  BY DEF AppendItem, Rejected
<1>3. m[k] = q
  BY <1>2 DEF Section, SectionMap
<1>4. Push(r, it).items = Append(r.items, it)
  BY <1>1 DEF Push, QueueRecord
<1>5. Len(StreamOf(k)) < MaxMessages
  BY <1>1, <1>2, <1>3, BoundsAssumption DEF WouldBlock, QueueRecord
<1>6. StreamOf(k)' = Append(StreamOf(k), it)
  BY <1>1, <1>2, <1>3, <1>4 DEF StreamOf
<1>7. \A j \in Keys \ {k} : StreamOf(j)' = StreamOf(j)
  BY <1>1, <1>2 DEF StreamOf
<1>8. \A p \in Priorities : activeOutputs[p] # <<>> => activeOutputs'[p] # <<>>
  <2>1. activeOutputs \in [Priorities -> Seq(Keys)]
    BY DEF IInv, Typed, TypeOK
  <2>2. \/ activeOutputs' = activeOutputs
        \/ activeOutputs' = [activeOutputs EXCEPT ![r.priority] = Append(@, k)]
    BY DEF AppendItem
  <2>3. \A s \in Seq(Keys) : Append(s, k) # <<>>
    OBVIOUS
  <2> QED BY <2>1, <2>2, <2>3
<1> QED BY <1>2, <1>5, <1>6, <1>7, <1>8 DEF Appends

LEMMA WaitStreams ==
  ASSUME IInv, NEW w \in Writers, NEW q, NEW r, NEW m, Section(w, q, r, m),
         WaitForRoom(w, q, r, m)
  PROVE  Waits(w)
<1> PICK k \in Keys : k = call[w].key
  BY SectionStreams
<1> DEFINE o == [r EXCEPT !.writers = @ + 1]
<1>1. /\ k \in Keys /\ q \in Queues /\ q # NoQueue /\ r \in QueueRecord
      /\ \A j \in Keys \ {k} : m[j] = outputQueues[j] /\ m[j] # q
      /\ m[k] = q => StreamOf(k) = r.items
      /\ queue \in [Queues -> QueueRecord]
  BY SectionStreams
<1>2. /\ ~r.closed /\ queue' = [queue EXCEPT ![q] = o] /\ outputQueues' = m
      /\ pc' = [pc EXCEPT ![w] = "waiting"]
      /\ UNCHANGED <<activeOutputs, call>>
  BY DEF WaitForRoom, Rejected
<1>3. m[k] = q
  BY <1>2 DEF Section, SectionMap
<1>4. o.items = r.items
  BY <1>1 DEF QueueRecord
<1> HIDE DEF o
<1>5. StreamOf(k)' = StreamOf(k)
  BY <1>1, <1>2, <1>3, <1>4 DEF StreamOf
<1>6. \A j \in Keys \ {k} : StreamOf(j)' = StreamOf(j)
  BY <1>1, <1>2 DEF StreamOf
<1> QED BY <1>2, <1>5, <1>6 DEF Waits, StreamsStay

LEMMA GiveUpStreams ==
  ASSUME IInv, NEW w \in Writers, NEW q, NEW r, NEW m, Section(w, q, r, m),
         GiveUp(w, q, r, m)
  PROVE  Leaves(w)
<1> PICK k \in Keys : k = call[w].key
  BY SectionStreams
<1>1. /\ k \in Keys /\ q \in Queues /\ q # NoQueue /\ r \in QueueRecord
      /\ \A j \in Keys \ {k} : m[j] = outputQueues[j] /\ m[j] # q
      /\ m[k] = q => StreamOf(k) = r.items
      /\ m[k] # q => m = outputQueues
      /\ m \in [Keys -> Queues \cup {NoQueue}]
      /\ queue \in [Queues -> QueueRecord]
  BY SectionStreams
<1>2. /\ Release(k, q, r, m)
      /\ pc' = [pc EXCEPT ![w] = "idle"]
      /\ call' = [call EXCEPT ![w] = NoCall]
      /\ UNCHANGED activeOutputs
  BY DEF GiveUp
<1>3. /\ \A x \in Queues \ {q} : queue'[x] = queue[x]
      /\ \A j \in Keys \ {k} : outputQueues'[j] = outputQueues[j] /\ outputQueues[j] # q
  BY <1>1, <1>2 DEF Release
<1>4. \A j \in Keys \ {k} : StreamOf(j)' = StreamOf(j)
  <2>1. outputQueues \in [Keys -> Queues \cup {NoQueue}]
    BY DEF IInv, Typed, TypeOK
  <2> QED BY <1>3, <2>1 DEF StreamOf
<1>5. StreamOf(k)' = StreamOf(k)
  <2>1. CASE m[k] = q /\ Drained(r)
    <3>1. outputQueues'[k] = NoQueue /\ r.items = <<>>
      BY <1>1, <1>2, <2>1 DEF Release, Drained
    <3> QED BY <1>1, <2>1, <3>1 DEF StreamOf
  <2>2. CASE m[k] = q /\ ~Drained(r)
    <3>1. outputQueues'[k] = q /\ queue'[q] = r
      BY <1>1, <1>2, <2>2 DEF Release
    <3> QED BY <1>1, <2>2, <3>1 DEF StreamOf
  <2>3. CASE m[k] # q
    <3>1. outputQueues'[k] = outputQueues[k] /\ outputQueues[k] # q
      BY <1>1, <1>2, <2>3 DEF Release
    <3>2. outputQueues[k] \in Queues \cup {NoQueue}
      BY <1>1 DEF IInv, Typed, TypeOK
    <3> QED BY <1>3, <3>1, <3>2 DEF StreamOf
  <2> QED BY <2>1, <2>2, <2>3
<1> QED BY <1>2, <1>4, <1>5 DEF Leaves, StreamsStay

\* A writer that gets the lock appends its item, waits, or leaves.
LEMMA WriterStreams ==
  ASSUME IInv, NEW w \in Writers, NEW q \in Queues, Enter(w, q) \/ Resume(w, q)
  PROVE  /\ pc[w] \in {"enter", "woken"} /\ call[w] \in Call
         /\ UNCHANGED <<generation, rrIndex, outputReady, clearing, ctxDone>>
         /\ Appends(w) \/ Waits(w) \/ Leaves(w)
<1>1. PICK r, m : Section(w, q, r, m) /\ TryAppend(w, q, r, m)
  BY EnterSection, ResumeSection
<1>2. pc[w] \in {"enter", "woken"} /\ call[w] \in Call
  BY <1>1 DEF Section, SectionTyped
<1>3. UNCHANGED <<generation, rrIndex, outputReady, clearing, ctxDone>>
  BY <1>1 DEF TryAppend
<1>4. Appends(w) \/ Waits(w) \/ Leaves(w)
  BY <1>1, AppendStreams, WaitStreams, GiveUpStreams DEF TryAppend
<1> QED BY <1>2, <1>3, <1>4

\* The websocket writer takes the first item of the session in front.
LEMMA DequeueStreams ==
  ASSUME IInv, NEW p \in Priorities, Dequeue(p)
  PROVE  /\ Front(p) \in Keys /\ StreamOf(Front(p)) # <<>>
         /\ StreamOf(Front(p)) = queue[outputQueues[Front(p)]].items
         /\ outputQueues[Front(p)] # NoQueue
         /\ \A k \in Keys :
              StreamOf(k)' = IF k = Front(p) THEN Tail(StreamOf(k)) ELSE StreamOf(k)
         /\ \A v \in Writers : pc'[v] = pc[v] \/ (pc[v] = "waiting" /\ pc'[v] = "woken")
         /\ UNCHANGED <<generation, call, outputReady, clearing, ctxDone>>
         /\ \A x \in Priorities \ {p} : activeOutputs'[x] = activeOutputs[x]
<1> DEFINE list == activeOutputs[p]
           idx == rrIndex[p] % Len(list)
<1>1. Typed /\ Heap /\ Accounts /\ Lists
  BY DEF IInv
<1>2. /\ list # <<>> /\ list \in Seq(Keys) /\ Len(list) \in Nat /\ Len(list) > 0
      /\ rrIndex[p] \in Nat
  BY <1>1 DEF Dequeue, Typed, TypeOK
<1>3. idx + 1 \in DOMAIN list
  <2>1. idx \in 0 .. Len(list) - 1
    BY <1>2
  <2> HIDE DEF list, idx
  <2> QED BY <1>2, <2>1
<1>4. PICK k \in Keys : k = Front(p) /\ k = list[idx + 1]
  BY <1>2, <1>3 DEF Front
<1> PICK q : q = outputQueues[k]
  OBVIOUS
<1> PICK r : r = Pop(queue[q])
  OBVIOUS
<1>5. /\ q # NoQueue /\ q \in Queues /\ queue[q] \in QueueRecord /\ queue[q].items # <<>>
      /\ Accounted(queue[q]) /\ Bounded(queue[q])
  <2>1. q # NoQueue /\ queue[q].items # <<>>
    BY <1>1, <1>3, <1>4 DEF Lists, ActiveEntriesHaveItems
  <2> QED BY <1>1, <1>4, <2>1 DEF Typed, TypeOK, Accounts
<1>6. Release(k, q, r, outputQueues) /\ Signal(q)
      /\ UNCHANGED <<generation, call, outputReady, clearing, ctxDone>>
      /\ \A x \in Priorities \ {p} : activeOutputs'[x] = activeOutputs[x]
  BY <1>1, <1>4 DEF Dequeue, Typed, TypeOK
<1>7. r.items = Tail(queue[q].items)
  BY <1>5, PopObject
<1> HIDE DEF list, idx
<1>8. /\ \A x \in Queues \ {q} : queue'[x] = queue[x]
      /\ \A j \in Keys \ {k} : outputQueues'[j] = outputQueues[j]
      /\ \/ outputQueues'[k] = NoQueue /\ r.items = <<>>
         \/ outputQueues'[k] = q /\ queue'[q] = r
  BY <1>1, <1>4, <1>5, <1>6 DEF Release, Drained, Typed, TypeOK
<1>9. \A j \in Keys \ {k} : outputQueues[j] # NoQueue => outputQueues[j] \in Queues \ {q}
  BY <1>1, <1>4, <1>5 DEF Heap, Typed, TypeOK
<1>10. StreamOf(k) = queue[q].items /\ StreamOf(k)' = Tail(StreamOf(k))
  BY <1>5, <1>7, <1>8 DEF StreamOf
<1>11. \A j \in Keys \ {k} : StreamOf(j)' = StreamOf(j)
  BY <1>8, <1>9 DEF StreamOf
<1>12. \A v \in Writers : pc'[v] = pc[v] \/ (pc[v] = "waiting" /\ pc'[v] = "woken")
  BY <1>1, <1>6 DEF Signal, Waiting, Typed, TypeOK
<1> QED BY <1>4, <1>5, <1>6, <1>10, <1>11, <1>12

LEMMA MarkCompleteStreams ==
  ASSUME IInv, NEW k \in Keys, MarkComplete(k)
  PROVE  StreamsStay
<1> DEFINE q == outputQueues[k]
           r == [queue[q] EXCEPT !.drainWhenEmpty = TRUE]
<1>1. Typed /\ Heap
  BY DEF IInv
<1>2. CASE outputQueues[k] = NoQueue
  BY <1>2, StreamsFrame DEF MarkComplete
<1>3. CASE outputQueues[k] # NoQueue
  <2>1. /\ queue' = [queue EXCEPT ![q] = IF Drained(r) THEN Blank ELSE r]
        /\ outputQueues' = IF Drained(r) THEN [outputQueues EXCEPT ![k] = NoQueue] ELSE outputQueues
    BY <1>3 DEF MarkComplete
  <2>2. q \in Queues /\ queue[q] \in QueueRecord /\ q # NoQueue
    BY <1>1, <1>3 DEF Typed, TypeOK
  <2>3. r.items = queue[q].items
    BY <2>2 DEF QueueRecord
  <2> HIDE DEF r
  <2>4. \/ outputQueues'[k] = NoQueue /\ r.items = <<>>
        \/ outputQueues'[k] = q /\ queue'[q] = r
    BY <1>1, <2>1, <2>2 DEF Drained, Typed, TypeOK
  <2>5. StreamOf(k)' = StreamOf(k)
    BY <2>2, <2>3, <2>4 DEF StreamOf
  <2>6. ASSUME NEW j \in Keys \ {k} PROVE StreamOf(j)' = StreamOf(j)
    <3>1. outputQueues'[j] = outputQueues[j]
      BY <1>1, <2>1 DEF Typed, TypeOK
    <3>2. outputQueues[j] # NoQueue => outputQueues[j] \in Queues \ {q}
      BY <1>1, <1>3 DEF Heap, Typed, TypeOK
    <3>3. \A x \in Queues \ {q} : queue'[x] = queue[x]
      BY <1>1, <2>1 DEF Typed, TypeOK
    <3> HIDE DEF q
    <3> QED BY <3>1, <3>2, <3>3 DEF StreamOf
  <2> QED BY <2>5, <2>6 DEF StreamsStay
<1> QED BY <1>2, <1>3

LEMMA ClearQueuesStreams ==
  ASSUME NEW t \in Resetters, ClearQueues(t)
  PROVE  \A k \in Keys : StreamOf(k)' = <<>>
BY DEF ClearQueues, StreamOf

\* A session with output is in an active list, and the other way round.
LEMMA ActiveStreams ==
  ASSUME IInv
  PROVE  (\A p \in Priorities : activeOutputs[p] = <<>>) <=> (\A k \in Keys : StreamOf(k) = <<>>)
<1>1. Typed /\ ActiveEntriesHaveItems
  BY DEF IInv, Lists
<1>2. ASSUME \A p \in Priorities : activeOutputs[p] = <<>>, NEW k \in Keys
      PROVE  StreamOf(k) = <<>>
  <2>1. \A p \in Priorities : DOMAIN activeOutputs[p] = {}
    BY <1>2
  <2> QED BY <1>1, <2>1 DEF ActiveEntriesHaveItems, StreamOf
<1>3. ASSUME \A k \in Keys : StreamOf(k) = <<>>, NEW p \in Priorities
      PROVE  activeOutputs[p] = <<>>
  <2> SUFFICES ASSUME activeOutputs[p] # <<>> PROVE FALSE
    OBVIOUS
  <2>1. activeOutputs[p] \in Seq(Keys) /\ 1 \in DOMAIN activeOutputs[p]
    BY <1>1 DEF Typed, TypeOK
  <2>2. activeOutputs[p][1] \in Keys
    BY <2>1
  <2> QED BY <1>1, <1>3, <2>1, <2>2 DEF ActiveEntriesHaveItems, StreamOf
<1> QED BY <1>2, <1>3

-----------------------------------------------------------------------------
(* The queues implement the streams.                                       *)

\* Generations stay within the bound, so every item is one of Promise's.
RInv == IInv /\ generation <= MaxGeneration

LEMMA GenerationBounded == Spec => []RInv
<1>1. Init => RInv
  BY InitEstablishes, BoundsAssumption DEF Init, RInv
<1>2. RInv /\ [Next]_vars => RInv'
  <2> SUFFICES ASSUME RInv, [Next]_vars PROVE RInv'
    OBVIOUS
  <2>1. IInv'
    BY NextPreserves DEF RInv
  <2>2. generation' <= MaxGeneration
    <3>1. \/ UNCHANGED generation
          \/ generation < MaxGeneration /\ generation' = generation + 1
      BY DEF Next, vars, Begin, Enter, Resume, TryAppend, Notify, Dequeue, TakeReady,
             MarkComplete, CancelContext, BumpGeneration, ClearQueues
    <3> QED BY <3>1, BoundsAssumption DEF RInv, IInv, Typed, TypeOK
  <2> QED BY <2>1, <2>2 DEF RInv
<1> QED BY <1>1, <1>2, PTL DEF Spec

LEMMA InitStreams == Init => Promise!SInit
BY DEF Init, Promise!SInit

LEMMA StayIsStutter ==
  ASSUME StreamsStay, UNCHANGED <<generation, clearing>>
  PROVE  UNCHANGED Promise!svars
BY DEF StreamsStay, StreamOf, Promise!svars

LEMMA NextStreams ==
  ASSUME RInv, [Next]_vars
  PROVE  [Promise!SNext]_(Promise!svars)
<1> DEFINE S == [k \in Keys |-> IF outputQueues[k] = NoQueue THEN <<>>
                                ELSE queue[outputQueues[k]].items]
           Items == [msg : Messages, size : Sizes, gen : 1 .. MaxGeneration]
<1>0. IInv /\ \A k \in Keys : S[k] = StreamOf(k) /\ S'[k] = StreamOf(k)'
  BY DEF RInv, StreamOf
<1>a. S = [k \in Keys |-> S[k]] /\ S' = [k \in Keys |-> S'[k]]
  OBVIOUS
<1>1. ASSUME NEW w \in Writers, NEW q \in Queues, Enter(w, q) \/ Resume(w, q)
      PROVE  [Promise!SNext]_(Promise!svars)
  <2>1. /\ pc[w] \in {"enter", "woken"} /\ call[w] \in Call
        /\ UNCHANGED <<generation, clearing>>
        /\ Appends(w) \/ Waits(w) \/ Leaves(w)
    BY <1>0, <1>1, WriterStreams
  <2>2. CASE Appends(w)
    <3> PICK k \in Keys : k = call[w].key
      BY <2>1 DEF Call
    <3> PICK it : it = ItemOf(call[w])
      OBVIOUS
    <3>1. it \in Items /\ it.gen = generation
      BY <1>0, <2>1, <2>2 DEF Appends, ItemOf, Call, RInv, IInv, Typed, TypeOK
    <3>2. Len(S[k]) < MaxMessages /\ S' = [S EXCEPT ![k] = Append(@, it)]
      <4> HIDE DEF S
      <4>1. /\ Len(S[k]) < MaxMessages
            /\ \A j \in Keys : S'[j] = IF j = k THEN Append(S[j], it) ELSE S[j]
        BY <1>0, <2>2, <3>1 DEF Appends
      <4> QED BY <1>a, <4>1
    <3>3. Promise!Put(k, it)
      BY <2>1, <3>1, <3>2 DEF Promise!Put
    <3> QED BY <3>1, <3>3 DEF Promise!SNext
  <2>3. CASE Waits(w) \/ Leaves(w)
    BY <2>1, <2>3, StayIsStutter DEF Waits, Leaves
  <2> QED BY <2>1, <2>2, <2>3
<1>2. ASSUME NEW p \in Priorities, Dequeue(p) PROVE [Promise!SNext]_(Promise!svars)
  <2> PICK k \in Keys : k = Front(p)
    BY <1>0, <1>2, DequeueStreams
  <2>1. /\ k \in Keys /\ StreamOf(k) # <<>> /\ UNCHANGED <<generation, clearing>>
        /\ \A j \in Keys : StreamOf(j)' = IF j = k THEN Tail(StreamOf(j)) ELSE StreamOf(j)
    BY <1>0, <1>2, DequeueStreams
  <2>2. S[k] # <<>> /\ S' = [S EXCEPT ![k] = Tail(@)]
    <3>1. S[k] # <<>> /\ \A j \in Keys : S'[j] = IF j = k THEN Tail(S[j]) ELSE S[j]
      BY <1>0, <2>1
    <3> HIDE DEF S
    <3> QED BY <1>a, <3>1
  <2>3. Promise!Take(k)
    BY <2>1, <2>2 DEF Promise!Take
  <2> QED BY <2>1, <2>3 DEF Promise!SNext
<1>3. ASSUME NEW t \in Resetters, BumpGeneration(t) PROVE [Promise!SNext]_(Promise!svars)
  <2>1. Promise!NewGeneration(t)
    BY <1>3 DEF BumpGeneration, Promise!NewGeneration
  <2> QED BY <2>1 DEF Promise!SNext
<1>4. ASSUME NEW t \in Resetters, ClearQueues(t) PROVE [Promise!SNext]_(Promise!svars)
  <2>1. S' = [k \in Keys |-> <<>>]
    BY <1>0, <1>4, ClearQueuesStreams
  <2>2. Promise!Drop(t)
    BY <1>4, <2>1 DEF ClearQueues, Promise!Drop
  <2> QED BY <2>2 DEF Promise!SNext
<1>5. ASSUME NEW k \in Keys, MarkComplete(k) PROVE [Promise!SNext]_(Promise!svars)
  <2>1. StreamsStay /\ UNCHANGED <<generation, clearing>>
    BY <1>0, <1>5, MarkCompleteStreams DEF MarkComplete
  <2> QED BY <2>1, StayIsStutter
<1>6. CASE UNCHANGED <<queue, outputQueues, generation, clearing>>
  <2>1. StreamsStay /\ UNCHANGED <<generation, clearing>>
    BY <1>6, StreamsFrame
  <2> QED BY <2>1, StayIsStutter
<1> QED BY <1>1, <1>2, <1>3, <1>4, <1>5, <1>6
        DEF Next, vars, Begin, Notify, TakeReady, CancelContext

\* The queues implement the streams of SessionStreams, step by step: whatever
\* the interleaving of writers, dequeues, completions and resets, an item of a
\* session is never lost, repeated or overtaken, and only a reset drops items.
THEOREM QueuesAreStreams == Spec => ImplementsStreams
<1>1. Init => Promise!SInit
  BY InitStreams
<1>2. RInv /\ [Next]_vars => [Promise!SNext]_(Promise!svars)
  BY NextStreams
<1> QED BY <1>1, <1>2, GenerationBounded, PTL DEF Spec, ImplementsStreams, Promise!SSpec
=============================================================================
