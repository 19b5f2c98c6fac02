---------------------------- MODULE ProcSessions ----------------------------
(***************************************************************************)
(* Spawned process sessions over the output queues: handleProcSpawn and    *)
(* its checks (internal/tunnel/websocket.go), Multiplexer.Spawn,           *)
(* streamOutput and wait (internal/proc/proc.go), the callbacks of         *)
(* rebuildRuntimeMultiplexers, and a reset of the runtime underneath.      *)
(*                                                                         *)
(* An element of Sessions is one run of proc.spawn, used at most once; the *)
(* session_id the server chose for it is a key of OutputQueues, and may be *)
(* chosen again.  The multiplexer of generation g is closed when g is no   *)
(* longer current: Close and the bump share one runtimeMu section.         *)
(***************************************************************************)
EXTENDS OutputQueues

CONSTANTS
  Sessions,     \* runs of proc.spawn
  Streams,      \* the output streams of a process
  TTYs,         \* the sessions spawned with pty = true
  SpawnPriorities,
  MaxSessions,  \* the session cap, 0 for none
  MaxChunks     \* bound: chunks a process writes to a stream

Readers == Sessions \X Streams
Waiter(s) == <<s, "wait">>

ASSUME SessionsAssumption ==
  /\ Writers = Readers \cup {Waiter(s) : s \in Sessions}
  /\ "wait" \notin Streams /\ "stdout" \in Streams
  /\ Messages = Sessions \X {"output", "exit"}
  /\ SpawnPriorities \subseteq Priorities
  /\ TTYs \subseteq Sessions
  /\ MaxSessions \in Nat /\ MaxChunks \in Nat

VARIABLES
  phase,    \* where a run is: see TypeOKSessions
  sid,      \* its session_id
  sgen,     \* the generation of the multiplexer it was given
  prio,     \* its priority
  written,  \* chunks the process has written to a stream
  taken,    \* chunks streamOutput has read from it
  broken,   \* the streams whose read end is closed on this side
  killed,   \* runs that were sent SIGKILL
  retired,  \* the generation whose multiplexers a reset took and has to kill
  reading,  \* the streamOutput goroutines that have not returned
  heldOpen  \* terminals read on after the end of their process: what it left
            \* behind has them open

sessVars == <<phase, sid, sgen, prio, written, taken, broken, killed, retired, reading,
              heldOpen>>
allVars == <<vars, sessVars>>

TypeOKSessions ==
  /\ TypeOK
  /\ phase \in [Sessions -> {"unused", "checked", "refused", "running",
                             "reaped", "marked", "exiting", "gone"}]
  /\ sid \in [Sessions -> Keys \cup {"none"}]
  /\ sgen \in [Sessions -> Nat]
  /\ prio \in [Sessions -> Priorities]
  /\ written \in [Readers -> 0 .. MaxChunks]
  /\ taken \in [Readers -> 0 .. MaxChunks]
  /\ broken \subseteq Readers
  /\ killed \subseteq Sessions
  /\ retired \in [Resetters -> Nat]
  /\ reading \subseteq Readers
  /\ heldOpen \subseteq Readers

InitSessions ==
  /\ Init
  /\ phase = [s \in Sessions |-> "unused"]
  /\ sid = [s \in Sessions |-> "none"]
  /\ sgen = [s \in Sessions |-> 0]
  /\ prio = [s \in Sessions |-> "normal"]
  /\ written = [x \in Readers |-> 0]
  /\ taken = [x \in Readers |-> 0]
  /\ broken = {}
  /\ killed = {}
  /\ retired = [t \in Resetters |-> 0]
  /\ reading = {}
  /\ heldOpen = {}

-----------------------------------------------------------------------------
(* Spawning.                                                               *)

\* outputSessionStateExists
OutputSessionStateExists(k) == outputQueues[k] # NoQueue \/ k \in completed

\* The sessions map of the multiplexer of generation g.  KillAll empties the
\* map of a retired multiplexer, which then nobody reads.
Registered(g) ==
  {s \in Sessions : sgen[s] = g /\ phase[s] \in {"running", "reaped", "marked", "exiting"}}

\* The proc.spawn handler takes the runtime of its message and finds no output
\* state for the session_id.
CheckSpawn(s, k, p) ==
  /\ phase[s] = "unused"
  /\ ~OutputSessionStateExists(k)
  /\ phase' = [phase EXCEPT ![s] = "checked"]
  /\ sid' = [sid EXCEPT ![s] = k]
  /\ sgen' = [sgen EXCEPT ![s] = generation]
  /\ prio' = [prio EXCEPT ![s] = p]
  /\ UNCHANGED <<vars, written, taken, broken, killed, retired, reading, heldOpen>>

\* Multiplexer.Spawn, under its mutex from the checks to the launch.
MayLaunch(s) ==
  /\ sgen[s] = generation
  /\ \A t \in Registered(sgen[s]) : sid[t] # sid[s]
  /\ MaxSessions > 0 => Cardinality(Registered(sgen[s])) < MaxSessions

Spawn(s) ==
  /\ phase[s] = "checked"
  /\ IF MayLaunch(s)
     THEN /\ phase' = [phase EXCEPT ![s] = "running"]
          /\ reading' = reading \cup
               IF s \in TTYs THEN {<<s, "stdout">>} ELSE {<<s, st>> : st \in Streams}
     ELSE phase' = [phase EXCEPT ![s] = "refused"] /\ UNCHANGED reading
  /\ UNCHANGED <<vars, sid, sgen, prio, written, taken, broken, killed, retired, heldOpen>>

-----------------------------------------------------------------------------
(* The process and the goroutines that serve it.                           *)

\* Chunks that a Read can still return.
Unread(x) == IF x \in broken THEN 0 ELSE written[x] - taken[x]

StreamsOf(S) == {x \in Readers : x[1] \in S}

\* The process writes a chunk, or what it left behind on its terminal does.
Produce(x) ==
  /\ phase[x[1]] = "running" \/ x \in heldOpen
  /\ x \in reading
  /\ written[x] < MaxChunks
  /\ written' = [written EXCEPT ![x] = @ + 1]
  /\ UNCHANGED <<vars, phase, sid, sgen, prio, taken, broken, killed, retired, reading, heldOpen>>

\* streamOutput reads a chunk and calls onOutput, which drops it when the
\* callback's generation is over.
ReadChunk(x) ==
  LET s == x[1] IN
  /\ x \in reading
  /\ pc[x] = "idle"
  /\ Unread(x) > 0
  /\ taken' = [taken EXCEPT ![x] = @ + 1]
  /\ IF sgen[s] = generation
     THEN \E size \in Sizes : Begin(x, sid[s], prio[s], <<s, "output">>, size)
     ELSE UNCHANGED vars
  /\ UNCHANGED <<phase, sid, sgen, prio, written, broken, killed, retired, reading, heldOpen>>

\* Read returns an error: everyone who had the stream open has closed it, or the
\* read end was closed on this side.
EndOfStream(x) ==
  /\ x \in reading
  /\ pc[x] = "idle"
  /\ Unread(x) = 0
  /\ x \in heldOpen => x \in broken
  /\ reading' = reading \ {x}
  /\ heldOpen' = heldOpen \ {x}
  /\ UNCHANGED <<vars, phase, sid, sgen, prio, written, taken, broken, killed, retired>>

\* Session.Kill on the sessions of S: it closes a pty and kills the process.  No
\* write to a stdin holds it up here: ProcStdin has that.
KillSessions(S) ==
  /\ killed' = killed \cup S
  /\ broken' = broken \cup StreamsOf(S \cap TTYs)

\* handleProcKill
Kill(s) ==
  /\ s \in Registered(generation) \ killed
  /\ KillSessions({s})
  /\ UNCHANGED <<vars, phase, sid, sgen, prio, written, taken, retired, reading, heldOpen>>

\* The process ends and waitForExit returns, whoever of its descendants lives on.
\* cmd.Wait closes the read ends of the pipes, whatever is still in them; a pty
\* stays open, and a descendant may have the other end of it.
Reap(s) ==
  /\ phase[s] = "running"
  /\ phase' = [phase EXCEPT ![s] = "reaped"]
  /\ broken' = broken \cup StreamsOf({s} \ TTYs)
  /\ heldOpen' \in {heldOpen, heldOpen \cup (reading \cap StreamsOf({s} \cap TTYs))}
  /\ UNCHANGED <<vars, sid, sgen, prio, written, taken, killed, retired, reading>>

\* The last of those that a process left on its terminal closes it.
LetGo(x) ==
  /\ x \in heldOpen
  /\ heldOpen' = heldOpen \ {x}
  /\ UNCHANGED <<vars, phase, sid, sgen, prio, written, taken, broken, killed, retired, reading>>

PipesEmpty(s) == \A x \in StreamsOf({s}) : Unread(x) = 0

\* outputWG of the session is down to zero.
ReadersDone(s) == \A x \in reading : x[1] # s

FinishDropping(s) ==
  /\ phase[s] = "reaped"
  /\ ReadersDone(s)
  /\ outputQueues' = [outputQueues EXCEPT ![sid[s]] = NoQueue]
  /\ phase' = [phase EXCEPT ![s] = "marked"]
  /\ UNCHANGED <<generation, queue, completed, activeOutputs, rrIndex, pc, call, held,
                 outputReady, clearing, ctxDone>>
  /\ UNCHANGED <<sid, sgen, prio, written, taken, broken, killed, retired, reading, heldOpen>>

\* outputWG.Wait returns, and onExit marks the session complete.
FinishOutput(s) ==
  /\ phase[s] = "reaped"
  /\ ReadersDone(s)
  /\ MarkComplete(sid[s])
  /\ phase' = [phase EXCEPT ![s] = "marked"]
  /\ UNCHANGED <<sid, sgen, prio, written, taken, broken, killed, retired, reading, heldOpen>>

\* onExit enqueues proc.exit.
EnqueueExit(s) ==
  /\ phase[s] = "marked"
  /\ phase' = [phase EXCEPT ![s] = "exiting"]
  /\ IF sgen[s] = generation
     THEN \E size \in Sizes : Begin(Waiter(s), sid[s], prio[s], <<s, "exit">>, size)
     ELSE UNCHANGED vars
  /\ UNCHANGED <<sid, sgen, prio, written, taken, broken, killed, retired, reading, heldOpen>>

\* onExit has returned; wait deletes the session from the multiplexer.
Unregister(s) ==
  /\ phase[s] = "exiting"
  /\ pc[Waiter(s)] = "idle"
  /\ phase' = [phase EXCEPT ![s] = "gone"]
  /\ UNCHANGED <<vars, sid, sgen, prio, written, taken, broken, killed, retired, reading, heldOpen>>

-----------------------------------------------------------------------------
(* The reset of the runtime, and the steps of OutputQueues.                *)

StartReset(t) ==
  /\ retired[t] = 0
  /\ BumpGeneration(t)
  /\ retired' = [retired EXCEPT ![t] = generation]
  /\ UNCHANGED <<phase, sid, sgen, prio, written, taken, broken, killed, reading, heldOpen>>

SwapMaps(t) == ClearQueues(t) /\ UNCHANGED sessVars

\* KillAll of the multiplexers that this reset retired.
KillAll(t) ==
  /\ retired[t] > 0
  /\ t \notin clearing
  /\ KillSessions(Registered(retired[t]))
  /\ retired' = [retired EXCEPT ![t] = 0]
  /\ UNCHANGED <<vars, phase, sid, sgen, prio, written, taken, reading, heldOpen>>

QueueStep ==
  /\ \/ \E w \in Writers, q \in Queues : Enter(w, q) \/ Resume(w, q)
     \/ \E w \in Writers : Notify(w)
     \/ \E p \in Priorities : Dequeue(p)
     \/ TakeReady
  /\ UNCHANGED sessVars

SessionStep(s) ==
  \/ \E k \in Keys, p \in SpawnPriorities : CheckSpawn(s, k, p)
  \/ Spawn(s) \/ Kill(s) \/ Reap(s) \/ FinishOutput(s) \/ EnqueueExit(s) \/ Unregister(s)

NextSessions ==
  \/ \E s \in Sessions : SessionStep(s)
  \/ \E x \in Readers : Produce(x) \/ ReadChunk(x) \/ EndOfStream(x) \/ LetGo(x)
  \/ QueueStep
  \/ \E t \in Resetters : StartReset(t) \/ SwapMaps(t) \/ KillAll(t)

SpecSessions == InitSessions /\ [][NextSessions]_allVars

\* A killed process ends; goroutines that can run do run; a reset that has
\* begun is carried through; and while no reset is under way the websocket
\* writer keeps draining (it stops only when the connection is lost, and Run
\* then resets).  Nothing forces a process to end by itself, and nothing forces
\* what it left behind to let go of its terminal.
FairSessions ==
  /\ \A w \in Writers :
       WF_allVars(((\E q \in Queues : Enter(w, q) \/ Resume(w, q)) \/ Notify(w))
                  /\ UNCHANGED sessVars)
  /\ \A p \in Priorities :
       WF_allVars(clearing = {} /\ Dequeue(p) /\ UNCHANGED sessVars)
  /\ \A x \in Readers :
       WF_allVars(ReadChunk(x) \/ (phase[x[1]] = "reaped" /\ EndOfStream(x)))
  /\ \A s \in Sessions :
       WF_allVars((s \in killed /\ Reap(s)) \/ FinishOutput(s) \/ EnqueueExit(s)
                  \/ Unregister(s))
  /\ \A t \in Resetters : WF_allVars(SwapMaps(t) \/ KillAll(t))

FairSpecSessions == SpecSessions /\ FairSessions

-----------------------------------------------------------------------------
(* Properties.                                                             *)

\* proc.exit is the last a client hears of a run: once it is queued, no chunk
\* of the run is behind it in a queue, and no goroutine can still queue one.
ExitIsLast ==
  /\ \A k \in Keys : outputQueues[k] # NoQueue =>
       LET items == queue[outputQueues[k]].items IN
       \A i, j \in DOMAIN items :
         i < j /\ items[i].msg[2] = "exit" => items[j].msg[1] # items[i].msg[1]
  /\ \A x \in Readers :
       phase[x[1]] \in {"exiting", "gone"} => x \notin reading /\ pc[x] \in {"idle", "notify"}

\* Every behaviour of the sessions is one of the queues under their most
\* general client, so what holds of every client of the queues holds here.
ImplementsOutputQueues == Spec

\* A descendant of the run's process keeps its terminal, which nobody has closed.
Occupied(s) == StreamsOf({s}) \cap (heldOpen \ broken) # {}

\* A run whose process is gone leaves the multiplexer in the end, and so frees
\* its slot under the session cap: backpressure, a lost wakeup or a reset in
\* the middle of its last output cannot keep it there.  Only a terminal that a
\* descendant keeps open can (proc.go, lines 376 and 395), and not after the
\* descendant is gone or the session is killed.
DeadSessionsUnregister ==
  \A s \in Sessions : (phase[s] = "reaped" /\ ~Occupied(s)) ~> (phase[s] = "gone")

\* A reset ends every run of the runtime it retires, blocked readers included
\* (what a blocked write to a stdin does to KillAll is in ProcStdin).
RetiredSessionsEnd ==
  \A s \in Sessions :
    (phase[s] \in {"running", "reaped", "marked", "exiting"} /\ sgen[s] < generation)
      ~> (phase[s] = "gone")

\* Claimed by the comment of wait in proc.go (lines 391 to 394): a session_id
\* is not reused while the queue of its previous run exists, so a queue never
\* holds messages of two runs.
OneRunPerQueue ==
  \A k \in Keys : outputQueues[k] # NoQueue =>
    LET items == queue[outputQueues[k]].items IN
    \A i, j \in DOMAIN items : items[i].msg[1] = items[j].msg[1]

\* Claimed by the same comment: every reader has drained the process's output
\* before the exit callback runs.
ExitAfterAllOutput ==
  \A s \in Sessions : phase[s] = "marked" /\ s \notin killed =>
    \A x \in Readers : x[1] = s => taken[x] = written[x]

\* Claimed by websocket_test.go (lines 615 to 625): when everything a run has
\* queued is drained, its session_id can be spawned again.
DrainedIdIsFree ==
  \A k \in Keys :
    /\ \A s \in Sessions : sid[s] = k => phase[s] \in {"checked", "refused", "gone"}
    /\ outputQueues[k] # NoQueue => queue[outputQueues[k]].items = <<>>
    /\ clearing = {}
    => ~OutputSessionStateExists(k)

StartedHere(k) ==
  \E s \in Sessions :
    sid[s] = k /\ sgen[s] = generation /\ phase[s] \notin {"checked", "refused"}

\* Claimed by the comment of resetRuntimeState (websocket.go, lines 544 to
\* 546): a goroutine of the old runtime exits instead of leaking into the new
\* one.  Outside of a reset, every queue and every completion marker belongs to
\* a run of the current runtime.
OldRuntimeLeavesNothing ==
  clearing = {} =>
    \A k \in Keys : OutputSessionStateExists(k) => StartedHere(k)
=============================================================================
