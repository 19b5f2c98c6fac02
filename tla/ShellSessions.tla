---------------------------- MODULE ShellSessions ----------------------------
(***************************************************************************)
(* Shell sessions from shell.create to shell.exit: the handlers in         *)
(* internal/tunnel/websocket.go, the multiplexer (internal/shell/          *)
(* multiplexer.go) and the readLoop, waitLoop and Kill of a session        *)
(* (internal/shell/session.go), with resets of the runtime underneath.     *)
(*                                                                         *)
(* An element of Shells is one Session object, created at most once; the   *)
(* session_id the server chose for it may be chosen again.  The output     *)
(* queues are reduced to what shell.create asks of them: whether there is  *)
(* any state for the session_id (OutputQueues has the queues).             *)
(***************************************************************************)
EXTENDS Runtime, FiniteSets

CONSTANTS
  Shells,
  ShellIds,
  NoShell,   \* no entry in the sessions map
  Jobs,      \* the shells that leave a job behind which keeps the terminal open
  MaxShells  \* the session cap, 0 for none

ASSUME ShellsAssumption ==
  /\ NoShell \notin Shells
  /\ Jobs \subseteq Shells
  /\ MaxShells \in Nat

VARIABLES
  shellAt,    \* where a session is: see TypeOKShells
  shellId,
  shellGen,   \* the generation of its multiplexer
  sessions,   \* the sessions maps of the multiplexers
  dead,       \* the shells whose process has ended
  jobs,       \* the shells whose job still runs
  shellClosed,\* s.closed
  hungUp,     \* the sessions whose PTY is closed on this side
  readers,    \* the readLoops that have not returned
  condemned,  \* the sessions that a Kill or KillAll has taken out of a map
  killCalled, \* those whose own Kill it has called since
  outputState \* of a session_id: none, an open queue, or marked complete

shellVars == <<shellAt, shellId, shellGen, sessions, dead, jobs, shellClosed, hungUp,
               readers, condemned, killCalled, outputState>>
shellEnvVars == <<shellId, shellGen>>
killVars == <<condemned, killCalled>>

TypeOKShells ==
  /\ TypeOKRuntime
  /\ shellAt \in [Shells -> {"unused", "checked", "refused", "open", "reaped",
                             "marked", "exiting", "gone"}]
  /\ shellId \in [Shells -> ShellIds]
  /\ shellGen \in [Shells -> Generations \cup {0}]
  /\ \A x \in Shells : shellAt[x] = "unused" \/ shellGen[x] \in Generations
  /\ sessions \in [Generations \X ShellIds -> Shells \cup {NoShell}]
  /\ dead \subseteq Shells
  /\ jobs \subseteq Jobs
  /\ shellClosed \subseteq Shells
  /\ hungUp \subseteq shellClosed
  /\ readers \subseteq Shells
  /\ condemned \subseteq Shells
  /\ killCalled \subseteq condemned
  /\ outputState \in [ShellIds -> {"none", "open", "complete"}]

InitShells ==
  /\ InitRuntime
  /\ shellAt = [x \in Shells |-> "unused"]
  /\ shellId \in {[x \in Shells |-> k] : k \in ShellIds}
  /\ shellGen = [x \in Shells |-> 0]
  /\ sessions = [e \in Generations \X ShellIds |-> NoShell]
  /\ dead = {}
  /\ jobs = {}
  /\ shellClosed = {}
  /\ hungUp = {}
  /\ readers = {}
  /\ condemned = {}
  /\ killCalled = {}
  /\ outputState = [k \in ShellIds |-> "none"]

-----------------------------------------------------------------------------
(* shell.create.                                                           *)

PlaceOf(x) == <<shellGen[x], shellId[x]>>

InMap(g) == {x \in Shells : \E k \in ShellIds : sessions[<<g, k>>] = x}

\* handleShellCreate takes the runtime of its message and finds no output
\* state for the session_id.
CheckShell(x, k) ==
  /\ shellAt[x] = "unused"
  /\ outputState[k] = "none"
  /\ shellAt' = [shellAt EXCEPT ![x] = "checked"]
  /\ shellId' = [shellId EXCEPT ![x] = k]
  /\ shellGen' = [shellGen EXCEPT ![x] = generation]
  /\ UNCHANGED <<runtimeVars, sessions, dead, jobs, shellClosed, hungUp, readers,
                 killVars, outputState>>

\* Mutant of MayCreate: a session_id in use is no reason to refuse.
CreateOverEntry(x) ==
  /\ shellGen[x] = generation
  /\ MaxShells > 0 => Cardinality(InMap(shellGen[x])) < MaxShells

\* What Multiplexer.Create asks, under its mutex.  A multiplexer is closed
\* when its generation is over: Close and the swap share a critical section.
MayCreate(x) ==
  /\ shellGen[x] = generation
  /\ sessions[PlaceOf(x)] = NoShell
  /\ MaxShells > 0 => Cardinality(InMap(shellGen[x])) < MaxShells

\* Create with NewSession, which may fail to start the shell.
CreateShell(x) ==
  /\ shellAt[x] = "checked"
  /\ \/ /\ MayCreate(x)
        /\ shellAt' = [shellAt EXCEPT ![x] = "open"]
        /\ sessions' = [sessions EXCEPT ![PlaceOf(x)] = x]
        /\ readers' = readers \cup {x}
     \/ /\ shellAt' = [shellAt EXCEPT ![x] = "refused"]
        /\ UNCHANGED <<sessions, readers>>
  /\ UNCHANGED <<runtimeVars, shellEnvVars, dead, jobs, shellClosed, hungUp, killVars,
                 outputState>>

-----------------------------------------------------------------------------
(* The shell and the goroutines that serve it.                             *)

Started(x) == shellAt[x] \notin {"unused", "checked", "refused"}

\* The callback of a chunk or of the exit: a queue for the session_id, unless
\* the generation of the session is over.
Enqueue(x) ==
  outputState' = IF shellGen[x] = generation /\ outputState[shellId[x]] = "none"
                 THEN [outputState EXCEPT ![shellId[x]] = "open"] ELSE outputState

\* The shell ends by itself, or was sent a signal that ends it; what it
\* started in the background lives on.
ShellEnds(x) ==
  /\ shellAt[x] = "open" /\ x \notin dead
  /\ dead' = dead \cup {x}
  /\ jobs' = jobs \cup ({x} \cap Jobs)
  /\ UNCHANGED <<runtimeVars, shellEnvVars, shellAt, sessions, shellClosed, hungUp,
                 readers, killVars, outputState>>

JobEnds(x) ==
  /\ x \in jobs
  /\ jobs' = jobs \ {x}
  /\ UNCHANGED <<runtimeVars, shellEnvVars, shellAt, sessions, dead, shellClosed, hungUp,
                 readers, killVars, outputState>>

\* readLoop reads a chunk and hands it to onOutput.
ReadChunkOfShell(x) ==
  /\ x \in readers \ hungUp
  /\ Enqueue(x)
  /\ UNCHANGED <<runtimeVars, shellEnvVars, shellAt, sessions, dead, jobs, shellClosed,
                 hungUp, readers, killVars>>

\* Its Read fails: this side closed the PTY, or nobody has the terminal open.
EndOfTerminal(x) ==
  /\ x \in readers
  /\ x \in hungUp \/ (x \in dead /\ x \notin jobs)
  /\ readers' = readers \ {x}
  /\ UNCHANGED <<runtimeVars, shellEnvVars, shellAt, sessions, dead, jobs, shellClosed,
                 hungUp, killVars, outputState>>

\* waitLoop: Cmd.Wait returns, and the session is closed.
ReapShell(x) ==
  /\ shellAt[x] = "open" /\ x \in dead
  /\ shellAt' = [shellAt EXCEPT ![x] = "reaped"]
  /\ shellClosed' = shellClosed \cup {x}
  /\ UNCHANGED <<runtimeVars, shellEnvVars, sessions, dead, jobs, hungUp, readers,
                 killVars, outputState>>

\* outputWG.Wait returns and onExit marks the session_id complete, in the
\* state of whatever generation; a queue that is drained by now goes.
MarkShellComplete(x) ==
  LET k == shellId[x] IN
  /\ shellAt[x] = "reaped" /\ x \notin readers
  /\ shellAt' = [shellAt EXCEPT ![x] = "marked"]
  /\ \/ outputState' = [outputState EXCEPT ![k] = "complete"]
     \/ outputState[k] # "none" /\ outputState' = [outputState EXCEPT ![k] = "none"]
  /\ UNCHANGED <<runtimeVars, shellEnvVars, sessions, dead, jobs, shellClosed, hungUp,
                 readers, killVars>>

\* onExit enqueues shell.exit.
PublishExit(x) ==
  /\ shellAt[x] = "marked"
  /\ shellAt' = [shellAt EXCEPT ![x] = "exiting"]
  /\ Enqueue(x)
  /\ UNCHANGED <<runtimeVars, shellEnvVars, sessions, dead, jobs, shellClosed, hungUp,
                 readers, killVars>>

\* Mutant of UnregisterShell: nothing is deleted once the session's runtime is
\* retired.
UnregisterWhenCurrent(x) ==
  /\ shellAt[x] = "exiting"
  /\ shellAt' = [shellAt EXCEPT ![x] = "gone"]
  /\ sessions' = IF shellGen[x] = generation
                 THEN [sessions EXCEPT ![PlaceOf(x)] = NoShell] ELSE sessions
  /\ UNCHANGED <<runtimeVars, shellEnvVars, dead, jobs, shellClosed, hungUp, readers,
                 killVars, outputState>>

\* The rest of the exit callback deletes the session_id from the map, whoever
\* has it now.
UnregisterShell(x) ==
  /\ shellAt[x] = "exiting"
  /\ shellAt' = [shellAt EXCEPT ![x] = "gone"]
  /\ sessions' = [sessions EXCEPT ![PlaceOf(x)] = NoShell]
  /\ UNCHANGED <<runtimeVars, shellEnvVars, dead, jobs, shellClosed, hungUp, readers,
                 killVars, outputState>>

\* The websocket writer empties a queue that is marked complete.
DrainShell(k) ==
  /\ outputState[k] = "complete"
  /\ outputState' = [outputState EXCEPT ![k] = "none"]
  /\ UNCHANGED <<runtimeVars, shellEnvVars, shellAt, sessions, dead, jobs, shellClosed,
                 hungUp, readers, killVars>>

-----------------------------------------------------------------------------
(* Kill and resets.                                                        *)

\* The locked half of Multiplexer.Kill, on the multiplexer of generation g:
\* the handler may have taken it just before a reset.
KillRequest(g, k) ==
  /\ sessions[<<g, k>>] # NoShell
  /\ condemned' = condemned \cup {sessions[<<g, k>>]}
  /\ sessions' = [sessions EXCEPT ![<<g, k>>] = NoShell]
  /\ UNCHANGED <<runtimeVars, shellEnvVars, shellAt, dead, jobs, shellClosed, hungUp,
                 readers, killCalled, outputState>>

\* Mutant of KillShell: s.closed is left as it was.
KillShellUnclosed(x) ==
  /\ x \in condemned \ killCalled
  /\ killCalled' = killCalled \cup {x}
  /\ x \notin shellClosed
  /\ hungUp' = hungUp \cup {x}
  /\ dead' = dead \cup {x}
  /\ UNCHANGED <<runtimeVars, shellEnvVars, shellAt, sessions, jobs, shellClosed, readers,
                 condemned, outputState>>

\* Session.Kill: SIGKILL to the shell and Close of the PTY, unless the session
\* is closed already.
KillShell(x) ==
  /\ x \in condemned \ killCalled
  /\ killCalled' = killCalled \cup {x}
  /\ IF x \in shellClosed
     THEN UNCHANGED <<dead, jobs, shellClosed, hungUp>>
     ELSE /\ shellClosed' = shellClosed \cup {x}
          /\ hungUp' = hungUp \cup {x}
          /\ dead' = dead \cup {x}
          /\ jobs' = IF x \in dead THEN jobs ELSE jobs \cup ({x} \cap Jobs)
  /\ UNCHANGED <<runtimeVars, shellEnvVars, shellAt, sessions, readers, condemned, outputState>>

SwapShells(t) == SwapRuntime(t) /\ UNCHANGED shellVars

ClearShellOutput(t) ==
  /\ CancelPrevious(t)
  /\ outputState' = [k \in ShellIds |-> "none"]
  /\ UNCHANGED <<shellEnvVars, shellAt, sessions, dead, jobs, shellClosed, hungUp,
                 readers, killVars>>

\* Mutant of KillAllShells: the map is emptied, and nothing in it killed.
ForgetAllShells(t) ==
  /\ EndReset(t)
  /\ sessions' = [e \in Generations \X ShellIds |->
                    IF e[1] = retired[t] THEN NoShell ELSE sessions[e]]
  /\ UNCHANGED <<shellEnvVars, shellAt, dead, jobs, shellClosed, hungUp, readers,
                 killVars, outputState>>

\* KillAll empties the map and then kills what was in it.
KillAllShells(t) ==
  /\ EndReset(t)
  /\ condemned' = condemned \cup InMap(retired[t])
  /\ sessions' = [e \in Generations \X ShellIds |->
                    IF e[1] = retired[t] THEN NoShell ELSE sessions[e]]
  /\ UNCHANGED <<shellEnvVars, shellAt, dead, jobs, shellClosed, hungUp, readers,
                 killCalled, outputState>>

\* waitLoop.
ExitStep(x) == ReapShell(x) \/ MarkShellComplete(x) \/ PublishExit(x) \/ UnregisterShell(x)

ShellStep(x) == CreateShell(x) \/ EndOfTerminal(x) \/ ExitStep(x) \/ KillShell(x)

ShellReset(t) == SwapShells(t) \/ ClearShellOutput(t) \/ KillAllShells(t)

NextShells ==
  \/ \E x \in Shells, k \in ShellIds : CheckShell(x, k)
  \/ \E x \in Shells : ShellStep(x) \/ ShellEnds(x) \/ JobEnds(x) \/ ReadChunkOfShell(x)
  \/ \E k \in ShellIds : DrainShell(k)
  \/ \E g \in Generations, k \in ShellIds : KillRequest(g, k)
  \/ \E t \in Resetters : ShellReset(t)

SpecShells == InitShells /\ [][NextShells]_<<runtimeVars, shellVars>>

\* Goroutines that can run do, a Read on a terminal that is gone returns, and
\* a reset that has begun goes on.  No shell and no job has to end.
FairShells ==
  /\ \A x \in Shells :
       /\ WF_<<runtimeVars, shellVars>>(EndOfTerminal(x))
       /\ WF_<<runtimeVars, shellVars>>(KillShell(x))
       /\ WF_<<runtimeVars, shellVars>>(ExitStep(x))
  /\ \A t \in Resetters :
       WF_<<runtimeVars, shellVars>>((ClearShellOutput(t) \/ KillAllShells(t)))

-----------------------------------------------------------------------------
(* Properties.                                                             *)

Registered(x) == Started(x) /\ sessions[PlaceOf(x)] = x

SameId(x) == {y \in Shells \ {x} : Started(y) /\ PlaceOf(y) = PlaceOf(x)}

\* A session in a map is one whose exit is not published yet, under its own
\* session_id: the map never names a session that is gone, to which stdin
\* would be written and which would hold its id and a slot of the cap.
EntriesAreOpen ==
  \A g \in Generations, k \in ShellIds, x \in Shells :
    sessions[<<g, k>>] = x =>
      PlaceOf(x) = <<g, k>> /\ shellAt[x] \in {"open", "reaped", "marked", "exiting"}

\* A shell that runs can be reached by its session_id, and counts, with one
\* exception that the code leaves: an earlier session of the same id was
\* killed, which frees the id at once, and its exit callback then deleted the
\* entry of this one (multiplexer.go, lines 52 to 62).
UnreachableOnlyAfterKill ==
  \A x \in Shells :
    shellAt[x] = "open" /\ x \notin dead /\ x \notin condemned /\ ~Registered(x) =>
      \E y \in SameId(x) : shellAt[y] = "gone" /\ y \in condemned

\* The map and the sessions agree.
MapIsRight == EntriesAreOpen /\ UnreachableOnlyAfterKill

\* A job has the terminal of x open, and this side has not closed it: Read
\* waits, and a Kill of the session does nothing once the shell was reaped.
HeldByJob(x) == x \in jobs \ hungUp

\* A session that is killed, or whose runtime is retired while it is in the
\* map, publishes its exit and is gone, with its process, whatever the shell
\* left behind: unless a job holds the terminal, and then for as long as it
\* does (a session closed by the exit of its shell is never hung up), or an
\* earlier session of its id is still to delete its entry.
DoomedShellsEnd ==
  \A x \in Shells :
    ( \/ x \in condemned
      \/ /\ Registered(x) /\ shellGen[x] < generation
         /\ \A y \in SameId(x) : shellAt[y] = "gone" )
      ~> ((shellAt[x] = "gone" /\ x \in dead) \/ HeldByJob(x))
=============================================================================
