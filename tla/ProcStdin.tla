------------------------------ MODULE ProcStdin ------------------------------
(***************************************************************************)
(* The stdin of spawned processes, and what has to wait for it: WriteStdin,*)
(* CloseStdin, Kill and KillAll (internal/proc/proc.go) with the handlers  *)
(* of proc.stdin and proc.kill (internal/tunnel/websocket.go) and a reset  *)
(* of the runtime.  A pipe holds so much and then a write waits for the    *)
(* process to read; nothing makes a process read.                          *)
(*                                                                         *)
(* An element of Procs is one spawned session, an element of Asks one      *)
(* request to one, each used at most once.  A process takes its            *)
(* descendants with it here; ProcRuns and ShellSessions have those that    *)
(* stay.                                                                   *)
(***************************************************************************)
EXTENDS Runtime, Sequences, FiniteSets

CONSTANTS
  Procs,
  NoProc,
  Terminals, \* the sessions spawned with pty = true
  Asks,
  Nobody,    \* stdinMu is free
  PipeSize,  \* what a pipe or the input of a terminal holds
  WriteLen   \* bound: the length of the data of a proc.stdin

ASSUME StdinAssumption ==
  /\ NoProc \notin Procs
  /\ Terminals \subseteq Procs
  /\ Nobody \notin Asks
  /\ PipeSize \in Nat \ {0} /\ WriteLen \in Nat \ {0}

VARIABLES
  procAt,    \* not spawned, alive, ended, or gone when wait has deleted it
  procGen,   \* the generation of its multiplexer
  procMap,   \* the sessions that are in the map of their multiplexer
  stdinMu,   \* which write holds stdinMu of a session
  stdinEOF,  \* the sessions with stdinEOF set
  accepted,  \* what the pipe of a session has taken in, by the request
  consumed,  \* how much of it the process has read
  askAt,     \* where a request is: see TypeOKStdin
  askKind, askOn,
  askReply,
  doomed,    \* the sessions that the KillAll of a resetter has still to kill
  victim     \* the one that it is at

stdinVars == <<procAt, procGen, procMap, stdinMu, stdinEOF, accepted, consumed,
               askAt, askKind, askOn, askReply, doomed, victim>>
procVars == <<procAt, procGen, procMap>>
pipeVars == <<stdinEOF, accepted, consumed>>
askVars == <<askAt, askKind, askOn, askReply>>
killAllVars == <<doomed, victim>>

Kinds == {"data", "eof", "data and eof", "kill"}

\* Where the data of request c is in what the pipe of p has taken in.
PlacesOf(c, p) == {i \in 1 .. Len(accepted[p]) : accepted[p][i] = c}

\* How much of the data of request c the pipe has taken in.
TakenOf(c) == Cardinality(PlacesOf(c, askOn[c]))

TypeOKStdin ==
  /\ TypeOKRuntime
  /\ procAt \in [Procs -> {"unused", "alive", "ended", "gone"}]
  /\ procGen \in [Procs -> Generations \cup {0}]
  /\ procMap \subseteq Procs
  /\ stdinMu \in [Procs -> Asks \cup {Nobody}]
  /\ stdinEOF \subseteq Procs
  /\ accepted \in [Procs -> Seq(Asks)]
  /\ consumed \in [Procs -> Nat]
  /\ \A p \in Procs : Len(accepted[p]) - consumed[p] \in 0 .. PipeSize
  /\ askAt \in [Asks -> {"unused", "to write", "writing", "to close", "to kill",
                         "killing", "answered"}]
  /\ askKind \in [Asks -> Kinds]
  /\ askOn \in [Asks -> Procs \cup {NoProc}]
  /\ askReply \in [Asks -> {"none", "ok", "error"}]
  /\ \A c \in Asks, p \in Procs :
       stdinMu[p] = c <=> askAt[c] = "writing" /\ askOn[c] = p
  /\ doomed \in [Resetters -> SUBSET Procs]
  /\ victim \in [Resetters -> Procs \cup {NoProc}]

InitStdin ==
  /\ InitRuntime
  /\ procAt = [p \in Procs |-> "unused"]
  /\ procGen = [p \in Procs |-> 0]
  /\ procMap = {}
  /\ stdinMu = [p \in Procs |-> Nobody]
  /\ stdinEOF = {}
  /\ accepted = [p \in Procs |-> <<>>]
  /\ consumed = [p \in Procs |-> 0]
  /\ askAt = [c \in Asks |-> "unused"]
  /\ askKind = [c \in Asks |-> "data"]
  /\ askOn = [c \in Asks |-> NoProc]
  /\ askReply = [c \in Asks |-> "none"]
  /\ doomed = [t \in Resetters |-> {}]
  /\ victim = [t \in Resetters |-> NoProc]

-----------------------------------------------------------------------------
(* The process.                                                            *)

SpawnProc(p) ==
  /\ procAt[p] = "unused"
  /\ procAt' = [procAt EXCEPT ![p] = "alive"]
  /\ procGen' = [procGen EXCEPT ![p] = generation]
  /\ procMap' = procMap \cup {p}
  /\ UNCHANGED <<runtimeVars, stdinMu, pipeVars, askVars, killAllVars>>

\* The process reads of its stdin, if it likes.
ReadInput(p) ==
  /\ procAt[p] = "alive"
  /\ consumed[p] < Len(accepted[p])
  /\ consumed' = [consumed EXCEPT ![p] = @ + 1]
  /\ UNCHANGED <<runtimeVars, procVars, stdinMu, stdinEOF, accepted, askVars, killAllVars>>

Ends(p) == procAt' = [procAt EXCEPT ![p] = IF @ = "alive" THEN "ended" ELSE @]

\* It ends by itself, or by a proc.signal, which takes no lock.
ProcEnds(p) ==
  /\ procAt[p] = "alive"
  /\ Ends(p)
  /\ UNCHANGED <<runtimeVars, procGen, procMap, stdinMu, pipeVars, askVars, killAllVars>>

\* wait: cmd.Wait closes this side of the pipe, a pty is closed after it, and
\* the session leaves the map.
WaitDeletes(p) ==
  /\ procAt[p] = "ended"
  /\ procAt' = [procAt EXCEPT ![p] = "gone"]
  /\ procMap' = procMap \ {p}
  /\ UNCHANGED <<runtimeVars, procGen, stdinMu, pipeVars, askVars, killAllVars>>

-----------------------------------------------------------------------------
(* The requests.                                                           *)

FirstStep(kind) ==
  CASE kind = "eof" -> "to close" [] kind = "kill" -> "to kill" [] OTHER -> "to write"

\* A handler gets the session out of the map.
Ask(c, p, kind) ==
  /\ askAt[c] = "unused"
  /\ p \in procMap
  /\ askAt' = [askAt EXCEPT ![c] = FirstStep(kind)]
  /\ askKind' = [askKind EXCEPT ![c] = kind]
  /\ askOn' = [askOn EXCEPT ![c] = p]
  /\ UNCHANGED <<runtimeVars, procVars, stdinMu, pipeVars, askReply, killAllVars>>

Answer(c, reply) ==
  /\ askAt' = [askAt EXCEPT ![c] = "answered"]
  /\ askReply' = [askReply EXCEPT ![c] = reply]

Free(p) == stdinMu[p] = Nobody

\* Mutant of LockForWrite: stdinMu is not waited for.
LockForWriteAnyway(c) ==
  LET p == askOn[c] IN
  /\ askAt[c] = "to write"
  /\ IF p \in stdinEOF
     THEN Answer(c, "error") /\ UNCHANGED stdinMu
     ELSE /\ stdinMu' = [stdinMu EXCEPT ![p] = c]
          /\ askAt' = [askAt EXCEPT ![c] = "writing"]
          /\ UNCHANGED askReply
  /\ UNCHANGED <<runtimeVars, procVars, pipeVars, askKind, askOn, killAllVars>>

\* WriteStdin up to the write.
LockForWrite(c) ==
  LET p == askOn[c] IN
  /\ askAt[c] = "to write" /\ Free(p)
  /\ IF p \in stdinEOF
     THEN Answer(c, "error") /\ UNCHANGED stdinMu
     ELSE /\ stdinMu' = [stdinMu EXCEPT ![p] = c]
          /\ askAt' = [askAt EXCEPT ![c] = "writing"]
          /\ UNCHANGED askReply
  /\ UNCHANGED <<runtimeVars, procVars, pipeVars, askKind, askOn, killAllVars>>

Full(p) == Len(accepted[p]) - consumed[p] = PipeSize

\* The pipe takes in some of the data.
WriteSome(c) ==
  LET p == askOn[c] IN
  /\ askAt[c] = "writing"
  /\ procAt[p] = "alive" /\ ~Full(p)
  /\ TakenOf(c) < WriteLen
  /\ accepted' = [accepted EXCEPT ![p] = Append(@, c)]
  /\ UNCHANGED <<runtimeVars, procVars, stdinMu, stdinEOF, consumed, askVars, killAllVars>>

\* Mutant of WriteReturns: the handler keeps stdinMu until it has closed too.
WriteReturnsLocked(c) ==
  LET p == askOn[c] IN
  /\ askAt[c] = "writing"
  /\ TakenOf(c) = WriteLen
  /\ IF askKind[c] = "data"
     THEN Answer(c, "ok") /\ stdinMu' = [stdinMu EXCEPT ![p] = Nobody]
     ELSE askAt' = [askAt EXCEPT ![c] = "to close"] /\ UNCHANGED <<askReply, stdinMu>>
  /\ UNCHANGED <<runtimeVars, procVars, pipeVars, askKind, askOn, killAllVars>>

\* All of it is in.  A handler that was given an EOF too gets the session once
\* more.
WriteReturns(c) ==
  LET p == askOn[c] IN
  /\ askAt[c] = "writing"
  /\ TakenOf(c) = WriteLen
  /\ stdinMu' = [stdinMu EXCEPT ![p] = Nobody]
  /\ IF askKind[c] = "data" THEN Answer(c, "ok")
     ELSE IF p \notin procMap THEN Answer(c, "error")
     ELSE askAt' = [askAt EXCEPT ![c] = "to close"] /\ UNCHANGED askReply
  /\ UNCHANGED <<runtimeVars, procVars, pipeVars, askKind, askOn, killAllVars>>

\* Mutant of WriteFails: an error leaves stdinMu locked.
WriteFailsLocked(c) ==
  /\ askAt[c] = "writing"
  /\ procAt[askOn[c]] # "alive"
  /\ Answer(c, "error")
  /\ UNCHANGED <<runtimeVars, procVars, stdinMu, pipeVars, askKind, askOn, killAllVars>>

\* Nobody will read it any more, or this side was closed.
WriteFails(c) ==
  LET p == askOn[c] IN
  /\ askAt[c] = "writing"
  /\ procAt[p] # "alive"
  /\ stdinMu' = [stdinMu EXCEPT ![p] = Nobody]
  /\ Answer(c, "error")
  /\ UNCHANGED <<runtimeVars, procVars, pipeVars, askKind, askOn, killAllVars>>

\* CloseStdin, all of it in one critical section.
CloseStdin(c) ==
  LET p == askOn[c] IN
  /\ askAt[c] = "to close" /\ Free(p)
  /\ IF p \in Terminals
     THEN Answer(c, "error") /\ UNCHANGED stdinEOF
     ELSE Answer(c, "ok") /\ stdinEOF' = stdinEOF \cup {p}
  /\ UNCHANGED <<runtimeVars, procVars, stdinMu, accepted, consumed, askKind, askOn,
                 killAllVars>>

\* Mutant of KillCloses: a kill does not wait for a write.
KillClosesUnlocked(p) == stdinEOF' = stdinEOF \cup {p}

\* The locked part of Session.Kill: stdin is closed.
KillCloses(p) == Free(p) /\ stdinEOF' = stdinEOF \cup {p}

\* proc.kill, and then the SIGKILL.
LockForKill(c) ==
  /\ askAt[c] = "to kill"
  /\ KillCloses(askOn[c])
  /\ askAt' = [askAt EXCEPT ![c] = "killing"]
  /\ UNCHANGED <<runtimeVars, procVars, stdinMu, accepted, consumed, askKind, askOn,
                 askReply, killAllVars>>

HardKill(c) ==
  /\ askAt[c] = "killing"
  /\ Ends(askOn[c])
  /\ Answer(c, "ok")
  /\ UNCHANGED <<runtimeVars, procGen, procMap, stdinMu, pipeVars, askKind, askOn,
                 killAllVars>>

-----------------------------------------------------------------------------
(* A reset, which kills one session after the other.                       *)

SwapProcs(t) == SwapRuntime(t) /\ UNCHANGED stdinVars

\* Mutant of EmptyMap: the map is emptied before the sessions are taken from it.
EmptyMapFirst(t) ==
  /\ CancelPrevious(t)
  /\ procMap' = {p \in procMap : procGen[p] # retired[t]}
  /\ doomed' = [doomed EXCEPT ![t] = {p \in procMap' : procGen[p] = retired[t]}]
  /\ UNCHANGED <<procAt, procGen, stdinMu, pipeVars, askVars, victim>>

\* KillAll takes all that is in the map.
EmptyMap(t) ==
  LET S == {p \in procMap : procGen[p] = retired[t]} IN
  /\ CancelPrevious(t)
  /\ doomed' = [doomed EXCEPT ![t] = S]
  /\ procMap' = procMap \ S
  /\ UNCHANGED <<procAt, procGen, stdinMu, pipeVars, askVars, victim>>

\* The map has no order.
NextVictim(t, p) ==
  /\ p \in doomed[t] /\ victim[t] = NoProc
  /\ victim' = [victim EXCEPT ![t] = p]
  /\ UNCHANGED <<runtimeVars, procVars, stdinMu, pipeVars, askVars, doomed>>

CloseVictim(t) ==
  LET p == victim[t] IN
  /\ p \in doomed[t]
  /\ KillCloses(p)
  /\ doomed' = [doomed EXCEPT ![t] = @ \ {p}]
  /\ UNCHANGED <<runtimeVars, procVars, stdinMu, accepted, consumed, askVars, victim>>

KillVictim(t) ==
  LET p == victim[t] IN
  /\ p # NoProc /\ p \notin doomed[t]
  /\ Ends(p)
  /\ victim' = [victim EXCEPT ![t] = NoProc]
  /\ UNCHANGED <<runtimeVars, procGen, procMap, stdinMu, pipeVars, askVars, doomed>>

EndKillAll(t) ==
  /\ doomed[t] = {} /\ victim[t] = NoProc
  /\ EndReset(t)
  /\ UNCHANGED stdinVars

AskStep(c) ==
  LockForWrite(c) \/ WriteSome(c) \/ WriteReturns(c) \/ WriteFails(c) \/ CloseStdin(c)
  \/ LockForKill(c) \/ HardKill(c)

KillAllStep(t) ==
  EmptyMap(t) \/ (\E p \in Procs : NextVictim(t, p)) \/ CloseVictim(t) \/ KillVictim(t)
  \/ EndKillAll(t)

NextStdin ==
  \/ \E p \in Procs : SpawnProc(p) \/ ReadInput(p) \/ ProcEnds(p) \/ WaitDeletes(p)
  \/ \E c \in Asks, p \in Procs, kind \in Kinds : Ask(c, p, kind)
  \/ \E c \in Asks : AskStep(c)
  \/ \E t \in Resetters : SwapProcs(t) \/ KillAllStep(t)

SpecStdin == InitStdin /\ [][NextStdin]_<<runtimeVars, stdinVars>>

\* A goroutine that can go on does, and one that waits for a mutex is not kept
\* out by others for ever (sync.Mutex hands over to one that has waited for a
\* millisecond).  No process has to read, to end or to be asked anything.
FairStdin ==
  /\ \A c \in Asks : SF_<<runtimeVars, stdinVars>>(AskStep(c))
  /\ \A p \in Procs : WF_<<runtimeVars, stdinVars>>(WaitDeletes(p))
  /\ \A t \in Resetters : SF_<<runtimeVars, stdinVars>>(KillAllStep(t))

-----------------------------------------------------------------------------
(* What holds.                                                             *)

\* The data of a proc.stdin reaches the process in one piece: nothing of
\* another request is in between, whoever else writes, closes or kills, and it
\* is all there unless the process has died, or the write is still going on and
\* no EOF was put in its way.
WritesAreWhole ==
  \A p \in Procs :
    \A i \in 1 .. Len(accepted[p]) :
      LET c == accepted[p][i]
          there == PlacesOf(c, p) IN
      /\ \A j, k \in there : \A n \in j .. k : n \in there
      /\ \/ Cardinality(there) = WriteLen
         \/ stdinMu[p] = c /\ p \notin stdinEOF
         \/ procAt[p] # "alive"

\* A write holds stdinMu, and waits for a process that does not read.
Blocked(p) == stdinMu[p] \in Asks /\ Full(p) /\ procAt[p] = "alive"

\* Every request is answered, and a kill not before its process is dead.
RequestsEnd ==
  \A c \in Asks :
    askAt[c] # "unused"
      ~> askAt[c] = "answered" /\ (askKind[c] = "kill" => procAt[askOn[c]] # "alive")

\* The processes of a retired runtime die.
RetiredProcsEnd ==
  \A p \in Procs : procAt[p] = "alive" /\ procGen[p] < generation ~> procAt[p] # "alive"

\* Both hold unless there is a session whose process does not read what is
\* written to it.  The exception is real: Kill waits for stdinMu first (proc.go,
\* line 204), so the "unconditional kill" of its comment is not, and KillAll
\* kills one session after the other, so one keeps all the others from it.
OnlyUnreadInputBlocks ==
  (\E p \in Procs : <>[]Blocked(p)) \/ (RequestsEnd /\ RetiredProcsEnd)
=============================================================================
