------------------------------ MODULE ShellExec ------------------------------
(***************************************************************************)
(* shell.exec and its sentinel protocol: Exec, readLoop and                *)
(* handleExecOutput (internal/shell/session.go).  Exec types the command   *)
(* into the terminal, followed by a printf of a sentinel and the exit      *)
(* code, and waits until handleExecOutput has seen the sentinel in what    *)
(* the terminal shows, or for a timeout.                                   *)
(*                                                                         *)
(* The buffers that handleExecOutput fills are global and keyed by         *)
(* session_id.  The model has one session_id, and the sessions that have   *)
(* it one after the other.                                                 *)
(***************************************************************************)
EXTENDS Naturals, Sequences, SequencesExt

CONSTANTS
  Terminals,  \* the Session objects
  NoTerminal,
  Execs,      \* the shell.exec requests
  NoExec,
  Echoing,    \* the terminals that show what is typed: all do, until told not to
  LongLines   \* the requests whose line does not fit into the terminal's input

ASSUME ExecAssumption ==
  /\ NoTerminal \notin Terminals
  /\ NoExec \notin Execs
  /\ Echoing \subseteq Terminals
  /\ LongLines \subseteq Execs

\* What a terminal shows: of the request e, the echo of the typed line (the
\* text of the sentinel is in it, with no number behind), output of the
\* command, the sentinel that printf writes, and the exit code after it.
TerminalTokens == {"echo", "output", "sentinel", "code"} \X Execs

VARIABLES
  current,    \* the session that the session_id names
  opened,     \* the sessions created so far
  severed,    \* those whose PTY is closed
  typed,      \* the requests whose line the shell has still to run
  screen,     \* what the terminal has shown and readLoop has still to read
  reader,     \* a chunk in the hands of readLoop that found execResult set
  execMu,     \* who holds execMu of a session
  execResult, \* execResult of a session, by the request that made it
  execBuffer, \* the entry of execBuffers
  buffer,     \* the bytes collected for a request
  execAt,     \* where a request is
  execOn,     \* the session that Get returned to it
  result,     \* the channel of the request
  execReply,  \* how it was answered
  finished    \* the requests whose command is over

execVars == <<current, opened, severed, typed, screen, reader, execMu, execResult,
              execBuffer, buffer, execAt, execOn, result, execReply, finished>>
sessionVars == <<current, opened, severed>>
terminalVars == <<typed, screen, finished>>

Results == {"none", "right", "zero"}

TypeOKExec ==
  /\ current \in opened \cup {NoTerminal}
  /\ opened \subseteq Terminals /\ severed \subseteq opened
  /\ typed \in [Terminals -> Seq(Execs)]
  /\ screen \in [Terminals -> Seq(TerminalTokens)]
  /\ reader \in [Terminals -> Seq(TerminalTokens)]
  /\ execMu \in [Terminals -> Execs \cup {NoExec}]
  /\ execResult \in [Terminals -> Execs \cup {NoExec}]
  /\ execBuffer \in Execs \cup {NoExec}
  /\ buffer \in [Execs -> Seq(TerminalTokens)]
  /\ execAt \in [Execs -> {"unused", "locking", "armed", "stored", "waiting", "disarming",
                           "leaving", "answered"}]
  /\ execOn \in [Execs -> Terminals \cup {NoTerminal}]
  /\ result \in [Execs -> Results]
  /\ execReply \in [Execs -> {"none", "right", "zero", "timeout", "error"}]
  /\ \A e \in Execs :
       (execReply[e] # "none") <=> (execAt[e] \in {"disarming", "leaving", "answered"})
  /\ finished \subseteq Execs

InitExec ==
  /\ current = NoTerminal
  /\ opened = {} /\ severed = {}
  /\ typed = [x \in Terminals |-> <<>>]
  /\ screen = [x \in Terminals |-> <<>>]
  /\ reader = [x \in Terminals |-> <<>>]
  /\ execMu = [x \in Terminals |-> NoExec]
  /\ execResult = [x \in Terminals |-> NoExec]
  /\ execBuffer = NoExec
  /\ buffer = [e \in Execs |-> <<>>]
  /\ execAt = [e \in Execs |-> "unused"]
  /\ execOn = [e \in Execs |-> NoTerminal]
  /\ result = [e \in Execs |-> "none"]
  /\ execReply = [e \in Execs |-> "none"]
  /\ finished = {}

Goto(e, place) == execAt' = [execAt EXCEPT ![e] = place]

-----------------------------------------------------------------------------
(* Sessions.                                                               *)

OpenTerminal(x) ==
  /\ current = NoTerminal
  /\ x \notin opened
  /\ current' = x
  /\ opened' = opened \cup {x}
  /\ UNCHANGED <<severed, terminalVars, reader, execMu, execResult, execBuffer, buffer,
                 execAt, execOn, result, execReply>>

\* shell.kill: the session_id is free at once, and the PTY closed.
KillTerminal(x) ==
  /\ current = x
  /\ current' = NoTerminal
  /\ severed' = severed \cup {x}
  /\ UNCHANGED <<opened, terminalVars, reader, execMu, execResult, execBuffer, buffer,
                 execAt, execOn, result, execReply>>

-----------------------------------------------------------------------------
(* Exec.                                                                   *)

\* The handler gets the session and calls Exec, which waits for execMu.
CallExec(e) ==
  /\ execAt[e] = "unused"
  /\ current # NoTerminal
  /\ execOn' = [execOn EXCEPT ![e] = current]
  /\ Goto(e, "locking")
  /\ UNCHANGED <<sessionVars, terminalVars, reader, execMu, execResult, execBuffer,
                 buffer, result, execReply>>

\* Mutant of Arm: execMu is not taken.
ArmUnlocked(e) ==
  /\ execAt[e] = "locking"
  /\ execResult' = [execResult EXCEPT ![execOn[e]] = e]
  /\ Goto(e, "armed")
  /\ UNCHANGED <<sessionVars, terminalVars, reader, execMu, execBuffer, buffer, execOn,
                 result, execReply>>

\* It takes execMu and sets execResult.
Arm(e) ==
  /\ execAt[e] = "locking"
  /\ execMu[execOn[e]] = NoExec
  /\ execMu' = [execMu EXCEPT ![execOn[e]] = e]
  /\ execResult' = [execResult EXCEPT ![execOn[e]] = e]
  /\ Goto(e, "armed")
  /\ UNCHANGED <<sessionVars, terminalVars, reader, execBuffer, buffer, execOn, result, execReply>>

\* execBuffers.Store.
StoreBuffer(e) ==
  /\ execAt[e] = "armed"
  /\ execBuffer' = e
  /\ Goto(e, "stored")
  /\ UNCHANGED <<sessionVars, terminalVars, reader, execMu, execResult, buffer, execOn,
                 result, execReply>>

\* A line that does not fit is not written to the end while the shell runs a
\* command and reads nothing; no timer runs yet.
WriteBlocks(e) ==
  e \in LongLines /\ typed[execOn[e]] # <<>> /\ execOn[e] \notin severed

\* The command is written to the PTY, which echoes it or not; a closed PTY
\* fails the request.
TypeCommand(e) ==
  LET x == execOn[e] IN
  /\ execAt[e] = "stored"
  /\ ~WriteBlocks(e)
  /\ IF x \in severed
     THEN /\ Goto(e, "disarming")
          /\ execReply' = [execReply EXCEPT ![e] = "error"]
          /\ UNCHANGED <<typed, screen>>
     ELSE /\ Goto(e, "waiting")
          /\ typed' = [typed EXCEPT ![x] = Append(@, e)]
          /\ screen' = [screen EXCEPT ![x] =
               IF x \in Echoing THEN Append(@, <<"echo", e>>) ELSE @]
          /\ UNCHANGED execReply
  /\ UNCHANGED <<sessionVars, finished, reader, execMu, execResult, execBuffer, buffer,
                 execOn, result>>

TakeExecResult(e) ==
  /\ execAt[e] = "waiting"
  /\ result[e] # "none"
  /\ execReply' = [execReply EXCEPT ![e] = result[e]]
  /\ Goto(e, "disarming")
  /\ UNCHANGED <<sessionVars, terminalVars, reader, execMu, execResult, execBuffer,
                 buffer, execOn, result>>

TimeOut(e) ==
  /\ execAt[e] = "waiting"
  /\ execReply' = [execReply EXCEPT ![e] = "timeout"]
  /\ Goto(e, "disarming")
  /\ UNCHANGED <<sessionVars, terminalVars, reader, execMu, execResult, execBuffer,
                 buffer, execOn, result>>

\* Mutant of Disarm: execMu is freed here, before the buffer is deleted.
DisarmUnlock(e) ==
  /\ execAt[e] = "disarming"
  /\ execResult' = [execResult EXCEPT ![execOn[e]] = NoExec]
  /\ execMu' = [execMu EXCEPT ![execOn[e]] = NoExec]
  /\ Goto(e, "leaving")
  /\ UNCHANGED <<sessionVars, terminalVars, reader, execBuffer, buffer, execOn, result,
                 execReply>>

\* On every way out execResult is reset first,
Disarm(e) ==
  /\ execAt[e] = "disarming"
  /\ execResult' = [execResult EXCEPT ![execOn[e]] = NoExec]
  /\ Goto(e, "leaving")
  /\ UNCHANGED <<sessionVars, terminalVars, reader, execMu, execBuffer, buffer, execOn,
                 result, execReply>>

\* Mutant of Leave: a timeout leaves execMu locked.
LeaveLocked(e) ==
  /\ execAt[e] = "leaving"
  /\ execBuffer' = NoExec
  /\ execMu' = IF execReply[e] = "timeout" THEN execMu
               ELSE [execMu EXCEPT ![execOn[e]] = NoExec]
  /\ Goto(e, "answered")
  /\ UNCHANGED <<sessionVars, terminalVars, reader, execResult, buffer, execOn, result, execReply>>

\* then the entry of the session_id deleted, whose ever it is, and execMu freed.
Leave(e) ==
  /\ execAt[e] = "leaving"
  /\ execBuffer' = NoExec
  /\ execMu' = [execMu EXCEPT ![execOn[e]] = NoExec]
  /\ Goto(e, "answered")
  /\ UNCHANGED <<sessionVars, terminalVars, reader, execResult, buffer, execOn, result, execReply>>

-----------------------------------------------------------------------------
(* The shell and readLoop.                                                 *)

\* Once is enough to tell whose output it is.
Shown(x, what) ==
  \/ Contains(screen[x] \o reader[x], what)
  \/ \E e \in Execs : Contains(buffer[e], what)

\* The command writes output.
CommandOutput(x) ==
  /\ typed[x] # <<>> /\ x \notin severed
  /\ ~Shown(x, <<"output", Head(typed[x])>>)
  /\ screen' = [screen EXCEPT ![x] = Append(@, <<"output", Head(typed[x])>>)]
  /\ UNCHANGED <<sessionVars, typed, finished, reader, execMu, execResult, execBuffer,
                 buffer, execAt, execOn, result, execReply>>

\* It ends, and the printf behind it runs.
CommandEnds(x) ==
  /\ typed[x] # <<>> /\ x \notin severed
  /\ LET e == Head(typed[x]) IN
     /\ screen' = [screen EXCEPT ![x] = @ \o <<<<"sentinel", e>>, <<"code", e>>>>]
     /\ finished' = finished \cup {e}
  /\ typed' = [typed EXCEPT ![x] = Tail(@)]
  /\ UNCHANGED <<sessionVars, reader, execMu, execResult, execBuffer, buffer, execAt,
                 execOn, result, execReply>>

\* readLoop reads a chunk, of any length, and looks at execResult.
ReadScreen(x) ==
  /\ reader[x] = <<>>
  /\ x \notin severed
  /\ \E n \in 1 .. Len(screen[x]) :
       /\ reader' = [reader EXCEPT ![x] =
            IF execResult[x] = NoExec THEN <<>> ELSE SubSeq(screen[x], 1, n)]
       /\ screen' = [screen EXCEPT ![x] = SubSeq(@, n + 1, Len(@))]
  /\ UNCHANGED <<sessionVars, typed, finished, execMu, execResult, execBuffer, buffer,
                 execAt, execOn, result, execReply>>

\* Mutant of Sentinels: one text for all requests.
SentinelsOfAll(e) == {"echo", "sentinel"} \X Execs

\* The text of the sentinel of e.
Sentinels(e) == {<<"echo", e>>, <<"sentinel", e>>}

\* What a buffer says once it has the text of the sentinel: the number behind
\* the first one; zero where none is, in the echo or at the end of a chunk.
Parsed(e, b) ==
  IF \A i \in DOMAIN b : b[i] \notin Sentinels(e) THEN "none"
  ELSE LET first == CHOOSE i \in DOMAIN b :
                      /\ b[i] \in Sentinels(e)
                      /\ \A j \in 1 .. i - 1 : b[j] \notin Sentinels(e)
       IN IF first < Len(b) /\ b[first + 1] = <<"code", e>> THEN "right" ELSE "zero"

\* handleExecOutput, with the buffer of whoever stored last; the channel holds
\* one result.
HandleExecOutput(x) ==
  /\ reader[x] # <<>>
  /\ IF execBuffer = NoExec
     THEN UNCHANGED <<buffer, result>>
     ELSE LET e == execBuffer
              b == buffer[e] \o reader[x] IN
          /\ buffer' = [buffer EXCEPT ![e] = b]
          /\ result' = [result EXCEPT ![e] = IF @ = "none" THEN Parsed(e, b) ELSE @]
  /\ reader' = [reader EXCEPT ![x] = <<>>]
  /\ UNCHANGED <<sessionVars, terminalVars, execMu, execResult, execBuffer, execAt,
                 execOn, execReply>>

ExecStep(e) ==
  Arm(e) \/ StoreBuffer(e) \/ TypeCommand(e) \/ TakeExecResult(e) \/ Disarm(e) \/ Leave(e)

NextExec ==
  \/ \E x \in Terminals : OpenTerminal(x) \/ KillTerminal(x) \/ CommandOutput(x)
                          \/ CommandEnds(x) \/ ReadScreen(x) \/ HandleExecOutput(x)
  \/ \E e \in Execs : CallExec(e) \/ ExecStep(e) \/ TimeOut(e)

SpecExec == InitExec /\ [][NextExec]_execVars

\* The goroutine of a request runs and its timer fires.  Nothing makes a
\* command end.
FairExec ==
  \A e \in Execs : WF_execVars(ExecStep(e)) /\ WF_execVars(TimeOut(e))

-----------------------------------------------------------------------------
(* Properties.                                                             *)

\* Claimed by the comment of Exec (session.go, lines 173 and 174): it blocks
\* until the command completes or the timeout expires.
BlocksUntilComplete ==
  \A e \in Execs : execReply[e] \in {"right", "zero"} => e \in finished

\* The same of the terminals that do not echo, where no sentinel is shown but
\* the one that printf writes.
BlocksUntilCompleteUnechoed ==
  \A e \in Execs :
    execReply[e] \in {"right", "zero"} /\ execOn[e] \notin Echoing => e \in finished

\* A request that waits has its buffer in execBuffers, so that the sentinel
\* will be seen, unless a request to another session of the same session_id
\* replaced or deleted it: then it waits for its timeout, whatever its
\* command does (session.go, lines 197 to 228).
BufferLostOnlyToOtherSession ==
  \A e \in Execs : execAt[e] = "waiting" /\ execBuffer # e =>
    \E f \in Execs \ {e} :
      execOn[f] # execOn[e] /\ execAt[f] \notin {"unused", "locking", "armed"}

\* The output of a request holds output of another command only when that
\* command had timed out before, was answered on its echo, or belonged to
\* another session of the session_id.
ForeignOutputOnlyAfterTimeout ==
  \A e, f \in Execs : e # f /\ Contains(buffer[e], <<"output", f>>) =>
    execReply[f] = "timeout" \/ execOn[f] \in Echoing \/ execOn[f] # execOn[e]

\* The requests keep apart what the terminal shows of them.
BuffersKeepApart == BufferLostOnlyToOtherSession /\ ForeignOutputOnlyAfterTimeout

\* Every request is answered, also those queued for execMu behind a command
\* that never ends and those of a session that is killed meanwhile; unless one
\* that has execMu is blocked in its write to the PTY (session.go, line 209).
ExecsReturn ==
  \A e \in Execs :
    (execAt[e] = "locking") ~>
      (\/ execAt[e] = "answered"
       \/ \E f \in Execs : execAt[f] = "stored" /\ execOn[f] = execOn[e] /\ WriteBlocks(f))
=============================================================================
