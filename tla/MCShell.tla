------------------------------- MODULE MCShell -------------------------------
(***************************************************************************)
(* Small instances of ShellSessions and of ShellExec for TLC.  The two     *)
(* share no variable: a behaviour is one of sessions that are created,     *)
(* killed and reset, or one of commands typed into two terminals.          *)
(***************************************************************************)
EXTENDS ShellSessions, ShellExec

CONSTANTS e1, e2, i1, x1

MCExecs == {e1, e2}

VARIABLE part

\* The session_ids are interchangeable: x1 has i1.  The id of a session that is
\* not used yet says nothing.
MCInit ==
  /\ InitShells /\ shellId = [x \in Shells |-> i1]
  /\ InitExec
  /\ part \in {"sessions", "exec"}

\* The first request is not the one with the long line.
MCNext ==
  /\ \/ /\ part = "sessions" /\ NextShells
        /\ shellId'[x1] = i1
        /\ UNCHANGED execVars
     \/ /\ part = "exec" /\ NextExec
        /\ execAt'[e2] # "unused" => execAt'[e1] # "unused"
        /\ UNCHANGED <<runtimeVars, shellVars>>
  /\ UNCHANGED part

\* FairShells and FairExec: at rest, neither part has a step that is fair.
MCSpec == MCInit /\ [][MCNext]_<<part, runtimeVars, shellVars, execVars>> /\ FairShells /\ FairExec

\* Exec alone.
MCExecSpec == MCInit /\ part = "exec" /\ [][MCNext]_<<part, runtimeVars, shellVars, execVars>>

\* Every variable of both parts has its type.
TypeOKParts == TypeOKShells /\ TypeOKExec
=============================================================================
