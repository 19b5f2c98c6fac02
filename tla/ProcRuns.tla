------------------------------- MODULE ProcRuns -------------------------------
(***************************************************************************)
(* proc.run and proc.cancel: the registry of cancel functions, handleProc- *)
(* Run and handleProcCancel (internal/tunnel/websocket.go), and Run with   *)
(* runWithContext and its classification (internal/proc/proc.go), with     *)
(* timeouts and resets of the runtime underneath.                          *)
(*                                                                         *)
(* An element of Runs is one proc.run request and an element of Cancels    *)
(* one proc.cancel request, each used at most once.  An id is a run_id or  *)
(* the id of a message: the registry has one key space for both.           *)
(***************************************************************************)
EXTENDS Runtime

CONSTANTS
  Runs, Cancels,
  RunIds,
  RunKeys,  \* what procRunCancelID yields: an id, or the empty one
  CancelRequests, \* the pairs of a run_id and a request_id a proc.cancel gives
  NoId,     \* the empty id
  NoRun,    \* no entry in the registry
  HelperOf  \* who else holds the output pipe of a run: see below

(* A process may leave a descendant behind that keeps its stdout open, in  *)
(* its process group ("group") or in one of its own ("escaped").           *)
ASSUME RunsAssumption ==
  /\ NoId \notin RunIds
  /\ RunKeys \subseteq RunIds \cup {NoId}
  /\ CancelRequests \subseteq (RunIds \cup {NoId}) \X (RunIds \cup {NoId})
  /\ NoRun \notin Runs
  /\ HelperOf \in [Runs -> {"none", "group", "escaped"}]

VARIABLES
  runAt,     \* where a handler is: see TypeOKRuns
  runKey,    \* its procRunCancelID
  runGen,    \* the generation of its message
  process,   \* its process
  helped,    \* the runs whose descendant still holds the output pipe
  cause,     \* what ended the context of the handler first, if anything
  expiry,    \* what ended the context of Run, a child with a timeout, first
  answer,    \* what the handler returns
  procRunCancels, \* whose cancel function is registered
  cancelAt,  \* where a proc.cancel handler is
  cancelIds, \* the run_id and the request_id it was given
  cancelGen,
  target     \* the run whose entry it took

runVars == <<runAt, runKey, runGen, process, helped, cause, expiry, answer,
             procRunCancels, cancelAt, cancelIds, cancelGen, target>>
runEnvVars == <<runKey, runGen>>
cancelVars == <<cancelAt, cancelIds, cancelGen, target>>

TypeOKRuns ==
  /\ TypeOKRuntime
  /\ runAt \in [Runs -> {"unused", "arrived", "registered", "running", "killing",
                         "returned", "answered"}]
  /\ runKey \in [Runs -> RunIds \cup {NoId}]
  /\ runGen \in [Runs -> Generations \cup {0}]
  /\ process \in [Runs -> {"none", "alive", "ended"}]
  /\ helped \subseteq Runs
  /\ cause \in [Runs -> {"none", "cancel", "reset"}]
  /\ expiry \in [Runs -> {"none", "deadline", "canceled"}]
  /\ answer \in [Runs -> {"none", "duplicate", "result", "timed_out", "canceled", "error"}]
  /\ \A r \in Runs : (answer[r] # "none") <=> (runAt[r] \in {"returned", "answered"})
  /\ procRunCancels \in [Generations \X RunIds -> Runs \cup {NoRun}]
  /\ cancelAt \in [Cancels -> {"unused", "by_run", "by_request", "firing", "answered"}]
  /\ cancelIds \in [Cancels -> (RunIds \cup {NoId}) \X (RunIds \cup {NoId})]
  /\ cancelGen \in [Cancels -> Generations \cup {0}]
  /\ \A r \in Runs : runAt[r] = "unused" \/ runGen[r] \in Generations
  /\ \A c \in Cancels : cancelAt[c] = "unused" \/ cancelGen[c] \in Generations
  /\ target \in [Cancels -> Runs \cup {NoRun}]

InitRuns ==
  /\ InitRuntime
  /\ runAt = [r \in Runs |-> "unused"]
  /\ runKey = [r \in Runs |-> NoId]
  /\ runGen = [r \in Runs |-> 0]
  /\ process = [r \in Runs |-> "none"]
  /\ helped = {}
  /\ cause = [r \in Runs |-> "none"]
  /\ expiry = [r \in Runs |-> "none"]
  /\ answer = [r \in Runs |-> "none"]
  /\ procRunCancels = [e \in Generations \X RunIds |-> NoRun]
  /\ cancelAt = [c \in Cancels |-> "unused"]
  /\ cancelIds = [c \in Cancels |-> <<NoId, NoId>>]
  /\ cancelGen = [c \in Cancels |-> 0]
  /\ target = [c \in Cancels |-> NoRun]

-----------------------------------------------------------------------------
(* proc.run.                                                               *)

EntryOf(r) == <<runGen[r], runKey[r]>>

\* A request of the current generation reaches its handler, which takes the
\* runtime; both look at the generation, and an old one changes nothing.
ArriveRun(r, k) ==
  /\ runAt[r] = "unused"
  /\ runAt' = [runAt EXCEPT ![r] = "arrived"]
  /\ runKey' = [runKey EXCEPT ![r] = k]
  /\ runGen' = [runGen EXCEPT ![r] = generation]
  /\ UNCHANGED <<runtimeVars, process, helped, cause, expiry, answer,
                 procRunCancels, cancelVars>>

\* The context of the handler is made from that of its generation, which may
\* be over by now.
DeriveContext(r) ==
  /\ cause' = [cause EXCEPT ![r] = IF ContextDone(runGen[r]) THEN "reset" ELSE "none"]
  /\ expiry' = [expiry EXCEPT ![r] = IF ContextDone(runGen[r]) THEN "canceled" ELSE "none"]

EntryTaken(r) == runKey[r] # NoId /\ procRunCancels[EntryOf(r)] # NoRun

\* Mutant of Register: an id in use is registered again.
RegisterOver(r) ==
  /\ procRunCancels' = IF runKey[r] = NoId THEN procRunCancels
                       ELSE [procRunCancels EXCEPT ![EntryOf(r)] = r]
  /\ runAt' = [runAt EXCEPT ![r] = "registered"]
  /\ DeriveContext(r)
  /\ UNCHANGED answer

\* rememberProcRunCancel, unless there is no id to register.
Register(r) ==
  /\ ~EntryTaken(r)
  /\ procRunCancels' = IF runKey[r] = NoId THEN procRunCancels
                       ELSE [procRunCancels EXCEPT ![EntryOf(r)] = r]
  /\ runAt' = [runAt EXCEPT ![r] = "registered"]
  /\ DeriveContext(r)
  /\ UNCHANGED answer

\* Mutant of RefuseDuplicate: the handler returns without an answer.
DropDuplicate(r) ==
  /\ EntryTaken(r)
  /\ runAt' = [runAt EXCEPT ![r] = "answered"]
  /\ UNCHANGED <<answer, procRunCancels, cause, expiry>>

RefuseDuplicate(r) ==
  /\ EntryTaken(r)
  /\ runAt' = [runAt EXCEPT ![r] = "answered"]
  /\ answer' = [answer EXCEPT ![r] = "duplicate"]
  /\ UNCHANGED <<procRunCancels, cause, expiry>>

Remember(r) ==
  /\ runAt[r] = "arrived"
  /\ Register(r) \/ RefuseDuplicate(r)
  /\ UNCHANGED <<runtimeVars, runEnvVars, process, helped, cancelVars>>

\* Mutant of Outcome: the error of the context decides, and not its cause.
OutcomeByError(r, how) ==
  IF how = "ok" THEN "result"
  ELSE IF expiry[r] = "deadline" THEN "timed_out"
  ELSE IF how = "failed" THEN "result"
  ELSE IF how = "context" THEN "canceled"
  ELSE "error"

\* What Run and the handler make of the way runWithContext returned: the
\* process succeeded ("ok"), failed, did not start, or the context ended it.
Outcome(r, how) ==
  IF how = "ok" THEN "result"
  ELSE IF expiry[r] = "deadline" THEN "timed_out"
  ELSE IF how = "failed" THEN "result"
  ELSE IF how = "context" /\ cause[r] = "cancel" THEN "canceled"
  ELSE "error"

\* Nothing looks at the contexts of the run after that.
Return(r, how) ==
  /\ runAt' = [runAt EXCEPT ![r] = "returned"]
  /\ answer' = [answer EXCEPT ![r] = Outcome(r, how)]
  /\ cause' = [cause EXCEPT ![r] = "none"]
  /\ expiry' = [expiry EXCEPT ![r] = "none"]

\* runWithContext up to the start of the process.
Launch(r) ==
  /\ runAt[r] = "registered"
  /\ \/ /\ expiry[r] # "none"
        /\ Return(r, "context")
        /\ UNCHANGED <<process, helped>>
     \/ /\ expiry[r] = "none"
        /\ Return(r, "start")
        /\ UNCHANGED <<process, helped>>
     \/ /\ expiry[r] = "none"
        /\ runAt' = [runAt EXCEPT ![r] = "running"]
        /\ process' = [process EXCEPT ![r] = "alive"]
        /\ helped' = IF HelperOf[r] = "none" THEN helped ELSE helped \cup {r}
        /\ UNCHANGED <<answer, cause, expiry>>
  /\ UNCHANGED <<runtimeVars, runEnvVars, procRunCancels, cancelVars>>

\* The process ends by itself.
Exit(r) ==
  /\ process[r] = "alive"
  /\ process' = [process EXCEPT ![r] = "ended"]
  /\ UNCHANGED <<runtimeVars, runEnvVars, runAt, helped, cause, expiry, answer,
                 procRunCancels, cancelVars>>

\* So does the descendant that held the pipe.
HelperEnds(r) ==
  /\ r \in helped
  /\ helped' = helped \ {r}
  /\ UNCHANGED <<runtimeVars, runEnvVars, runAt, process, cause, expiry, answer,
                 procRunCancels, cancelVars>>

\* cmd.Wait returns: the process has ended and its output is at its end.
WaitReturns(r) == process[r] = "ended" /\ r \notin helped

\* The select of runWithContext, when it takes waitCh.
TakeResult(r) ==
  /\ runAt[r] = "running"
  /\ WaitReturns(r)
  /\ Return(r, "ok") \/ Return(r, "failed")
  /\ UNCHANGED <<runtimeVars, runEnvVars, process, helped, procRunCancels, cancelVars>>

\* Mutant of KillGroup: only the process itself is killed.
KillLeader(r) ==
  /\ runAt[r] = "running"
  /\ expiry[r] # "none"
  /\ runAt' = [runAt EXCEPT ![r] = "killing"]
  /\ process' = [process EXCEPT ![r] = "ended"]
  /\ UNCHANGED <<runtimeVars, runEnvVars, helped, cause, expiry, answer, procRunCancels,
                 cancelVars>>

\* When it takes ctx.Done: hardKillProcess kills the process group.
KillGroup(r) ==
  /\ runAt[r] = "running"
  /\ expiry[r] # "none"
  /\ runAt' = [runAt EXCEPT ![r] = "killing"]
  /\ process' = [process EXCEPT ![r] = "ended"]
  /\ helped' = IF HelperOf[r] = "group" THEN helped \ {r} ELSE helped
  /\ UNCHANGED <<runtimeVars, runEnvVars, cause, expiry, answer, procRunCancels, cancelVars>>

\* The second receive from waitCh.
TakeKilled(r) ==
  /\ runAt[r] = "killing"
  /\ WaitReturns(r)
  /\ Return(r, "context")
  /\ UNCHANGED <<runtimeVars, runEnvVars, process, helped, procRunCancels, cancelVars>>

\* The timeout of Run.
Deadline(r) ==
  /\ runAt[r] \in {"running", "killing"}
  /\ expiry[r] = "none"
  /\ expiry' = [expiry EXCEPT ![r] = "deadline"]
  /\ UNCHANGED <<runtimeVars, runEnvVars, runAt, process, helped, cause, answer,
                 procRunCancels, cancelVars>>

\* Mutant of Forget: the call is deferred only once the process has started.
ForgetStarted(r) ==
  /\ runAt[r] = "returned"
  /\ runAt' = [runAt EXCEPT ![r] = "answered"]
  /\ procRunCancels' = IF runKey[r] = NoId \/ process[r] = "none" THEN procRunCancels
                       ELSE [procRunCancels EXCEPT ![EntryOf(r)] = NoRun]
  /\ UNCHANGED <<runtimeVars, runEnvVars, process, helped, cause, expiry, answer, cancelVars>>

\* The deferred call, forgetProcRunCancel: by key, whoever registered last.
Forget(r) ==
  /\ runAt[r] = "returned"
  /\ runAt' = [runAt EXCEPT ![r] = "answered"]
  /\ procRunCancels' = IF runKey[r] = NoId THEN procRunCancels
                       ELSE [procRunCancels EXCEPT ![EntryOf(r)] = NoRun]
  /\ UNCHANGED <<runtimeVars, runEnvVars, process, helped, cause, expiry, answer, cancelVars>>

-----------------------------------------------------------------------------
(* proc.cancel.                                                            *)

AskCancel(c, ids) ==
  /\ cancelAt[c] = "unused"
  /\ cancelAt' = [cancelAt EXCEPT ![c] = "by_run"]
  /\ cancelIds' = [cancelIds EXCEPT ![c] = ids]
  /\ cancelGen' = [cancelGen EXCEPT ![c] = generation]
  /\ UNCHANGED <<runtimeVars, runEnvVars, runAt, process, helped, cause, expiry,
                 answer, procRunCancels, target>>

\* The locked half of cancelProcRun: the entry of id, if there is one, is
\* taken out; otherwise the handler goes on to the step called otherwise.
TakeEntry(c, id, otherwise) ==
  LET e == <<cancelGen[c], id>> IN
  /\ IF id = NoId \/ procRunCancels[e] = NoRun
     THEN /\ cancelAt' = [cancelAt EXCEPT ![c] = otherwise]
          /\ UNCHANGED <<procRunCancels, target>>
     ELSE /\ cancelAt' = [cancelAt EXCEPT ![c] = "firing"]
          /\ target' = [target EXCEPT ![c] = procRunCancels[e]]
          /\ procRunCancels' = [procRunCancels EXCEPT ![e] = NoRun]
  /\ UNCHANGED <<runtimeVars, runEnvVars, runAt, process, helped, cause, expiry,
                 answer, cancelIds, cancelGen>>

TryRunId(c) == cancelAt[c] = "by_run" /\ TakeEntry(c, cancelIds[c][1], "by_request")

TryRequestId(c) == cancelAt[c] = "by_request" /\ TakeEntry(c, cancelIds[c][2], "answered")

InFlight(r) == runAt[r] \in {"registered", "running", "killing", "returned"}

\* The contexts of the runs of R end, unless they had ended before.
EndContexts(R, why) ==
  LET Ends(r) == r \in R /\ InFlight(r) /\ runAt[r] # "returned" IN
  /\ cause' = [r \in Runs |-> IF Ends(r) /\ cause[r] = "none" THEN why ELSE cause[r]]
  /\ expiry' = [r \in Runs |-> IF Ends(r) /\ expiry[r] = "none" THEN "canceled" ELSE expiry[r]]

\* entry.cancel, after the unlock.
Fire(c) ==
  /\ cancelAt[c] = "firing"
  /\ EndContexts({target[c]}, "cancel")
  /\ cancelAt' = [cancelAt EXCEPT ![c] = "answered"]
  /\ UNCHANGED <<runtimeVars, runEnvVars, runAt, process, helped, answer,
                 procRunCancels, cancelIds, cancelGen, target>>

-----------------------------------------------------------------------------
(* Resets.                                                                 *)

\* The runs whose context was made from that of a generation in G.
ContextsOf(G) == {r \in Runs : runGen[r] \in G}

ResetCancelsRuns(t) ==
  /\ CancelPrevious(t)
  /\ EndContexts(ContextsOf({retired[t]}), "reset")
  /\ UNCHANGED <<runEnvVars, runAt, process, helped, answer, procRunCancels, cancelVars>>

StopCancelsRuns ==
  /\ CancelAll
  /\ EndContexts(ContextsOf(Generations), "reset")
  /\ UNCHANGED <<runEnvVars, runAt, process, helped, answer, procRunCancels, cancelVars>>

\* The other steps of a reset do not touch a run.
ResetStep(t) ==
  /\ SwapRuntime(t) \/ EndReset(t)
  /\ UNCHANGED runVars

RunStep(r) == Remember(r) \/ Launch(r) \/ TakeResult(r) \/ KillGroup(r)
              \/ TakeKilled(r) \/ Forget(r)

CancelStep(c) == TryRunId(c) \/ TryRequestId(c) \/ Fire(c)

NextRuns ==
  \/ \E r \in Runs, k \in RunKeys : ArriveRun(r, k)
  \/ \E r \in Runs : RunStep(r) \/ Exit(r) \/ HelperEnds(r) \/ Deadline(r)
  \/ \E c \in Cancels, ids \in CancelRequests : AskCancel(c, ids)
  \/ \E c \in Cancels : CancelStep(c)
  \/ \E t \in Resetters : ResetCancelsRuns(t) \/ ResetStep(t)
  \/ StopCancelsRuns

SpecRuns == InitRuns /\ [][NextRuns]_<<runtimeVars, runVars>>

\* Goroutines that can run do, and a reset that has begun goes on: nothing in
\* it waits for another goroutine.  No process and no descendant has to end.
FairRunSteps ==
  /\ \A r \in Runs : WF_<<runtimeVars, runVars>>(RunStep(r))
  /\ \A c \in Cancels : WF_<<runtimeVars, runVars>>(CancelStep(c))

FairRuns ==
  /\ FairRunSteps
  /\ \A t \in Resetters : WF_<<runtimeVars, runVars>>(ResetCancelsRuns(t))

-----------------------------------------------------------------------------
(* Properties.                                                             *)

Taken(r) == \E c \in Cancels : target[c] = r

\* An entry of the registry is the one its run made, and the run is still in
\* flight: whatever cancels, failed starts, timeouts and resets come between,
\* no entry outlives its run, where it would hold the run_id against every
\* later run and answer "canceled" to a cancel of nothing.
EntriesAreInFlight ==
  \A g \in Generations, k \in RunIds, r \in Runs :
    procRunCancels[<<g, k>>] = r => InFlight(r) /\ runGen[r] = g /\ runKey[r] = k

\* A cancel takes one run, of its own generation and under an id it was
\* given; no two cancels take the same run; and a run answers "canceled" only
\* when a cancel took it, never for a timeout or a reset.
CancelReachesItsRun ==
  /\ \A c \in Cancels : target[c] # NoRun =>
       /\ runGen[target[c]] = cancelGen[c]
       /\ runKey[target[c]] \in {cancelIds[c][1], cancelIds[c][2]}
       /\ \A d \in Cancels : target[d] = target[c] => d = c
  /\ \A r \in Runs : answer[r] = "canceled" => Taken(r)

\* A run in flight that no cancel has taken can be cancelled, with one
\* exception that the code leaves: an earlier run of the same id was taken by
\* a cancel, and has returned since; its deferred call then removed the entry
\* of this run (websocket.go, lines 1379 to 1382).
UncancellableOnlyAfterReuse ==
  \A r \in Runs :
    InFlight(r) /\ runKey[r] # NoId /\ ~Taken(r) /\ procRunCancels[EntryOf(r)] # r =>
      \E s \in Runs \ {r} : EntryOf(s) = EntryOf(r) /\ Taken(s) /\ runAt[s] = "answered"

\* The registry and the runs in flight agree.
RegistryIsRight == EntriesAreInFlight /\ UncancellableOnlyAfterReuse

\* A run that was cancelled, timed out or lost its runtime is answered, unless
\* a descendant that left the process group keeps the output pipe: then the
\* second receive of runWithContext waits for it, timeout or not.
InterruptedRunsEnd ==
  \A r \in Runs :
    (InFlight(r) /\ HelperOf[r] # "escaped" /\ (expiry[r] # "none" \/ runGen[r] < generation))
      ~> (runAt[r] = "answered")
=============================================================================
