----------------------------- MODULE ProcProofs -----------------------------
(***************************************************************************)
(* Proofs about internal/proc and the handlers of it, for any number of    *)
(* requests, processes, ids and resets: that the registry of proc.run and  *)
(* the runs agree and that a proc.cancel reaches one run, its own          *)
(* (ProcRuns); and that what proc.stdin writes is whole (ProcStdin).       *)
(***************************************************************************)
EXTENDS ProcRuns, ProcStdin, RuntimeProofs

\* A run whose handler has looked at the registry.
Begun(r) == runAt[r] \notin {"unused", "arrived"}

\* A cancel that has not found its run has none; a run that was taken is past
\* its registration, and no entry of the registry names it any more.
CancelsTakeOnce ==
  /\ \A c \in Cancels : cancelAt[c] \in {"unused", "by_run", "by_request"} => target[c] = NoRun
  /\ \A c \in Cancels : target[c] # NoRun =>
       /\ Begun(target[c])
       /\ \A g \in Generations, k \in RunIds : procRunCancels[<<g, k>>] # target[c]

\* Only a cancel that took a run ends its context for that reason.
CausesAreTaken == \A r \in Runs : cause[r] = "cancel" => Taken(r)

\* The inductive invariant.  That no two cancels take one run needs that a run
\* once taken is in no entry; that a run lost its entry only to the reuse of
\* its id needs that an entry names a run in flight under its own key.
IInv ==
  /\ TypeOKRuns
  /\ EntriesAreInFlight
  /\ CancelsTakeOnce
  /\ CausesAreTaken
  /\ CancelReachesItsRun
  /\ UncancellableOnlyAfterReuse

-----------------------------------------------------------------------------
(* Types.                                                                  *)

\* The type holds when the relay starts.
LEMMA InitType == InitRuns => TypeOKRuns
<1> SUFFICES ASSUME InitRuns PROVE TypeOKRuns
  OBVIOUS
<1>1. TypeOKRuntime
  BY RuntimeInit DEF InitRuns
<1> QED BY <1>1, RunsAssumption DEF InitRuns, TypeOKRuns

\* A request carries a generation that exists.
LEMMA GenerationTyped == ASSUME TypeOKRuntime PROVE generation \in Generations
BY DEF TypeOKRuntime

\* What a run that was started, or failed to start, can answer.
LEMMA OutcomeType ==
  ASSUME NEW r, NEW how
  PROVE  Outcome(r, how) \in {"result", "timed_out", "canceled", "error"}
  BY DEF Outcome

\* What Return does to the variables it sets.
LEMMA ReturnType ==
  ASSUME TypeOKRuns, NEW r \in Runs, NEW how, Return(r, how),
         runAt[r] \in {"registered", "running", "killing"}
  PROVE  /\ runAt' \in [Runs -> {"unused", "arrived", "registered", "running", "killing",
                         "returned", "answered"}]
         /\ cause' \in [Runs -> {"none", "cancel", "reset"}]
         /\ expiry' \in [Runs -> {"none", "deadline", "canceled"}]
         /\ answer' \in [Runs -> {"none", "duplicate", "result", "timed_out", "canceled", "error"}]
         /\ \A s \in Runs : (answer'[s] # "none") <=> (runAt'[s] \in {"returned", "answered"})
         /\ \A s \in Runs : runAt[s] = "unused" => runAt'[s] = "unused"
<1> DEFINE o == Outcome(r, how)
<1>1. o \in {"result", "timed_out", "canceled", "error"}
  BY OutcomeType
<1>2. answer' = [answer EXCEPT ![r] = o]
  BY DEF Return
<1> HIDE DEF o
<1> QED BY <1>1, <1>2 DEF Return, TypeOKRuns

\* A run that returns, and changes nothing else, keeps the type.
LEMMA ReturnKeepsType ==
  ASSUME TypeOKRuns, TypeOKRuntime', NEW r \in Runs, NEW how, Return(r, how),
         runAt[r] \in {"registered", "running", "killing"},
         UNCHANGED <<runEnvVars, process, helped, procRunCancels, cancelVars>>
  PROVE  TypeOKRuns'
<1>1. /\ runAt' \in [Runs -> {"unused", "arrived", "registered", "running", "killing",
                         "returned", "answered"}]
      /\ cause' \in [Runs -> {"none", "cancel", "reset"}]
      /\ expiry' \in [Runs -> {"none", "deadline", "canceled"}]
      /\ answer' \in [Runs -> {"none", "duplicate", "result", "timed_out", "canceled", "error"}]
      /\ \A s \in Runs : (answer'[s] # "none") <=> (runAt'[s] \in {"returned", "answered"})
      /\ \A s \in Runs : runAt[s] = "unused" => runAt'[s] = "unused"
  BY ReturnType
<1>2. UNCHANGED <<runKey, runGen, process, helped, procRunCancels, cancelAt, cancelIds,
                  cancelGen, target>>
  BY DEF runEnvVars, cancelVars
<1>3. \A s \in Runs : runAt'[s] = "unused" \/ runGen'[s] \in Generations
  BY <1>1, <1>2 DEF TypeOKRuns
<1>4. /\ runKey' \in [Runs -> RunIds \cup {NoId}]
      /\ runGen' \in [Runs -> Generations \cup {0}]
      /\ process' \in [Runs -> {"none", "alive", "ended"}]
      /\ helped' \subseteq Runs
  BY <1>2 DEF TypeOKRuns
<1>5. /\ procRunCancels' \in [Generations \X RunIds -> Runs \cup {NoRun}]
      /\ cancelAt' \in [Cancels -> {"unused", "by_run", "by_request", "firing", "answered"}]
      /\ cancelIds' \in [Cancels -> (RunIds \cup {NoId}) \X (RunIds \cup {NoId})]
      /\ cancelGen' \in [Cancels -> Generations \cup {0}]
      /\ \A c \in Cancels : cancelAt'[c] = "unused" \/ cancelGen'[c] \in Generations
      /\ target' \in [Cancels -> Runs \cup {NoRun}]
  BY <1>2 DEF TypeOKRuns
<1> QED BY <1>1, <1>3, <1>4, <1>5 DEF TypeOKRuns

\* The end of some contexts keeps the type of what they record.
LEMMA EndContextsType ==
  ASSUME TypeOKRuns, NEW R, NEW why \in {"cancel", "reset"}, EndContexts(R, why)
  PROVE  /\ cause' \in [Runs -> {"none", "cancel", "reset"}]
         /\ expiry' \in [Runs -> {"none", "deadline", "canceled"}]
<1>1. \A r \in Runs : cause[r] \in {"none", "cancel", "reset"}
                      /\ expiry[r] \in {"none", "deadline", "canceled"}
  BY DEF TypeOKRuns
<1> QED BY <1>1 DEF EndContexts

\* Every step keeps the type.
LEMMA TypePreserved ==
  ASSUME TypeOKRuns, NextRuns
  PROVE  TypeOKRuns'
<1>0. TypeOKRuntime
  BY DEF TypeOKRuns
<1>k. ASSUME UNCHANGED runtimeVars PROVE TypeOKRuntime'
  BY <1>0, <1>k, RuntimeKept
<1>1. ASSUME NEW r \in Runs, NEW k \in RunKeys, ArriveRun(r, k) PROVE TypeOKRuns'
  <2>1. TypeOKRuntime'
    BY <1>k, <1>1 DEF ArriveRun
  <2> QED BY <1>0, <1>1, <2>1, RunsAssumption, GenerationTyped DEF ArriveRun, TypeOKRuns, cancelVars
<1>2. ASSUME NEW r \in Runs, Remember(r) PROVE TypeOKRuns'
  <2>1. TypeOKRuntime'
    BY <1>k, <1>2 DEF Remember
  <2>2. CASE Register(r)
    BY <1>2, <2>1, <2>2, RunsAssumption 
       DEF Remember, Register, DeriveContext, EntryOf, TypeOKRuns, cancelVars, runEnvVars
  <2>3. CASE RefuseDuplicate(r)
    BY <1>2, <2>1, <2>3 DEF Remember, RefuseDuplicate, TypeOKRuns, cancelVars, runEnvVars
  <2> QED BY <1>2, <2>2, <2>3 DEF Remember
<1>3. ASSUME NEW r \in Runs, Launch(r) PROVE TypeOKRuns'
  <2>1. TypeOKRuntime'
    BY <1>k, <1>3 DEF Launch
  <2>2. ASSUME NEW how, Return(r, how), UNCHANGED <<process, helped>> PROVE TypeOKRuns'
    <3>1. runAt[r] \in {"registered", "running", "killing"}
      BY <1>3 DEF Launch
    <3> QED BY <1>3, <2>1, <2>2, <3>1, ReturnKeepsType DEF Launch
  <2>3. CASE runAt' = [runAt EXCEPT ![r] = "running"]
    BY <1>3, <2>1, <2>3 DEF Launch, Return, TypeOKRuns, cancelVars, runEnvVars
  <2> QED BY <1>3, <2>2, <2>3 DEF Launch
<1>4. ASSUME NEW r \in Runs, TakeResult(r) PROVE TypeOKRuns'
  <2>1. TypeOKRuntime'
    BY <1>k, <1>4 DEF TakeResult
  <2>2. runAt[r] \in {"registered", "running", "killing"}
    BY <1>4 DEF TakeResult
  <2>3. PICK how \in {"ok", "failed", "context"} : Return(r, how)
    BY <1>4 DEF TakeResult
  <2> QED BY <1>4, <2>1, <2>2, <2>3, ReturnKeepsType DEF TakeResult
<1>5. ASSUME NEW r \in Runs, KillGroup(r) PROVE TypeOKRuns'
  <2>1. TypeOKRuntime'
    BY <1>k, <1>5 DEF KillGroup
  <2> QED BY <1>5, <2>1 DEF KillGroup, TypeOKRuns, cancelVars, runEnvVars
<1>6. ASSUME NEW r \in Runs, TakeKilled(r) PROVE TypeOKRuns'
  <2>1. TypeOKRuntime'
    BY <1>k, <1>6 DEF TakeKilled
  <2>2. runAt[r] \in {"registered", "running", "killing"}
    BY <1>6 DEF TakeKilled
  <2>3. PICK how \in {"ok", "failed", "context"} : Return(r, how)
    BY <1>6 DEF TakeKilled
  <2> QED BY <1>6, <2>1, <2>2, <2>3, ReturnKeepsType DEF TakeKilled
<1>7. ASSUME NEW r \in Runs, Forget(r) PROVE TypeOKRuns'
  <2>1. TypeOKRuntime'
    BY <1>k, <1>7 DEF Forget
  <2> QED BY <1>7, <2>1 DEF Forget, EntryOf, TypeOKRuns, cancelVars, runEnvVars
<1>8. ASSUME NEW r \in Runs, Exit(r) \/ HelperEnds(r) \/ Deadline(r) PROVE TypeOKRuns'
  <2>1. TypeOKRuntime'
    BY <1>k, <1>8 DEF Exit, HelperEnds, Deadline
  <2> QED BY <1>8, <2>1 DEF Exit, HelperEnds, Deadline, TypeOKRuns, cancelVars, runEnvVars
<1>9. ASSUME NEW c \in Cancels, NEW ids \in CancelRequests, AskCancel(c, ids) PROVE TypeOKRuns'
  <2>1. TypeOKRuntime'
    BY <1>k, <1>9 DEF AskCancel
  <2> QED BY <1>0, <1>9, <2>1, RunsAssumption, GenerationTyped DEF AskCancel, TypeOKRuns, runEnvVars
<1>10. ASSUME NEW c \in Cancels, TryRunId(c) \/ TryRequestId(c) PROVE TypeOKRuns'
  <2>1. TypeOKRuntime'
    BY <1>k, <1>10 DEF TryRunId, TryRequestId, TakeEntry
  <2>2. PICK id \in RunIds \cup {NoId}, otherwise \in {"by_request", "answered"} :
          TakeEntry(c, id, otherwise) /\ cancelAt[c] \in {"by_run", "by_request"}
    BY <1>10 DEF TryRunId, TryRequestId, TypeOKRuns
  <2> DEFINE e == <<cancelGen[c], id>>
  <2>3. CASE id = NoId \/ procRunCancels[e] = NoRun
    BY <2>1, <2>2, <2>3 DEF TakeEntry, TypeOKRuns, runEnvVars
  <2>4. CASE ~(id = NoId \/ procRunCancels[e] = NoRun)
    <3>1. /\ cancelAt' = [cancelAt EXCEPT ![c] = "firing"]
          /\ target' = [target EXCEPT ![c] = procRunCancels[e]]
          /\ procRunCancels' = [procRunCancels EXCEPT ![e] = NoRun]
      BY <2>2, <2>4 DEF TakeEntry
    <3>2. e \in Generations \X RunIds
      BY <2>2, <2>4 DEF TypeOKRuns
    <3> QED BY <2>1, <2>2, <3>1, <3>2 DEF TakeEntry, TypeOKRuns, runEnvVars
  <2> QED BY <2>3, <2>4
<1>11. ASSUME NEW c \in Cancels, Fire(c) PROVE TypeOKRuns'
  <2>1. TypeOKRuntime'
    BY <1>k, <1>11 DEF Fire
  <2> QED BY <1>11, <2>1, EndContextsType DEF Fire, TypeOKRuns, runEnvVars
<1>12. ASSUME NEW t \in Resetters, ResetCancelsRuns(t) PROVE TypeOKRuns'
  <2>1. TypeOKRuntime'
    BY <1>0, <1>12, RuntimeSteps DEF ResetCancelsRuns
  <2> QED BY <1>12, <2>1, EndContextsType DEF ResetCancelsRuns, TypeOKRuns, runEnvVars, cancelVars
<1>13. ASSUME NEW t \in Resetters, ResetStep(t) PROVE TypeOKRuns'
  <2>1. TypeOKRuntime'
    BY <1>0, <1>13, RuntimeSteps DEF ResetStep
  <2> QED BY <1>13, <2>1 DEF ResetStep, runVars, TypeOKRuns
<1>14. ASSUME StopCancelsRuns PROVE TypeOKRuns'
  <2>1. TypeOKRuntime'
    BY <1>0, <1>14, CancelAllKeeps DEF StopCancelsRuns
  <2> QED BY <1>14, <2>1, EndContextsType DEF StopCancelsRuns, TypeOKRuns, runEnvVars, cancelVars
<1> QED
  BY <1>1, <1>2, <1>3, <1>4, <1>5, <1>6, <1>7, <1>8, <1>9, <1>10, <1>11, <1>12, <1>13, <1>14
  DEF NextRuns, RunStep, CancelStep

-----------------------------------------------------------------------------
(* Steps that touch neither the registry nor a target.                     *)

\* Where a cancel has no target yet.
Early == {"unused", "by_run", "by_request"}

\* Such a step moves a run at most from one place in flight to another.
Quiet ==
  /\ UNCHANGED <<runKey, runGen, procRunCancels, cancelIds, cancelGen, target>>
  /\ \A s \in Runs : /\ InFlight(s)' <=> InFlight(s)
                     /\ Begun(s)' <=> Begun(s)
                     /\ runAt'[s] = "answered" <=> runAt[s] = "answered"
  /\ \A c \in Cancels : cancelAt'[c] \in Early => cancelAt[c] \in Early
  /\ \A s \in Runs : /\ cause'[s] = "cancel" => cause[s] = "cancel" \/ Taken(s)
                     /\ answer'[s] = "canceled" => answer[s] = "canceled" \/ cause[s] = "cancel"

\* It keeps the invariant.
LEMMA QuietKeeps ==
  ASSUME IInv, Quiet, TypeOKRuns'
  PROVE  IInv'
<1>1. UNCHANGED <<runKey, runGen, procRunCancels, cancelIds, cancelGen, target>>
  BY DEF Quiet
<1>2. \A s \in Runs : Taken(s)' <=> Taken(s)
  BY <1>1 DEF Taken
<1>3. \A s \in Runs : EntryOf(s)' = EntryOf(s)
  BY <1>1 DEF EntryOf
<1>4. EntriesAreInFlight'
  <2>1. \A g \in Generations, k \in RunIds : procRunCancels[<<g, k>>] \in Runs \cup {NoRun}
    BY DEF IInv, TypeOKRuns
  <2> QED BY <1>1, <2>1 DEF IInv, Quiet, EntriesAreInFlight
<1>5. CancelsTakeOnce'
  <2>1. \A c \in Cancels : target[c] \in Runs \cup {NoRun}
    BY DEF IInv, TypeOKRuns
  <2> QED BY <1>1, <2>1 DEF IInv, Quiet, CancelsTakeOnce, Early
<1>6. CausesAreTaken'
  BY <1>2 DEF IInv, Quiet, CausesAreTaken
<1>7. CancelReachesItsRun'
  <2>1. \A s \in Runs : answer'[s] = "canceled" => Taken(s)'
    BY <1>2 DEF IInv, Quiet, CancelReachesItsRun, CausesAreTaken
  <2> QED BY <1>1, <2>1 DEF IInv, CancelReachesItsRun
<1>8. UncancellableOnlyAfterReuse'
  BY <1>1, <1>2, <1>3 DEF IInv, Quiet, UncancellableOnlyAfterReuse
<1> QED BY <1>4, <1>5, <1>6, <1>7, <1>8 DEF IInv

\* The contexts that a cancel ends are those of runs that it took.
LEMMA EndContextsQuiet ==
  ASSUME TypeOKRuns, NEW R, NEW why \in {"cancel", "reset"}, EndContexts(R, why),
         \A s \in Runs \cap R : why = "cancel" => Taken(s)
  PROVE  \A s \in Runs : cause'[s] = "cancel" => cause[s] = "cancel" \/ Taken(s)
BY DEF EndContexts, TypeOKRuns

\* A run returns "canceled" only when a cancel ended its context first.
LEMMA ReturnQuiet ==
  ASSUME TypeOKRuns, NEW r \in Runs, NEW how \in {"ok", "failed", "start", "context"},
         Return(r, how)
  PROVE  /\ \A s \in Runs : cause'[s] = "cancel" => cause[s] = "cancel"
         /\ \A s \in Runs : answer'[s] = "canceled" => answer[s] = "canceled" \/ cause[s] = "cancel"
         /\ runAt' = [runAt EXCEPT ![r] = "returned"]
<1>1. Outcome(r, how) = "canceled" => cause[r] = "cancel"
  BY DEF Outcome
<1> DEFINE o == Outcome(r, how)
<1>2. answer' = [answer EXCEPT ![r] = o]
  BY DEF Return
<1>3. o = "canceled" => cause[r] = "cancel"
  BY <1>1
<1> HIDE DEF o
<1> QED BY <1>2, <1>3 DEF Return, TypeOKRuns

\* A move in flight.
LEMMA MoveInFlight ==
  ASSUME TypeOKRuns, NEW r \in Runs, NEW to \in {"registered", "running", "killing", "returned"},
         runAt[r] \in {"registered", "running", "killing"},
         runAt' = [runAt EXCEPT ![r] = to]
  PROVE  \A s \in Runs : /\ InFlight(s)' <=> InFlight(s)
                         /\ Begun(s)' <=> Begun(s)
                         /\ runAt'[s] = "answered" <=> runAt[s] = "answered"
BY DEF TypeOKRuns, InFlight, Begun

\* The steps of a run between its registration and its deferred call.
LEMMA RunMovesAreQuiet ==
  ASSUME TypeOKRuns, NEW r \in Runs, Launch(r) \/ TakeResult(r) \/ KillGroup(r) \/ TakeKilled(r)
  PROVE  Quiet
<1>1. /\ runAt[r] \in {"registered", "running", "killing"}
      /\ UNCHANGED <<runKey, runGen, procRunCancels, cancelAt, cancelIds, cancelGen, target>>
  BY DEF Launch, TakeResult, KillGroup, TakeKilled, runEnvVars, cancelVars
<1>2. \/ \E how \in {"ok", "failed", "start", "context"} : Return(r, how)
      \/ /\ runAt' = [runAt EXCEPT ![r] = "running"] \/ runAt' = [runAt EXCEPT ![r] = "killing"]
         /\ UNCHANGED <<cause, answer>>
  BY DEF Launch, TakeResult, KillGroup, TakeKilled
<1>3. CASE \E how \in {"ok", "failed", "start", "context"} : Return(r, how)
  <2>1. PICK how \in {"ok", "failed", "start", "context"} : Return(r, how)
    BY <1>3
  <2>2. /\ \A s \in Runs : cause'[s] = "cancel" => cause[s] = "cancel"
        /\ \A s \in Runs : answer'[s] = "canceled" => answer[s] = "canceled" \/ cause[s] = "cancel"
        /\ runAt' = [runAt EXCEPT ![r] = "returned"]
    BY <2>1, ReturnQuiet
  <2>3. \A s \in Runs : /\ InFlight(s)' <=> InFlight(s)
                        /\ Begun(s)' <=> Begun(s)
                        /\ runAt'[s] = "answered" <=> runAt[s] = "answered"
    BY <1>1, <2>2, MoveInFlight
  <2> QED BY <1>1, <2>2, <2>3 DEF Quiet
<1>4. CASE /\ runAt' = [runAt EXCEPT ![r] = "running"] \/ runAt' = [runAt EXCEPT ![r] = "killing"]
           /\ UNCHANGED <<cause, answer>>
  <2>1. \A s \in Runs : /\ InFlight(s)' <=> InFlight(s)
                        /\ Begun(s)' <=> Begun(s)
                        /\ runAt'[s] = "answered" <=> runAt[s] = "answered"
    BY <1>1, <1>4, MoveInFlight
  <2> QED BY <1>1, <1>4, <2>1 DEF Quiet
<1> QED BY <1>2, <1>3, <1>4

\* What the processes, the timers, a firing cancel and the resets do.
LEMMA OthersAreQuiet ==
  ASSUME TypeOKRuns,
         \/ \E r \in Runs : Exit(r) \/ HelperEnds(r) \/ Deadline(r)
         \/ \E c \in Cancels : Fire(c)
         \/ \E t \in Resetters : ResetCancelsRuns(t) \/ ResetStep(t)
         \/ StopCancelsRuns
         \/ UNCHANGED <<runtimeVars, runVars>>
  PROVE  Quiet
<1>1. UNCHANGED <<runKey, runGen, procRunCancels, cancelIds, cancelGen, target, runAt, answer>>
  BY DEF Exit, HelperEnds, Deadline, Fire, ResetCancelsRuns, ResetStep, StopCancelsRuns,
         runVars, runEnvVars, cancelVars
<1>2. \A s \in Runs : (InFlight(s)' <=> InFlight(s)) /\ (Begun(s)' <=> Begun(s))
  BY <1>1 DEF InFlight, Begun
<1>3. \A c \in Cancels : cancelAt'[c] \in Early => cancelAt[c] \in Early
  BY DEF Exit, HelperEnds, Deadline, Fire, ResetCancelsRuns, ResetStep, StopCancelsRuns,
         runVars, runEnvVars, cancelVars, Early, TypeOKRuns
<1>4. \A s \in Runs : cause'[s] = "cancel" => cause[s] = "cancel" \/ Taken(s)
  <2>1. CASE \E c \in Cancels : Fire(c)
    BY <2>1, EndContextsQuiet DEF Fire, Taken
  <2>2. CASE \E t \in Resetters : ResetCancelsRuns(t)
    BY <2>2, EndContextsQuiet DEF ResetCancelsRuns
  <2>3. CASE StopCancelsRuns
    BY <2>3, EndContextsQuiet DEF StopCancelsRuns
  <2> QED BY <2>1, <2>2, <2>3 DEF Exit, HelperEnds, Deadline, ResetStep, runVars
<1> QED BY <1>1, <1>2, <1>3, <1>4 DEF Quiet

-----------------------------------------------------------------------------
(* The other steps.                                                        *)

\* A run that arrives is in no entry and no target.
LEMMA ArriveKeeps ==
  ASSUME IInv, TypeOKRuns', NEW r \in Runs, NEW k \in RunKeys, ArriveRun(r, k)
  PROVE  IInv'
<1>1. /\ runAt[r] = "unused"
      /\ runAt' = [runAt EXCEPT ![r] = "arrived"]
      /\ runKey' = [runKey EXCEPT ![r] = k]
      /\ runGen' = [runGen EXCEPT ![r] = generation]
      /\ UNCHANGED <<cause, answer, procRunCancels, cancelAt, cancelIds, cancelGen, target>>
  BY DEF ArriveRun, cancelVars
<1>2. ~InFlight(r) /\ ~InFlight(r)' /\ ~Begun(r)
  BY <1>1 DEF InFlight, Begun, IInv, TypeOKRuns
<1>3. \A s \in Runs \ {r} : /\ InFlight(s)' <=> InFlight(s)
                            /\ Begun(s)' <=> Begun(s)
                            /\ runAt'[s] = runAt[s]
                            /\ runKey'[s] = runKey[s] /\ runGen'[s] = runGen[s]
  BY <1>1 DEF InFlight, Begun, IInv, TypeOKRuns
<1>4. \A s \in Runs : Taken(s)' <=> Taken(s)
  BY <1>1 DEF Taken
<1>5. ~Taken(r)
  BY <1>2, RunsAssumption DEF IInv, CancelsTakeOnce, Taken
<1>6. \A c \in Cancels : target[c] = NoRun \/ target[c] \in Runs \ {r}
  BY <1>5 DEF Taken, IInv, TypeOKRuns
<1>7. EntriesAreInFlight'
  <2>1. \A g \in Generations, j \in RunIds : procRunCancels[<<g, j>>] \in Runs \cup {NoRun}
    BY DEF IInv, TypeOKRuns
  <2> QED BY <1>1, <1>2, <1>3, <2>1 DEF IInv, EntriesAreInFlight
<1>8. CancelsTakeOnce'
  BY <1>1, <1>3, <1>6 DEF IInv, CancelsTakeOnce
<1>9. CausesAreTaken'
  BY <1>1, <1>4 DEF IInv, CausesAreTaken
<1>10. CancelReachesItsRun'
  <2>1. \A s \in Runs : answer'[s] = "canceled" => Taken(s)'
    BY <1>1, <1>4 DEF IInv, CancelReachesItsRun
  <2> QED BY <1>1, <1>3, <1>6, <2>1 DEF IInv, CancelReachesItsRun
<1>11. UncancellableOnlyAfterReuse'
  <2>1. \A s \in Runs \ {r} : EntryOf(s)' = EntryOf(s)
    BY <1>3 DEF EntryOf
  <2> SUFFICES ASSUME NEW s \in Runs, (InFlight(s) /\ runKey[s] # NoId /\ ~Taken(s)
                                       /\ procRunCancels[EntryOf(s)] # s)'
               PROVE  \E q \in Runs \ {s} :
                         EntryOf(q)' = EntryOf(s)' /\ Taken(q)' /\ runAt'[q] = "answered"
    BY DEF UncancellableOnlyAfterReuse
  <2>2. s # r
    BY <1>2
  <2>3. PICK q \in Runs \ {s} : EntryOf(q) = EntryOf(s) /\ Taken(q) /\ runAt[q] = "answered"
    BY <1>1, <1>3, <1>4, <2>1, <2>2 DEF IInv, UncancellableOnlyAfterReuse
  <2>4. q # r
    BY <1>1, <2>3
  <2> QED BY <1>3, <1>4, <2>1, <2>2, <2>3, <2>4
<1> QED BY <1>7, <1>8, <1>9, <1>10, <1>11 DEF IInv

\* A registration takes a key that is free.
LEMMA RegisterKeeps ==
  ASSUME IInv, TypeOKRuns', NEW r \in Runs, Remember(r), Register(r)
  PROVE  IInv'
<1>1. /\ runAt[r] = "arrived"
      /\ runAt' = [runAt EXCEPT ![r] = "registered"]
      /\ ~EntryTaken(r)
      /\ procRunCancels' = IF runKey[r] = NoId THEN procRunCancels
                           ELSE [procRunCancels EXCEPT ![EntryOf(r)] = r]
      /\ cause' = [cause EXCEPT ![r] = IF ContextDone(runGen[r]) THEN "reset" ELSE "none"]
      /\ UNCHANGED <<runKey, runGen, answer, cancelAt, cancelIds, cancelGen, target>>
  BY DEF Remember, Register, DeriveContext, runEnvVars, cancelVars
<1>2. ~InFlight(r) /\ ~Begun(r) /\ InFlight(r)'
  BY <1>1 DEF InFlight, Begun, IInv, TypeOKRuns
<1>3. \A s \in Runs \ {r} : /\ InFlight(s)' <=> InFlight(s)
                            /\ Begun(s)' <=> Begun(s)
                            /\ runAt'[s] = runAt[s]
  BY <1>1 DEF InFlight, Begun, IInv, TypeOKRuns
<1>4. \A s \in Runs : (Taken(s)' <=> Taken(s)) /\ EntryOf(s)' = EntryOf(s)
  BY <1>1 DEF Taken, EntryOf
<1>5. ~Taken(r)
  BY <1>2, RunsAssumption DEF IInv, CancelsTakeOnce, Taken
<1>6. \A c \in Cancels : target[c] = NoRun \/ target[c] \in Runs \ {r}
  BY <1>5 DEF Taken, IInv, TypeOKRuns
<1>7. \A g \in Generations, j \in RunIds :
        procRunCancels'[<<g, j>>] = IF runKey[r] # NoId /\ <<g, j>> = EntryOf(r) THEN r
                                    ELSE procRunCancels[<<g, j>>]
  BY <1>1 DEF IInv, TypeOKRuns
<1>8. EntriesAreInFlight'
  <2> SUFFICES ASSUME NEW g \in Generations, NEW j \in RunIds, NEW s \in Runs,
                      procRunCancels'[<<g, j>>] = s
               PROVE  InFlight(s)' /\ runGen'[s] = g /\ runKey'[s] = j
    BY DEF EntriesAreInFlight
  <2>1. CASE s = r
    <3>1. ~(InFlight(r) /\ runGen[r] = g /\ runKey[r] = j)
      BY <1>2
    <3>2. procRunCancels[<<g, j>>] # r
      BY <3>1 DEF IInv, EntriesAreInFlight
    <3>3. <<g, j>> = EntryOf(r)
      BY <1>7, <2>1, <3>2
    <3> QED BY <1>1, <1>2, <2>1, <3>3 DEF EntryOf
  <2>2. CASE s # r
    <3>1. procRunCancels[<<g, j>>] = s
      BY <1>7, <2>2
    <3>2. InFlight(s) /\ runGen[s] = g /\ runKey[s] = j
      BY <3>1 DEF IInv, EntriesAreInFlight
    <3> QED BY <1>1, <1>3, <2>2, <3>2
  <2> QED BY <2>1, <2>2
<1>9. CancelsTakeOnce'
  <2>1. \A c \in Cancels : cancelAt'[c] \in Early => target'[c] = NoRun
    BY <1>1 DEF IInv, CancelsTakeOnce, Early
  <2>2. ASSUME NEW c \in Cancels, target'[c] # NoRun
        PROVE  /\ Begun(target[c])'
               /\ \A g \in Generations, j \in RunIds : procRunCancels'[<<g, j>>] # target[c]
    BY <1>1, <1>3, <1>6, <1>7, <2>2 DEF IInv, CancelsTakeOnce
  <2> QED BY <1>1, <2>1, <2>2 DEF CancelsTakeOnce, Early, Begun
<1>10. CausesAreTaken'
  BY <1>1, <1>4 DEF IInv, CausesAreTaken, TypeOKRuns
<1>11. CancelReachesItsRun'
  <2>1. \A s \in Runs : answer'[s] = "canceled" => Taken(s)'
    BY <1>1, <1>4 DEF IInv, CancelReachesItsRun
  <2> QED BY <1>1, <2>1 DEF IInv, CancelReachesItsRun
<1>12. UncancellableOnlyAfterReuse'
  <2> SUFFICES ASSUME NEW s \in Runs, (InFlight(s) /\ runKey[s] # NoId /\ ~Taken(s)
                                       /\ procRunCancels[EntryOf(s)] # s)'
               PROVE  \E q \in Runs \ {s} :
                         EntryOf(q)' = EntryOf(s)' /\ Taken(q)' /\ runAt'[q] = "answered"
    BY DEF UncancellableOnlyAfterReuse
  <2>1. EntryOf(s) \in Generations \X RunIds
    BY <1>1 DEF EntryOf, InFlight, TypeOKRuns
  <2>2. s # r
    BY <1>1, <1>4, <2>1 DEF IInv, TypeOKRuns
  <2>3. procRunCancels[EntryOf(s)] # s
    BY <1>1, <1>4, <2>1, <2>2, RunsAssumption DEF EntryTaken, IInv, TypeOKRuns
  <2>4. PICK q \in Runs \ {s} : EntryOf(q) = EntryOf(s) /\ Taken(q) /\ runAt[q] = "answered"
    BY <1>1, <1>3, <1>4, <2>2, <2>3 DEF IInv, UncancellableOnlyAfterReuse
  <2>5. q # r
    BY <1>1, <2>4
  <2> QED BY <1>3, <1>4, <2>4, <2>5
<1> QED BY <1>8, <1>9, <1>10, <1>11, <1>12 DEF IInv

\* A refusal leaves the registry alone.
LEMMA RefuseKeeps ==
  ASSUME IInv, TypeOKRuns', NEW r \in Runs, Remember(r), RefuseDuplicate(r)
  PROVE  IInv'
<1>1. /\ runAt[r] = "arrived"
      /\ runAt' = [runAt EXCEPT ![r] = "answered"]
      /\ answer' = [answer EXCEPT ![r] = "duplicate"]
      /\ UNCHANGED <<runKey, runGen, cause, procRunCancels, cancelAt, cancelIds, cancelGen, target>>
  BY DEF Remember, RefuseDuplicate, runEnvVars, cancelVars
<1>2. \A s \in Runs : /\ InFlight(s)' <=> InFlight(s)
                      /\ Begun(s) => Begun(s)'
                      /\ runAt[s] = "answered" => runAt'[s] = "answered"
                      /\ answer'[s] = "canceled" => answer[s] = "canceled"
  BY <1>1 DEF InFlight, Begun, IInv, TypeOKRuns
<1>3. \A s \in Runs : (Taken(s)' <=> Taken(s)) /\ EntryOf(s)' = EntryOf(s)
  BY <1>1 DEF Taken, EntryOf
<1>4. EntriesAreInFlight'
  <2>1. \A g \in Generations, j \in RunIds : procRunCancels[<<g, j>>] \in Runs \cup {NoRun}
    BY DEF IInv, TypeOKRuns
  <2> QED BY <1>1, <1>2, <2>1 DEF IInv, EntriesAreInFlight
<1>5. CancelsTakeOnce'
  <2>1. \A c \in Cancels : target[c] \in Runs \cup {NoRun}
    BY DEF IInv, TypeOKRuns
  <2> QED BY <1>1, <1>2, <2>1 DEF IInv, CancelsTakeOnce
<1>6. CausesAreTaken'
  BY <1>1, <1>3 DEF IInv, CausesAreTaken
<1>7. CancelReachesItsRun'
  <2>1. \A s \in Runs : answer'[s] = "canceled" => Taken(s)'
    BY <1>2, <1>3 DEF IInv, CancelReachesItsRun
  <2> QED BY <1>1, <2>1 DEF IInv, CancelReachesItsRun
<1>8. UncancellableOnlyAfterReuse'
  BY <1>1, <1>2, <1>3 DEF IInv, UncancellableOnlyAfterReuse
<1> QED BY <1>4, <1>5, <1>6, <1>7, <1>8 DEF IInv

\* The deferred call removes the entry of its key.  When that entry is of a
\* later run, the run that returns has lost its own: it was taken, or an
\* earlier run of the key was.
LEMMA ForgetKeeps ==
  ASSUME IInv, TypeOKRuns', NEW r \in Runs, Forget(r)
  PROVE  IInv'
<1>1. /\ runAt[r] = "returned"
      /\ runAt' = [runAt EXCEPT ![r] = "answered"]
      /\ procRunCancels' = IF runKey[r] = NoId THEN procRunCancels
                           ELSE [procRunCancels EXCEPT ![EntryOf(r)] = NoRun]
      /\ UNCHANGED <<runKey, runGen, cause, answer, cancelAt, cancelIds, cancelGen, target>>
  BY DEF Forget, runEnvVars, cancelVars
<1>2. InFlight(r) /\ ~InFlight(r)' /\ runAt'[r] = "answered"
  BY <1>1 DEF InFlight, IInv, TypeOKRuns
<1>3. \A s \in Runs : /\ s # r => (InFlight(s)' <=> InFlight(s))
                      /\ Begun(s) => Begun(s)'
                      /\ runAt[s] = "answered" => runAt'[s] = "answered"
  BY <1>1 DEF InFlight, Begun, IInv, TypeOKRuns
<1>4. \A s \in Runs : (Taken(s)' <=> Taken(s)) /\ EntryOf(s)' = EntryOf(s)
  BY <1>1 DEF Taken, EntryOf
<1>5. \A g \in Generations, j \in RunIds :
        procRunCancels'[<<g, j>>] = IF runKey[r] # NoId /\ <<g, j>> = EntryOf(r) THEN NoRun
                                    ELSE procRunCancels[<<g, j>>]
  BY <1>1 DEF IInv, TypeOKRuns
<1>6. EntriesAreInFlight'
  <2> SUFFICES ASSUME NEW g \in Generations, NEW j \in RunIds, NEW s \in Runs,
                      procRunCancels'[<<g, j>>] = s
               PROVE  InFlight(s)' /\ runGen'[s] = g /\ runKey'[s] = j
    BY DEF EntriesAreInFlight
  <2>1. /\ procRunCancels[<<g, j>>] = s
        /\ ~(runKey[r] # NoId /\ <<g, j>> = EntryOf(r))
    BY <1>5, RunsAssumption
  <2>2. InFlight(s) /\ runGen[s] = g /\ runKey[s] = j
    BY <2>1 DEF IInv, EntriesAreInFlight
  <2>3. s # r
    BY <2>1, <2>2, RunsAssumption DEF EntryOf
  <2> QED BY <1>1, <1>3, <2>2, <2>3
<1>7. CancelsTakeOnce'
  <2>1. \A c \in Cancels : target[c] \in Runs \cup {NoRun}
    BY DEF IInv, TypeOKRuns
  <2> QED BY <1>1, <1>3, <1>5, <2>1 DEF IInv, CancelsTakeOnce
<1>8. CausesAreTaken'
  BY <1>1, <1>4 DEF IInv, CausesAreTaken
<1>9. CancelReachesItsRun'
  <2>1. \A s \in Runs : answer'[s] = "canceled" => Taken(s)'
    BY <1>1, <1>4 DEF IInv, CancelReachesItsRun
  <2> QED BY <1>1, <2>1 DEF IInv, CancelReachesItsRun
<1>10. UncancellableOnlyAfterReuse'
  <2> SUFFICES ASSUME NEW s \in Runs, (InFlight(s) /\ runKey[s] # NoId /\ ~Taken(s)
                                       /\ procRunCancels[EntryOf(s)] # s)'
               PROVE  \E q \in Runs \ {s} :
                         EntryOf(q)' = EntryOf(s)' /\ Taken(q)' /\ runAt'[q] = "answered"
    BY DEF UncancellableOnlyAfterReuse
  <2>1. s # r /\ InFlight(s) /\ runKey[s] # NoId /\ ~Taken(s)
    BY <1>1, <1>2, <1>3, <1>4
  <2>2. EntryOf(s) \in Generations \X RunIds
    BY <2>1 DEF EntryOf, InFlight, IInv, TypeOKRuns
  <2>3. CASE procRunCancels[EntryOf(s)] # s
    <3>1. PICK q \in Runs \ {s} : EntryOf(q) = EntryOf(s) /\ Taken(q) /\ runAt[q] = "answered"
      BY <2>1, <2>3 DEF IInv, UncancellableOnlyAfterReuse
    <3> QED BY <1>3, <1>4, <3>1
  <2>4. CASE procRunCancels[EntryOf(s)] = s
    <3>1. runKey[r] # NoId /\ EntryOf(r) = EntryOf(s)
      <4>1. PICK g \in Generations, j \in RunIds : EntryOf(s) = <<g, j>>
        BY <2>2
      <4>2. procRunCancels'[<<g, j>>] # s
        BY <1>4, <4>1
      <4> QED BY <1>5, <2>4, <4>1, <4>2
    <3>2. CASE Taken(r)
      BY <1>2, <1>4, <2>1, <3>1, <3>2
    <3>3. CASE ~Taken(r)
      <4>1. PICK q \in Runs \ {r} : EntryOf(q) = EntryOf(r) /\ Taken(q) /\ runAt[q] = "answered"
        BY <1>2, <2>1, <2>4, <3>1, <3>3 DEF IInv, UncancellableOnlyAfterReuse
      <4>2. q # s
        BY <2>1, <4>1 DEF InFlight
      <4> QED BY <1>3, <1>4, <3>1, <4>1, <4>2
    <3> QED BY <3>2, <3>3
  <2> QED BY <2>3, <2>4
<1> QED BY <1>6, <1>7, <1>8, <1>9, <1>10 DEF IInv

\* A cancel that comes in has no target.
LEMMA AskKeeps ==
  ASSUME IInv, TypeOKRuns', NEW c \in Cancels, NEW ids \in CancelRequests, AskCancel(c, ids)
  PROVE  IInv'
<1>1. /\ cancelAt[c] = "unused"
      /\ cancelAt' = [cancelAt EXCEPT ![c] = "by_run"]
      /\ cancelIds' = [cancelIds EXCEPT ![c] = ids]
      /\ cancelGen' = [cancelGen EXCEPT ![c] = generation]
      /\ UNCHANGED <<runAt, runKey, runGen, cause, answer, procRunCancels, target>>
  BY DEF AskCancel, runEnvVars
<1>2. target[c] = NoRun
  BY <1>1 DEF IInv, CancelsTakeOnce
<1>3. \A d \in Cancels \ {c} : /\ cancelAt'[d] = cancelAt[d] /\ cancelIds'[d] = cancelIds[d]
                               /\ cancelGen'[d] = cancelGen[d]
  BY <1>1 DEF IInv, TypeOKRuns
<1>4. EntriesAreInFlight'
  BY <1>1 DEF IInv, EntriesAreInFlight, InFlight
<1>5. CancelsTakeOnce'
  BY <1>1, <1>2, <1>3 DEF IInv, CancelsTakeOnce, Begun
<1>6. CausesAreTaken'
  BY <1>1 DEF IInv, CausesAreTaken, Taken
<1>7. CancelReachesItsRun'
  BY <1>1, <1>2, <1>3 DEF IInv, CancelReachesItsRun, Taken
<1>8. UncancellableOnlyAfterReuse'
  BY <1>1 DEF IInv, UncancellableOnlyAfterReuse, InFlight, EntryOf, Taken
<1> QED BY <1>4, <1>5, <1>6, <1>7, <1>8 DEF IInv

\* The locked half of cancelProcRun takes a run out of its only entry, so that
\* no other cancel has it or will.
LEMMA TakeKeeps ==
  ASSUME IInv, TypeOKRuns', NEW c \in Cancels, NEW id \in RunIds \cup {NoId},
         NEW otherwise \in {"by_request", "answered"},
         cancelAt[c] \in {"by_run", "by_request"},
         id \in {cancelIds[c][1], cancelIds[c][2]},
         TakeEntry(c, id, otherwise)
  PROVE  IInv'
<1> DEFINE e == <<cancelGen[c], id>>
           x == procRunCancels[e]
<1>1. UNCHANGED <<runAt, runKey, runGen, cause, answer, cancelIds, cancelGen>>
  BY DEF TakeEntry, runEnvVars
<1>2. target[c] = NoRun
  BY DEF IInv, CancelsTakeOnce
<1>3. \A s \in Runs : EntryOf(s)' = EntryOf(s) /\ (InFlight(s)' <=> InFlight(s))
                      /\ (Begun(s)' <=> Begun(s))
  BY <1>1 DEF EntryOf, InFlight, Begun
<1>4. CASE id = NoId \/ x = NoRun
  <2>1. /\ cancelAt' = [cancelAt EXCEPT ![c] = otherwise]
        /\ UNCHANGED <<procRunCancels, target>>
    BY <1>4 DEF TakeEntry
  <2>2. EntriesAreInFlight'
    BY <1>1, <2>1 DEF IInv, EntriesAreInFlight, InFlight
  <2>3. CancelsTakeOnce'
    BY <1>1, <1>2, <2>1 DEF IInv, TypeOKRuns, CancelsTakeOnce, Begun
  <2>4. CausesAreTaken' /\ CancelReachesItsRun'
    BY <1>1, <2>1 DEF IInv, CausesAreTaken, CancelReachesItsRun, Taken
  <2>5. UncancellableOnlyAfterReuse'
    BY <1>1, <2>1 DEF IInv, UncancellableOnlyAfterReuse, InFlight, EntryOf, Taken
  <2> QED BY <2>2, <2>3, <2>4, <2>5 DEF IInv
<1>5. CASE ~(id = NoId \/ x = NoRun)
  <2>1. /\ cancelAt' = [cancelAt EXCEPT ![c] = "firing"]
        /\ target' = [target EXCEPT ![c] = x]
        /\ procRunCancels' = [procRunCancels EXCEPT ![e] = NoRun]
    BY <1>5 DEF TakeEntry
  <2>2. cancelGen[c] \in Generations /\ id \in RunIds
    BY <1>5 DEF IInv, TypeOKRuns
  <2>3. x \in Runs /\ InFlight(x) /\ runGen[x] = cancelGen[c] /\ runKey[x] = id
    <3>1. x \in Runs
      BY <1>5, <2>2 DEF IInv, TypeOKRuns
    <3> QED BY <2>2, <3>1 DEF IInv, EntriesAreInFlight
  <2> HIDE DEF x
  <2>4. \A g \in Generations, j \in RunIds :
          procRunCancels'[<<g, j>>] = IF <<g, j>> = e THEN NoRun ELSE procRunCancels[<<g, j>>]
    BY <2>1 DEF IInv, TypeOKRuns
  <2>5. \A d \in Cancels : target'[d] = IF d = c THEN x ELSE target[d]
    BY <2>1 DEF IInv, TypeOKRuns
  <2>6. \A s \in Runs : (Taken(s) => Taken(s)') /\ (s = x => Taken(s)')
    BY <1>2, <2>5, RunsAssumption DEF Taken
  <2>7. \A d \in Cancels : target[d] # x
    <3>1. x # NoRun /\ procRunCancels[<<cancelGen[c], id>>] = x
      BY <1>5 DEF x
    <3> QED BY <2>2, <3>1 DEF IInv, CancelsTakeOnce
  <2>8. \A g \in Generations, j \in RunIds : procRunCancels'[<<g, j>>] # x
    <3> SUFFICES ASSUME NEW g \in Generations, NEW j \in RunIds, procRunCancels'[<<g, j>>] = x
                 PROVE  FALSE
      OBVIOUS
    <3>1. <<g, j>> # e /\ procRunCancels[<<g, j>>] = x
      BY <2>3, <2>4, RunsAssumption
    <3>2. runGen[x] = g /\ runKey[x] = j
      BY <2>3, <3>1 DEF IInv, EntriesAreInFlight
    <3> QED BY <2>3, <3>1, <3>2
  <2>9. EntriesAreInFlight'
    <3> SUFFICES ASSUME NEW g \in Generations, NEW j \in RunIds, NEW s \in Runs,
                        procRunCancels'[<<g, j>>] = s
                 PROVE  InFlight(s)' /\ runGen'[s] = g /\ runKey'[s] = j
      BY DEF EntriesAreInFlight
    <3>1. procRunCancels[<<g, j>>] = s
      BY <2>4, RunsAssumption
    <3> QED BY <1>1, <1>3, <3>1 DEF IInv, EntriesAreInFlight
  <2>10. CancelsTakeOnce'
    <3>1. \A d \in Cancels : cancelAt'[d] \in Early => d # c /\ cancelAt[d] \in Early
      BY <2>1 DEF IInv, TypeOKRuns, Early
    <3>2. \A d \in Cancels : cancelAt'[d] \in Early => target'[d] = NoRun
      BY <2>5, <3>1 DEF IInv, CancelsTakeOnce, Early
    <3>3. ASSUME NEW d \in Cancels, target'[d] # NoRun
          PROVE  /\ runAt'[target'[d]] \notin {"unused", "arrived"}
                 /\ \A g \in Generations, j \in RunIds : procRunCancels'[<<g, j>>] # target'[d]
      <4>1. CASE d = c
        BY <1>1, <2>3, <2>5, <2>8, <4>1 DEF InFlight
      <4>2. CASE d # c
        <5>1. target'[d] = target[d]
          BY <2>5, <4>2
        <5> QED BY <1>1, <2>4, <3>3, <5>1 DEF IInv, CancelsTakeOnce, Begun
      <4> QED BY <4>1, <4>2
    <3> QED BY <3>2, <3>3 DEF CancelsTakeOnce, Begun, Early
  <2>11. CausesAreTaken'
    BY <1>1, <2>6 DEF IInv, CausesAreTaken
  <2>12. CancelReachesItsRun'
    <3>1. \A s \in Runs : answer'[s] = "canceled" => Taken(s)'
      BY <1>1, <2>6 DEF IInv, CancelReachesItsRun
    <3>2. ASSUME NEW d \in Cancels, target'[d] # NoRun
          PROVE  /\ runGen'[target'[d]] = cancelGen'[d]
                 /\ runKey'[target'[d]] \in {cancelIds'[d][1], cancelIds'[d][2]}
                 /\ \A b \in Cancels : target'[b] = target'[d] => b = d
      <4>1. CASE d = c
        BY <1>1, <2>3, <2>5, <2>7, <4>1
      <4>2. CASE d # c
        <5>1. target'[d] = target[d]
          BY <2>5, <4>2
        <5> QED BY <1>1, <2>5, <2>7, <3>2, <5>1 DEF IInv, CancelReachesItsRun
      <4> QED BY <4>1, <4>2
    <3> QED BY <3>1, <3>2 DEF CancelReachesItsRun
  <2>13. UncancellableOnlyAfterReuse'
    <3> SUFFICES ASSUME NEW s \in Runs, (InFlight(s) /\ runKey[s] # NoId /\ ~Taken(s)
                                         /\ procRunCancels[EntryOf(s)] # s)'
                 PROVE  \E q \in Runs \ {s} :
                           EntryOf(q)' = EntryOf(s)' /\ Taken(q)' /\ runAt'[q] = "answered"
      BY DEF UncancellableOnlyAfterReuse
    <3>1. InFlight(s) /\ runKey[s] # NoId /\ ~Taken(s) /\ s # x
      BY <1>1, <1>3, <2>6
    <3>2. EntryOf(s) \in Generations \X RunIds
      BY <3>1 DEF EntryOf, InFlight, IInv, TypeOKRuns
    <3>3. procRunCancels[EntryOf(s)] # s
      <4>1. PICK g \in Generations, j \in RunIds : EntryOf(s) = <<g, j>>
        BY <3>2
      <4>2. procRunCancels'[<<g, j>>] # s
        BY <1>3, <4>1
      <4>3. <<g, j>> = e => procRunCancels[<<g, j>>] # s
        BY <3>1 DEF x
      <4> QED BY <2>4, <4>1, <4>2, <4>3
    <3>4. PICK q \in Runs \ {s} : EntryOf(q) = EntryOf(s) /\ Taken(q) /\ runAt[q] = "answered"
      BY <3>1, <3>3 DEF IInv, UncancellableOnlyAfterReuse
    <3> QED BY <1>1, <1>3, <2>6, <3>4
  <2> QED BY <2>9, <2>10, <2>11, <2>12, <2>13 DEF IInv
<1> QED BY <1>4, <1>5

-----------------------------------------------------------------------------
(* Results.                                                                *)

\* The invariant holds when the relay starts,
LEMMA InitInv == InitRuns => IInv
<1> SUFFICES ASSUME InitRuns PROVE IInv
  OBVIOUS
<1>1. TypeOKRuns
  BY InitType
<1>2. \A r \in Runs : ~InFlight(r) /\ ~Taken(r) /\ cause[r] = "none" /\ answer[r] = "none"
  BY RunsAssumption DEF InitRuns, InFlight, Taken
<1>3. \A g \in Generations, k \in RunIds : procRunCancels[<<g, k>>] = NoRun
  BY DEF InitRuns
<1>4. \A c \in Cancels : target[c] = NoRun
  BY DEF InitRuns
<1> QED BY <1>1, <1>2, <1>3, <1>4, RunsAssumption
        DEF IInv, EntriesAreInFlight, CancelsTakeOnce, CausesAreTaken, CancelReachesItsRun,
            UncancellableOnlyAfterReuse

\* and every step keeps it.
LEMMA StepInv == IInv /\ [NextRuns]_<<runtimeVars, runVars>> => IInv'
<1> SUFFICES ASSUME IInv, [NextRuns]_<<runtimeVars, runVars>> PROVE IInv'
  OBVIOUS
<1>0. TypeOKRuns
  BY DEF IInv
<1>1. CASE UNCHANGED <<runtimeVars, runVars>>
  <2>1. TypeOKRuns'
    <3>1. TypeOKRuntime'
      BY <1>0, <1>1, RuntimeKept DEF TypeOKRuns
    <3> QED BY <1>0, <1>1, <3>1 DEF TypeOKRuns, runVars
  <2> QED BY <1>0, <1>1, <2>1, OthersAreQuiet, QuietKeeps
<1>2. CASE NextRuns
  <2>1. TypeOKRuns'
    BY <1>0, <1>2, TypePreserved
  <2>2. ASSUME NEW r \in Runs, NEW k \in RunKeys, ArriveRun(r, k) PROVE IInv'
    BY <2>1, <2>2, ArriveKeeps
  <2>3. ASSUME NEW r \in Runs, Remember(r) PROVE IInv'
    BY <2>1, <2>3, RegisterKeeps, RefuseKeeps DEF Remember
  <2>4. ASSUME NEW r \in Runs, Launch(r) \/ TakeResult(r) \/ KillGroup(r) \/ TakeKilled(r)
        PROVE  IInv'
    BY <1>0, <2>1, <2>4, RunMovesAreQuiet, QuietKeeps
  <2>5. ASSUME NEW r \in Runs, Forget(r) PROVE IInv'
    BY <2>1, <2>5, ForgetKeeps
  <2>6. ASSUME NEW c \in Cancels, NEW ids \in CancelRequests, AskCancel(c, ids) PROVE IInv'
    BY <2>1, <2>6, AskKeeps
  <2>7. ASSUME NEW c \in Cancels, TryRunId(c) PROVE IInv'
    <3>1. cancelIds[c][1] \in RunIds \cup {NoId} /\ cancelAt[c] = "by_run"
      BY <1>0, <2>7 DEF TryRunId, TypeOKRuns
    <3> QED BY <2>1, <2>7, <3>1, TakeKeeps DEF TryRunId
  <2>8. ASSUME NEW c \in Cancels, TryRequestId(c) PROVE IInv'
    <3>1. cancelIds[c][2] \in RunIds \cup {NoId} /\ cancelAt[c] = "by_request"
      BY <1>0, <2>8 DEF TryRequestId, TypeOKRuns
    <3> QED BY <2>1, <2>8, <3>1, TakeKeeps DEF TryRequestId
  <2>9. ASSUME \/ \E r \in Runs : Exit(r) \/ HelperEnds(r) \/ Deadline(r)
               \/ \E c \in Cancels : Fire(c)
               \/ \E t \in Resetters : ResetCancelsRuns(t) \/ ResetStep(t)
               \/ StopCancelsRuns
        PROVE  IInv'
    BY <1>0, <2>1, <2>9, OthersAreQuiet, QuietKeeps
  <2> QED BY <1>2, <2>2, <2>3, <2>4, <2>5, <2>6, <2>7, <2>8, <2>9
          DEF NextRuns, RunStep, CancelStep
<1> QED BY <1>1, <1>2

\* So it always holds.
LEMMA SpecInv == SpecRuns => []IInv
<1> QED BY InitInv, StepInv, PTL DEF SpecRuns

\* Runs, cancels, the registry and the runtime they share keep their types: a run
\* has an answer exactly when its handler has returned.
THEOREM RunsTypeCorrect == SpecRuns => []TypeOKRuns
<1>1. IInv => TypeOKRuns
  BY DEF IInv
<1> QED BY <1>1, SpecInv, PTL

\* procRunCancels (websocket.go) names only runs that are in flight, each under
\* its own key and generation, whatever cancels, timeouts, failed starts and
\* resets come between; and a run in flight that no cancel has taken is in it,
\* unless an earlier run of its key was taken and has answered.
THEOREM RegistryOfRunsIsRight == SpecRuns => []RegistryIsRight
<1>1. IInv => RegistryIsRight
  BY DEF IInv, RegistryIsRight
<1> QED BY <1>1, SpecInv, PTL

\* A proc.cancel takes at most one run, under an id it was given and of its own
\* generation; no two take the same; and no run answers "canceled" that was
\* not taken.
THEOREM CancelsReachTheirRuns == SpecRuns => []CancelReachesItsRun
<1>1. IInv => CancelReachesItsRun
  BY DEF IInv
<1> QED BY <1>1, SpecInv, PTL

-----------------------------------------------------------------------------
(* The stdin of processes.                                                 *)

\* A request that a handler has begun has a session.
Asked ==
  \A c \in Asks : askAt[c] # "unused" => askOn[c] \in Procs

\* What is in a pipe came from writes to it that had locked.
Entered ==
  \A p \in Procs : \A i \in 1 .. Len(accepted[p]) :
    /\ askOn[accepted[p][i]] = p
    /\ askAt[accepted[p][i]] \notin {"unused", "to write"}
    /\ procAt[p] # "unused"

\* A write under way is the last that its pipe took from, and no EOF is set.
Holder ==
  \A p \in Procs : stdinMu[p] # Nobody =>
    /\ p \notin stdinEOF
    /\ PlacesOf(stdinMu[p], p) # {} => accepted[p][Len(accepted[p])] = stdinMu[p]

InOnePiece(s) ==
  \A j, k \in 1 .. Len(s) : s[j] = s[k] => \A n \in j .. k : s[n] = s[j]

InPieces == \A p \in Procs : InOnePiece(accepted[p])

AllThere ==
  \A p \in Procs : \A i \in 1 .. Len(accepted[p]) :
    \/ Cardinality(PlacesOf(accepted[p][i], p)) = WriteLen
    \/ stdinMu[p] = accepted[p][i]
    \/ procAt[p] # "alive"

\* The inductive invariant of ProcStdin: who may write next to a pipe, and what
\* every write so far has left in it.
SInv == TypeOKStdin /\ Asked /\ Entered /\ Holder /\ InPieces /\ AllThere

\* More from the request at the end of a pipe leaves all of it in one piece.
LEMMA LongerPiece ==
  ASSUME NEW s \in Seq(Asks), NEW c \in Asks, InOnePiece(s),
         (\E i \in 1 .. Len(s) : s[i] = c) => s[Len(s)] = c
  PROVE  InOnePiece(Append(s, c))
<1> DEFINE t == Append(s, c)
           l == Len(s)
<1>1. /\ l \in Nat /\ Len(t) = l + 1 /\ t[l + 1] = c
      /\ \A i \in 1 .. l : t[i] = s[i]
  OBVIOUS
<1> SUFFICES ASSUME NEW j \in 1 .. Len(t), NEW k \in 1 .. Len(t), t[j] = t[k], NEW n \in j .. k
             PROVE  t[n] = t[j]
  BY DEF InOnePiece
<1> HIDE DEF t
<1>2. CASE k <= l
  <2>1. j \in 1 .. l /\ k \in 1 .. l /\ n \in 1 .. l
    BY <1>1, <1>2
  <2> QED BY <1>1, <2>1 DEF InOnePiece
<1>3. CASE k = l + 1 /\ j <= l /\ n <= l
  <2>1. j \in 1 .. l /\ n \in 1 .. l /\ l \in 1 .. l /\ n \in j .. l
    BY <1>1, <1>3
  <2>2. s[j] = s[l]
    BY <1>1, <1>3, <2>1
  <2> QED BY <1>1, <2>1, <2>2 DEF InOnePiece
<1>4. CASE k = l + 1 /\ (j = l + 1 \/ n = l + 1)
  BY <1>1, <1>4
<1> QED BY <1>1, <1>2, <1>3, <1>4

\* The type of the state, by what it is about.
ProcsTyped ==
  /\ procAt \in [Procs -> {"unused", "alive", "ended", "gone"}]
  /\ procGen \in [Procs -> Generations \cup {0}]
  /\ procMap \subseteq Procs

PipesTyped ==
  /\ stdinEOF \subseteq Procs
  /\ accepted \in [Procs -> Seq(Asks)]
  /\ consumed \in [Procs -> Nat]
  /\ \A p \in Procs : Len(accepted[p]) - consumed[p] \in 0 .. PipeSize

AsksTyped ==
  /\ stdinMu \in [Procs -> Asks \cup {Nobody}]
  /\ askAt \in [Asks -> {"unused", "to write", "writing", "to close", "to kill",
                         "killing", "answered"}]
  /\ askKind \in [Asks -> Kinds]
  /\ askOn \in [Asks -> Procs \cup {NoProc}]
  /\ askReply \in [Asks -> {"none", "ok", "error"}]

\* The write that is under way on a process is the one that holds its stdinMu.
WritersHold ==
  \A c \in Asks, p \in Procs :
    stdinMu[p] = c <=> askAt[c] = "writing" /\ askOn[c] = p

KillsTyped ==
  /\ doomed \in [Resetters -> SUBSET Procs]
  /\ victim \in [Resetters -> Procs \cup {NoProc}]

LEMMA StdinTypes ==
  TypeOKStdin <=>
    TypeOKRuntime /\ ProcsTyped /\ PipesTyped /\ AsksTyped /\ WritersHold /\ KillsTyped
BY DEF TypeOKStdin, ProcsTyped, PipesTyped, AsksTyped, WritersHold, KillsTyped

LEMMA ProcsTypeKept ==
  ASSUME SInv, NextStdin
  PROVE  ProcsTyped'
<1>0. ProcsTyped /\ generation \in Generations
  BY StdinTypes DEF SInv, TypeOKRuntime
<1> USE <1>0 DEF ProcsTyped
<1>1. ASSUME NEW p \in Procs, SpawnProc(p) \/ ReadInput(p) \/ ProcEnds(p) \/ WaitDeletes(p)
      PROVE  ProcsTyped'
  BY <1>1 DEF SpawnProc, ReadInput, ProcEnds, WaitDeletes, Ends, procVars
<1>2. ASSUME NEW c \in Asks, (\E p \in Procs, kind \in Kinds : Ask(c, p, kind)) \/ AskStep(c)
      PROVE  ProcsTyped'
  BY <1>2 DEF Ask, AskStep, LockForWrite, WriteSome, WriteReturns, WriteFails, CloseStdin,
              LockForKill, HardKill, Ends, procVars
<1>3. ASSUME NEW t \in Resetters, SwapProcs(t) \/ KillAllStep(t) PROVE ProcsTyped'
  BY <1>3 DEF SwapProcs, KillAllStep, EmptyMap, NextVictim, CloseVictim, KillVictim,
              EndKillAll, Ends, procVars, stdinVars
<1> QED BY <1>1, <1>2, <1>3 DEF NextStdin

LEMMA PipesTypeKept ==
  ASSUME SInv, NextStdin
  PROVE  PipesTyped'
<1>0. /\ PipesTyped /\ PipeSize \in Nat \ {0} /\ KillsTyped
      /\ \A c \in Asks : askAt[c] # "unused" => askOn[c] \in Procs
  BY StdinTypes, StdinAssumption DEF SInv, Asked
<1>1. CASE UNCHANGED pipeVars
  BY <1>0, <1>1 DEF pipeVars, PipesTyped
<1>2. ASSUME stdinEOF' \subseteq Procs, UNCHANGED <<accepted, consumed>> PROVE PipesTyped'
  BY <1>0, <1>2 DEF PipesTyped
<1>3. ASSUME NEW p \in Procs, ReadInput(p) PROVE PipesTyped'
  <2>1. consumed' \in [Procs -> Nat] /\ UNCHANGED <<accepted, stdinEOF>>
    BY <1>0, <1>3 DEF ReadInput, PipesTyped
  <2>2. ASSUME NEW r \in Procs PROVE Len(accepted[r]) - consumed'[r] \in 0 .. PipeSize
    <3>1. Len(accepted[r]) \in Nat /\ consumed[r] \in Nat
      BY <1>0 DEF PipesTyped
    <3>2. consumed'[r] = IF r = p THEN consumed[r] + 1 ELSE consumed[r]
      BY <1>0, <1>3 DEF ReadInput, PipesTyped
    <3> QED BY <1>0, <1>3, <3>1, <3>2 DEF ReadInput, PipesTyped
  <2> QED BY <1>0, <2>1, <2>2 DEF PipesTyped
<1>4. ASSUME NEW c \in Asks, WriteSome(c) PROVE PipesTyped'
  <2>1. /\ accepted' = [accepted EXCEPT ![askOn[c]] = Append(@, c)]
        /\ ~Full(askOn[c]) /\ askOn[c] \in Procs /\ UNCHANGED <<consumed, stdinEOF>>
    BY <1>0, <1>4 DEF WriteSome
  <2>2. accepted' \in [Procs -> Seq(Asks)]
    BY <1>0, <2>1 DEF PipesTyped
  <2>3. ASSUME NEW r \in Procs PROVE Len(accepted'[r]) - consumed[r] \in 0 .. PipeSize
    <3>1. accepted[r] \in Seq(Asks) /\ Len(accepted[r]) \in Nat /\ consumed[r] \in Nat
          /\ Len(accepted[r]) - consumed[r] \in 0 .. PipeSize
      BY <1>0 DEF PipesTyped
    <3>2. accepted'[r] = IF r = askOn[c] THEN Append(accepted[r], c) ELSE accepted[r]
      BY <1>0, <2>1 DEF PipesTyped
    <3>3. Len(Append(accepted[r], c)) = Len(accepted[r]) + 1
      BY <3>1
    <3>4. r = askOn[c] => Len(accepted[r]) - consumed[r] # PipeSize
      BY <2>1 DEF Full
    <3> QED BY <1>0, <3>1, <3>2, <3>3, <3>4
  <2> QED BY <1>0, <2>1, <2>2, <2>3 DEF PipesTyped
<1>5. ASSUME NEW c \in Asks, CloseStdin(c) \/ LockForKill(c) PROVE PipesTyped'
  <2>0. stdinEOF \subseteq Procs /\ askOn[c] \in Procs
    BY <1>0, <1>5 DEF CloseStdin, LockForKill, PipesTyped
  <2>1. stdinEOF' \subseteq Procs /\ UNCHANGED <<accepted, consumed>>
    BY <1>5, <2>0 DEF CloseStdin, LockForKill, KillCloses
  <2> QED BY <1>2, <2>1
<1>6. ASSUME NEW t \in Resetters, CloseVictim(t) PROVE PipesTyped'
  <2>0. stdinEOF \subseteq Procs /\ victim[t] \in Procs
    BY <1>0, <1>6 DEF CloseVictim, PipesTyped, KillsTyped
  <2>1. stdinEOF' \subseteq Procs /\ UNCHANGED <<accepted, consumed>>
    BY <1>6, <2>0 DEF CloseVictim, KillCloses
  <2> QED BY <1>2, <2>1
<1>7. ASSUME NEW t \in Resetters, SwapProcs(t) \/ EndKillAll(t) PROVE UNCHANGED pipeVars
  BY <1>7 DEF SwapProcs, EndKillAll, stdinVars, pipeVars
<1> QED BY <1>1, <1>3, <1>4, <1>5, <1>6, <1>7
        DEF NextStdin, SpawnProc, ProcEnds, WaitDeletes, Ask, AskStep, LockForWrite,
            WriteReturns, WriteFails, HardKill, KillAllStep, EmptyMap, NextVictim, KillVictim

\* The steps of a request, as moves of it and of stdinMu.
Moves(c, a, r) ==
  /\ askAt' = [askAt EXCEPT ![c] = a]
  /\ askReply' = [askReply EXCEPT ![c] = r]
  /\ UNCHANGED <<askKind, askOn>>

LEMMA AskMoves ==
  ASSUME SInv, NEW c \in Asks, AskStep(c)
  PROVE  \/ UNCHANGED <<askVars, stdinMu>>
         \/ /\ askAt[c] = "to write" /\ Free(askOn[c]) /\ Moves(c, "writing", askReply[c])
            /\ stdinMu' = [stdinMu EXCEPT ![askOn[c]] = c] /\ askOn[c] \notin stdinEOF
         \/ /\ askAt[c] = "writing" /\ stdinMu' = [stdinMu EXCEPT ![askOn[c]] = Nobody]
            /\ TakenOf(c) = WriteLen \/ procAt[askOn[c]] # "alive"
            /\ \E a \in {"answered", "to close"}, r \in {"none", "ok", "error"} : Moves(c, a, r)
         \/ /\ askAt[c] \in {"to write", "to close", "to kill", "killing"} /\ UNCHANGED stdinMu
            /\ \E a \in {"answered", "killing"}, r \in {"none", "ok", "error"} : Moves(c, a, r)
<1>0. /\ askReply \in [Asks -> {"none", "ok", "error"}]
      /\ askReply = [askReply EXCEPT ![c] = askReply[c]]
  BY StdinTypes DEF SInv, AsksTyped
<1>1. CASE LockForWrite(c)
  BY <1>0, <1>1 DEF LockForWrite, Answer, Moves
<1>2. CASE WriteReturns(c) \/ WriteFails(c)
  BY <1>0, <1>2 DEF WriteReturns, WriteFails, Answer, Moves
<1>3. CASE CloseStdin(c) \/ LockForKill(c) \/ HardKill(c)
  BY <1>0, <1>3 DEF CloseStdin, LockForKill, HardKill, Answer, Moves
<1> QED BY <1>1, <1>2, <1>3 DEF AskStep, WriteSome

LEMMA AsksTypeKept ==
  ASSUME SInv, NextStdin
  PROVE  AsksTyped' /\ WritersHold' /\ Asked'
<1> DEFINE Kept == AsksTyped' /\ WritersHold' /\ Asked'
<1>0. AsksTyped /\ WritersHold /\ Asked /\ Nobody \notin Asks /\ NoProc \notin Procs
  BY StdinTypes, StdinAssumption DEF SInv
<1>1. CASE UNCHANGED <<askVars, stdinMu>>
  BY <1>0, <1>1 DEF AsksTyped, WritersHold, Asked, askVars
<1>2. ASSUME NEW c \in Asks, NEW p \in Procs, NEW kind \in Kinds, Ask(c, p, kind)
      PROVE  Kept
  <2>1. FirstStep(kind) \in {"to write", "to close", "to kill"}
    BY DEF FirstStep, Kinds
  <2>2. /\ askAt' = [askAt EXCEPT ![c] = FirstStep(kind)] /\ askAt[c] = "unused"
        /\ askKind' = [askKind EXCEPT ![c] = kind]
        /\ askOn' = [askOn EXCEPT ![c] = p] /\ UNCHANGED <<stdinMu, askReply>>
    BY <1>2 DEF Ask
  <2>3. AsksTyped'
    BY <1>0, <2>1, <2>2 DEF AsksTyped
  <2>4. \A d \in Asks : /\ askAt'[d] = IF d = c THEN FirstStep(kind) ELSE askAt[d]
                        /\ askOn'[d] = IF d = c THEN p ELSE askOn[d]
    BY <1>0, <2>2 DEF AsksTyped
  <2>5. Asked'
    BY <1>0, <2>4 DEF Asked
  <2>6. ASSUME NEW d \in Asks, NEW q \in Procs
        PROVE  stdinMu'[q] = d <=> askAt'[d] = "writing" /\ askOn'[d] = q
    <3>1. CASE d = c
      <4>1. askAt[c] # "writing" /\ askAt'[c] # "writing"
        BY <2>1, <2>2, <2>4
      <4> QED BY <1>0, <2>2, <3>1, <4>1 DEF WritersHold
    <3>2. CASE d # c
      BY <1>0, <2>2, <2>4, <3>2 DEF WritersHold
    <3> QED BY <3>1, <3>2
  <2> QED BY <2>3, <2>5, <2>6 DEF WritersHold
<1>3. ASSUME NEW c \in Asks, NEW a \in {"writing", "to close", "killing", "answered"},
             NEW r \in {"none", "ok", "error"}, Moves(c, a, r), askAt[c] # "unused",
             NEW h \in Asks \cup {Nobody}, stdinMu' = [stdinMu EXCEPT ![askOn[c]] = h],
             a = "writing" => h = c /\ Free(askOn[c]) /\ askAt[c] # "writing",
             a # "writing" => h = IF askAt[c] = "writing" THEN Nobody ELSE stdinMu[askOn[c]]
      PROVE  Kept
  <2>1. \A d \in Asks : askAt'[d] = IF d = c THEN a ELSE askAt[d]
    BY <1>0, <1>3 DEF Moves, AsksTyped
  <2>2. AsksTyped'
    BY <1>0, <1>3 DEF Moves, AsksTyped
  <2>3. UNCHANGED askOn
    BY <1>3 DEF Moves
  <2>4. Asked'
    BY <1>0, <1>3, <2>1, <2>3 DEF Asked
  <2>5. askOn[c] \in Procs
    BY <1>0, <1>3 DEF Asked
  <2>6. \A p \in Procs : stdinMu'[p] = IF p = askOn[c] THEN h ELSE stdinMu[p]
    BY <1>0, <1>3 DEF AsksTyped
  <2>7. ASSUME NEW d \in Asks, NEW p \in Procs
        PROVE  stdinMu'[p] = d <=> askAt'[d] = "writing" /\ askOn[d] = p
    <3>1. CASE a = "writing"
      BY <1>0, <1>3, <2>1, <2>5, <2>6, <3>1 DEF WritersHold, Free
    <3>2. CASE a # "writing" /\ askAt[c] = "writing"
      <4>1. h = Nobody /\ stdinMu[askOn[c]] = c
        BY <1>0, <1>3, <2>5, <3>2 DEF WritersHold
      <4>2. stdinMu[p] = d <=> askAt[d] = "writing" /\ askOn[d] = p
        BY <1>0 DEF WritersHold
      <4> QED BY <1>0, <2>1, <2>5, <2>6, <3>2, <4>1, <4>2
    <3>3. CASE a # "writing" /\ askAt[c] # "writing"
      <4>1. stdinMu'[p] = stdinMu[p]
        BY <1>3, <2>6, <3>3
      <4>2. stdinMu[p] = d <=> askAt[d] = "writing" /\ askOn[d] = p
        BY <1>0 DEF WritersHold
      <4> QED BY <2>1, <3>3, <4>1, <4>2
    <3> QED BY <3>1, <3>2, <3>3
  <2> QED BY <2>2, <2>3, <2>4, <2>7 DEF WritersHold
<1>4. ASSUME NEW c \in Asks, AskStep(c) PROVE Kept
  <2>1. CASE /\ askAt[c] = "to write" /\ Free(askOn[c]) /\ Moves(c, "writing", askReply[c])
             /\ stdinMu' = [stdinMu EXCEPT ![askOn[c]] = c]
    <3>1. askReply[c] \in {"none", "ok", "error"}
      BY <1>0 DEF AsksTyped
    <3> QED BY <1>3, <2>1, <3>1
  <2>2. ASSUME NEW a \in {"answered", "to close"}, NEW r \in {"none", "ok", "error"},
               Moves(c, a, r), askAt[c] = "writing",
               stdinMu' = [stdinMu EXCEPT ![askOn[c]] = Nobody]
        PROVE  Kept
    BY <1>3, <2>2
  <2>3. ASSUME NEW a \in {"answered", "killing"}, NEW r \in {"none", "ok", "error"},
               Moves(c, a, r), askAt[c] \in {"to write", "to close", "to kill", "killing"},
               UNCHANGED stdinMu
        PROVE  Kept
    <3>1. askOn[c] \in Procs
      BY <1>0, <2>3 DEF Asked
    <3>2. /\ stdinMu[askOn[c]] \in Asks \cup {Nobody}
          /\ stdinMu' = [stdinMu EXCEPT ![askOn[c]] = stdinMu[askOn[c]]]
      BY <1>0, <2>3, <3>1 DEF AsksTyped
    <3> QED BY <1>3, <2>3, <3>2
  <2> QED BY <1>1, <1>4, <2>1, <2>2, <2>3, AskMoves
<1> QED BY <1>1, <1>2, <1>4
        DEF NextStdin, SpawnProc, ReadInput, ProcEnds, WaitDeletes, SwapProcs, KillAllStep,
            EmptyMap, NextVictim, CloseVictim, KillVictim, EndKillAll, stdinVars, askVars

LEMMA KillsTypeKept ==
  ASSUME SInv, NextStdin
  PROVE  KillsTyped'
<1>0. KillsTyped /\ procMap \subseteq Procs
  BY StdinTypes DEF SInv, ProcsTyped
<1>1. CASE UNCHANGED killAllVars
  BY <1>0, <1>1 DEF KillsTyped, killAllVars
<1>2. ASSUME NEW t \in Resetters, EmptyMap(t) PROVE KillsTyped'
  BY <1>0, <1>2 DEF EmptyMap, KillsTyped
<1>3. ASSUME NEW t \in Resetters, NEW p \in Procs, NextVictim(t, p) PROVE KillsTyped'
  BY <1>0, <1>3 DEF NextVictim, KillsTyped
<1>4. ASSUME NEW t \in Resetters, CloseVictim(t) \/ KillVictim(t) PROVE KillsTyped'
  BY <1>0, <1>4 DEF CloseVictim, KillVictim, KillsTyped
<1>5. ASSUME NEW t \in Resetters, SwapProcs(t) \/ EndKillAll(t) PROVE UNCHANGED killAllVars
  BY <1>5 DEF SwapProcs, EndKillAll, stdinVars, killAllVars
<1> QED BY <1>1, <1>2, <1>3, <1>4, <1>5
        DEF NextStdin, SpawnProc, ReadInput, ProcEnds, WaitDeletes, Ask, AskStep, LockForWrite,
            WriteSome, WriteReturns, WriteFails, CloseStdin, LockForKill, HardKill, KillAllStep

LEMMA StdinRuntimeKept ==
  ASSUME SInv, NextStdin
  PROVE  TypeOKRuntime'
<1>0. TypeOKRuntime
  BY StdinTypes DEF SInv
<1>1. ASSUME NEW t \in Resetters, SwapProcs(t) \/ EmptyMap(t) \/ EndKillAll(t)
      PROVE  TypeOKRuntime'
  BY <1>0, <1>1, RuntimeSteps DEF SwapProcs, EmptyMap, EndKillAll
<1> QED BY <1>0, <1>1, RuntimeKept
        DEF NextStdin, SpawnProc, ReadInput, ProcEnds, WaitDeletes, Ask, AskStep, LockForWrite,
            WriteSome, WriteReturns, WriteFails, CloseStdin, LockForKill, HardKill,
            KillAllStep, NextVictim, CloseVictim, KillVictim

-----------------------------------------------------------------------------
(* What is in the pipes.                                                   *)

\* A step that puts nothing into a pipe, and lets go of stdinMu only when the
\* write is over or nobody reads any more.
KeepsPipes ==
  /\ UNCHANGED accepted
  /\ \A p \in Procs : (procAt[p] # "unused" => procAt'[p] # "unused")
                      /\ (procAt[p] \notin {"unused", "alive"} => procAt'[p] # "alive")
  /\ \A c \in Asks : askAt[c] \notin {"unused", "to write"} =>
       askOn'[c] = askOn[c] /\ askAt'[c] \notin {"unused", "to write"}
  /\ \A p \in Procs : stdinMu'[p] = stdinMu[p]
       \/ /\ stdinMu'[p] = Nobody
          /\ \/ Cardinality(PlacesOf(stdinMu[p], p)) = WriteLen
             \/ procAt[p] # "alive"
       \/ /\ stdinMu[p] = Nobody
          /\ stdinMu'[p] \in Asks /\ p \notin stdinEOF
          /\ askAt[stdinMu'[p]] = "to write"
  /\ \A p \in stdinEOF' : p \in stdinEOF \/ stdinMu[p] = Nobody
  /\ UNCHANGED stdinMu \/ UNCHANGED stdinEOF

LEMMA PipesKept ==
  ASSUME SInv, KeepsPipes
  PROVE  Entered' /\ Holder' /\ InPieces' /\ AllThere'
<1>0. /\ Entered /\ Holder /\ InPieces /\ AllThere /\ Nobody \notin Asks
      /\ accepted \in [Procs -> Seq(Asks)] /\ stdinMu \in [Procs -> Asks \cup {Nobody}]
  BY StdinTypes, StdinAssumption DEF SInv, PipesTyped, AsksTyped
<1>6. ASSUME NEW p \in Procs, NEW i \in 1 .. Len(accepted[p]) PROVE accepted[p][i] \in Asks
  <2>1. accepted[p] \in Seq(Asks)
    BY <1>0
  <2> QED BY <2>1
<1>1. Entered'
  BY <1>0, <1>6 DEF KeepsPipes, Entered
<1>2. InPieces'
  BY <1>0 DEF KeepsPipes, InPieces
<1>3. \A c, p : PlacesOf(c, p)' = PlacesOf(c, p)
  BY DEF KeepsPipes, PlacesOf
<1>4. Holder'
  <2>1. ASSUME NEW p \in Procs, stdinMu'[p] # Nobody
        PROVE  /\ p \notin stdinEOF'
               /\ PlacesOf(stdinMu'[p], p) # {} => accepted[p][Len(accepted[p])] = stdinMu'[p]
    <3>1. CASE stdinMu'[p] = stdinMu[p]
      BY <1>0, <2>1, <3>1 DEF KeepsPipes, Holder
    <3>2. CASE stdinMu[p] = Nobody
      <4>1. /\ stdinMu'[p] \in Asks /\ p \notin stdinEOF /\ UNCHANGED stdinEOF
            /\ askAt[stdinMu'[p]] = "to write"
        BY <2>1, <3>2 DEF KeepsPipes
      <4>2. \A i \in 1 .. Len(accepted[p]) : accepted[p][i] # stdinMu'[p]
        <5> SUFFICES ASSUME NEW i \in 1 .. Len(accepted[p]), NEW d, d = accepted[p][i],
                            d = stdinMu'[p]
                     PROVE  FALSE
          OBVIOUS
        <5>1. askAt[accepted[p][i]] # "to write"
          BY <1>0 DEF Entered
        <5> QED BY <4>1, <5>1
      <4>3. PlacesOf(stdinMu'[p], p) = {}
        BY <4>2 DEF PlacesOf
      <4> QED BY <4>1, <4>3
    <3> QED BY <2>1, <3>1, <3>2 DEF KeepsPipes
  <2>2. UNCHANGED accepted
    BY DEF KeepsPipes
  <2> QED BY <1>3, <2>1, <2>2 DEF Holder
<1>5. AllThere'
  <2>1. ASSUME NEW p \in Procs, NEW i \in 1 .. Len(accepted[p])
        PROVE  \/ Cardinality(PlacesOf(accepted[p][i], p)) = WriteLen
               \/ stdinMu'[p] = accepted[p][i]
               \/ procAt'[p] # "alive"
    <3>1. procAt[p] # "unused" /\ accepted[p][i] \in Asks
      BY <1>0, <1>6 DEF Entered
    <3>2. procAt[p] # "alive" => procAt'[p] # "alive"
      BY <3>1 DEF KeepsPipes
    <3>3. stdinMu[p] = accepted[p][i] =>
            \/ stdinMu'[p] = accepted[p][i]
            \/ Cardinality(PlacesOf(accepted[p][i], p)) = WriteLen
            \/ procAt[p] # "alive"
      BY <1>0, <3>1 DEF KeepsPipes
    <3> QED BY <1>0, <3>2, <3>3 DEF AllThere
  <2>2. UNCHANGED accepted
    BY DEF KeepsPipes
  <2> QED BY <1>3, <2>1, <2>2 DEF AllThere
<1> QED BY <1>1, <1>2, <1>4, <1>5

\* The pipe takes in more of the write that holds its stdinMu.
LEMMA WriteSomeKeeps ==
  ASSUME SInv, NEW c \in Asks, WriteSome(c)
  PROVE  Entered' /\ Holder' /\ InPieces' /\ AllThere'
<1> DEFINE p == askOn[c]
           s == accepted[p]
<1>0. /\ Entered /\ Holder /\ InPieces /\ AllThere /\ Nobody \notin Asks
      /\ accepted \in [Procs -> Seq(Asks)]
  BY StdinTypes, StdinAssumption DEF SInv, PipesTyped
<1>1. /\ askAt[c] = "writing" /\ p \in Procs /\ procAt[p] = "alive"
      /\ accepted' = [accepted EXCEPT ![p] = Append(s, c)]
      /\ UNCHANGED <<procAt, stdinMu, stdinEOF, askAt, askOn>>
  BY DEF WriteSome, SInv, Asked, procVars, askVars
<1>2. stdinMu[p] = c
  BY <1>1, StdinTypes DEF SInv, WritersHold
<1>3. /\ s \in Seq(Asks) /\ Len(s) \in Nat /\ Len(Append(s, c)) = Len(s) + 1
      /\ Append(s, c)[Len(s) + 1] = c
      /\ \A i \in 1 .. Len(s) : Append(s, c)[i] = s[i]
  BY <1>0, <1>1
<1>4. \A r \in Procs : accepted'[r] = IF r = p THEN Append(s, c) ELSE accepted[r]
  BY <1>0, <1>1
<1> HIDE DEF p, s
<1>5. \A i \in 1 .. Len(s) + 1 : i \in 1 .. Len(s) \/ i = Len(s) + 1
  BY <1>3
<1>6. s = accepted[p] /\ p = askOn[c]
  BY DEF s, p
<1>7. ASSUME NEW r \in Procs, NEW i \in 1 .. Len(accepted'[r])
      PROVE  \/ i \in 1 .. Len(accepted[r]) /\ accepted'[r][i] = accepted[r][i]
             \/ r = p /\ accepted'[r][i] = c
  BY <1>3, <1>4, <1>5, <1>6
<1>8. Entered'
  <2>1. ASSUME NEW r \in Procs, NEW i \in 1 .. Len(accepted'[r]), NEW d, d = accepted'[r][i]
        PROVE  askOn[d] = r /\ askAt[d] \notin {"unused", "to write"} /\ procAt[r] # "unused"
    <3>1. CASE r = p /\ d = c
      BY <1>1, <1>6, <3>1
    <3>2. CASE i \in 1 .. Len(accepted[r]) /\ d = accepted[r][i]
      BY <1>0, <3>2 DEF Entered
    <3> QED BY <1>7, <2>1, <3>1, <3>2
  <2> QED BY <1>1, <2>1 DEF Entered
<1>9. Holder'
  BY <1>0, <1>1, <1>2, <1>3, <1>4 DEF Holder, PlacesOf
<1>10. InPieces'
  <2>1. (\E i \in 1 .. Len(s) : s[i] = c) => s[Len(s)] = c
    BY <1>0, <1>1, <1>2, <1>6 DEF Holder, PlacesOf
  <2>2. InOnePiece(Append(s, c))
    BY <1>0, <1>1, <1>3, <1>6, <2>1, LongerPiece DEF InPieces
  <2> QED BY <1>0, <1>4, <2>2 DEF InPieces
<1>11. AllThere'
  <2>1. ASSUME NEW r \in Procs, NEW d, d # c \/ r # p
        PROVE  PlacesOf(d, r)' = PlacesOf(d, r)
    <3>1. CASE r # p
      BY <1>4, <3>1 DEF PlacesOf
    <3>2. CASE r = p
      <4>1. accepted'[r] = Append(s, c) /\ accepted[r] = s /\ d # c
        BY <1>4, <1>6, <2>1, <3>2
      <4>2. \A i : i \in 1 .. Len(s) => i \in 1 .. Len(s) + 1
        BY <1>3
      <4>3. {i \in 1 .. Len(s) + 1 : Append(s, c)[i] = d} = {i \in 1 .. Len(s) : s[i] = d}
        BY <1>3, <1>5, <4>1, <4>2
      <4> QED BY <1>3, <4>1, <4>3 DEF PlacesOf
    <3> QED BY <3>1, <3>2
  <2>2. ASSUME NEW r \in Procs, NEW i \in 1 .. Len(accepted'[r]), NEW d, d = accepted'[r][i]
        PROVE  \/ Cardinality(PlacesOf(d, r)') = WriteLen
               \/ stdinMu'[r] = d
               \/ procAt'[r] # "alive"
    <3>1. CASE r = p /\ d = c
      BY <1>1, <1>2, <1>6, <3>1
    <3>2. CASE d # c \/ r # p
      <4>1. i \in 1 .. Len(accepted[r]) /\ d = accepted[r][i]
        BY <1>7, <2>2, <3>2
      <4>2. \/ Cardinality(PlacesOf(d, r)) = WriteLen
            \/ stdinMu[r] = d
            \/ procAt[r] # "alive"
        BY <1>0, <4>1 DEF AllThere
      <4> QED BY <1>1, <2>1, <3>2, <4>2
    <3> QED BY <3>1, <3>2
  <2> QED BY <2>2 DEF AllThere
<1> QED BY <1>8, <1>9, <1>10, <1>11

LEMMA StepKeepsPipes ==
  ASSUME SInv, NextStdin, ~\E c \in Asks : WriteSome(c)
  PROVE  KeepsPipes
<1>0. /\ Holder /\ Asked /\ ProcsTyped /\ AsksTyped /\ WritersHold /\ Nobody \notin Asks
  BY StdinTypes, StdinAssumption DEF SInv
<1>1. ASSUME UNCHANGED <<accepted, stdinMu>>,
             procAt' = procAt \/ \E p \in Procs :
               \/ procAt' = [procAt EXCEPT ![p] = "alive"] /\ procAt[p] = "unused"
               \/ procAt' = [procAt EXCEPT ![p] = IF @ = "alive" THEN "ended" ELSE @]
               \/ procAt' = [procAt EXCEPT ![p] = "gone"],
             \A c \in Asks : askAt[c] \notin {"unused", "to write"} =>
               askOn'[c] = askOn[c] /\ askAt'[c] \notin {"unused", "to write"},
             \A p \in stdinEOF' : p \in stdinEOF \/ stdinMu[p] = Nobody
      PROVE  KeepsPipes
  <2>1. \A p \in Procs : /\ procAt[p] # "unused" => procAt'[p] # "unused"
                         /\ procAt[p] \notin {"unused", "alive"} => procAt'[p] # "alive"
    BY <1>0, <1>1 DEF ProcsTyped
  <2> QED BY <1>1, <2>1 DEF KeepsPipes
<1>2. ASSUME NEW p \in Procs, SpawnProc(p) \/ ReadInput(p) \/ ProcEnds(p) \/ WaitDeletes(p)
      PROVE  KeepsPipes
  BY <1>1, <1>2 DEF SpawnProc, ReadInput, ProcEnds, WaitDeletes, Ends, procVars, pipeVars, askVars
<1>3. ASSUME NEW c \in Asks, NEW p \in Procs, NEW kind \in Kinds, Ask(c, p, kind)
      PROVE  KeepsPipes
  <2>1. /\ askAt' = [askAt EXCEPT ![c] = FirstStep(kind)] /\ askAt[c] = "unused"
        /\ askOn' = [askOn EXCEPT ![c] = p] /\ UNCHANGED <<procAt, stdinMu, stdinEOF, accepted>>
    BY <1>3 DEF Ask, procVars, pipeVars
  <2>2. \A d \in Asks \ {c} : askAt'[d] = askAt[d] /\ askOn'[d] = askOn[d]
    BY <1>0, <2>1 DEF AsksTyped
  <2> QED BY <1>1, <2>1, <2>2
<1>4. ASSUME NEW t \in Resetters, SwapProcs(t) \/ KillAllStep(t) PROVE KeepsPipes
  <2>1. CASE SwapProcs(t) \/ EndKillAll(t) \/ EmptyMap(t) \/ \E p \in Procs : NextVictim(t, p)
    BY <1>1, <2>1 DEF SwapProcs, EndKillAll, EmptyMap, NextVictim, stdinVars, procVars,
                      pipeVars, askVars
  <2>2. CASE CloseVictim(t)
    BY <1>1, <2>2 DEF CloseVictim, KillCloses, Free, procVars, askVars
  <2>3. CASE KillVictim(t)
    <3>1. victim[t] \in Procs
      BY <2>3, StdinTypes DEF SInv, KillVictim, KillsTyped
    <3> QED BY <1>1, <2>3, <3>1 DEF KillVictim, Ends, pipeVars, askVars
  <2> QED BY <1>4, <2>1, <2>2, <2>3 DEF KillAllStep
<1>5. ASSUME NEW c \in Asks, AskStep(c) PROVE KeepsPipes
  <2>1. ASSUME NEW a \in {"writing", "to close", "killing", "answered"}, NEW r, Moves(c, a, r)
        PROVE  \A d \in Asks : askAt[d] \notin {"unused", "to write"} =>
                 askOn'[d] = askOn[d] /\ askAt'[d] \notin {"unused", "to write"}
    <3>1. \A d \in Asks : askAt'[d] = IF d = c THEN a ELSE askAt[d]
      BY <1>0, <2>1 DEF Moves, AsksTyped
    <3> QED BY <2>1, <3>1 DEF Moves
  <2>2. \A d \in Asks : askAt[d] \notin {"unused", "to write"} =>
          askOn'[d] = askOn[d] /\ askAt'[d] \notin {"unused", "to write"}
    BY <1>0, <1>5, <2>1, AskMoves DEF askVars
  <2>3. CASE CloseStdin(c) \/ LockForKill(c) \/ HardKill(c)
    <3>1. askOn[c] \in Procs
      BY <1>0, <2>3 DEF CloseStdin, LockForKill, HardKill, Asked
    <3> QED BY <1>1, <2>2, <2>3, <3>1
            DEF CloseStdin, LockForKill, HardKill, KillCloses, Free, Ends, procVars, pipeVars
  <2>4. CASE LockForWrite(c) \/ WriteReturns(c) \/ WriteFails(c)
    <3>1. UNCHANGED <<accepted, stdinEOF, procAt>>
      BY <2>4 DEF LockForWrite, WriteReturns, WriteFails, procVars, pipeVars
    <3>2. askOn[c] \in Procs
      BY <1>0, <2>4 DEF LockForWrite, WriteReturns, WriteFails, Asked
    <3>3. ASSUME NEW h, stdinMu' = [stdinMu EXCEPT ![askOn[c]] = h]
          PROVE  \A p \in Procs : stdinMu'[p] = IF p = askOn[c] THEN h ELSE stdinMu[p]
      BY <1>0, <3>3 DEF AsksTyped
    <3>4. CASE UNCHANGED stdinMu
      BY <1>1, <2>2, <3>1, <3>4
    <3>5. CASE askAt[c] = "to write" /\ Free(askOn[c]) /\ askOn[c] \notin stdinEOF
               /\ stdinMu' = [stdinMu EXCEPT ![askOn[c]] = c]
      <4>1. /\ stdinMu[askOn[c]] = Nobody
            /\ \A p \in Procs : stdinMu'[p] = IF p = askOn[c] THEN c ELSE stdinMu[p]
        BY <3>3, <3>5 DEF Free
      <4> QED BY <2>2, <3>1, <3>5, <4>1 DEF KeepsPipes
    <3>6. CASE /\ askAt[c] = "writing" /\ stdinMu' = [stdinMu EXCEPT ![askOn[c]] = Nobody]
               /\ TakenOf(c) = WriteLen \/ procAt[askOn[c]] # "alive"
      <4>1. stdinMu[askOn[c]] = c
        BY <1>0, <3>2, <3>6 DEF WritersHold
      <4>2. \A p \in Procs : stdinMu'[p] = IF p = askOn[c] THEN Nobody ELSE stdinMu[p]
        BY <3>3, <3>6
      <4>3. \/ Cardinality(PlacesOf(stdinMu[askOn[c]], askOn[c])) = WriteLen
            \/ procAt[askOn[c]] # "alive"
        BY <3>6, <4>1 DEF TakenOf
      <4> QED BY <2>2, <3>1, <4>2, <4>3 DEF KeepsPipes
    <3> QED BY <1>5, <3>4, <3>5, <3>6, AskMoves
  <2> QED BY <1>5, <2>3, <2>4 DEF AskStep
<1> QED BY <1>2, <1>3, <1>4, <1>5 DEF NextStdin

LEMMA StdinInit == InitStdin => SInv
<1> SUFFICES ASSUME InitStdin PROVE SInv
  OBVIOUS
<1>1. TypeOKRuntime
  BY RuntimeInit DEF InitStdin
<1>2. ProcsTyped /\ KillsTyped
  BY DEF InitStdin, ProcsTyped, KillsTyped
<1>3. PipesTyped
  BY StdinAssumption DEF InitStdin, PipesTyped
<1>4. AsksTyped /\ WritersHold /\ Asked
  BY StdinAssumption DEF InitStdin, AsksTyped, WritersHold, Asked, Kinds
<1>5. \A p \in Procs : accepted[p] = <<>> /\ 1 .. Len(accepted[p]) = {} /\ stdinMu[p] = Nobody
  BY DEF InitStdin
<1>6. Entered /\ Holder /\ InPieces /\ AllThere
  BY <1>5 DEF Entered, Holder, InPieces, InOnePiece, AllThere
<1> QED BY <1>1, <1>2, <1>3, <1>4, <1>6, StdinTypes DEF SInv

LEMMA StdinStep == SInv /\ [NextStdin]_<<runtimeVars, stdinVars>> => SInv'
<1> SUFFICES ASSUME SInv, [NextStdin]_<<runtimeVars, stdinVars>> PROVE SInv'
  OBVIOUS
<1>1. CASE NextStdin
  <2>1. TypeOKStdin' /\ Asked'
    <3>1. /\ TypeOKRuntime' /\ ProcsTyped' /\ PipesTyped' /\ AsksTyped' /\ WritersHold'
          /\ KillsTyped' /\ Asked'
      BY <1>1, StdinRuntimeKept, ProcsTypeKept, PipesTypeKept, AsksTypeKept, KillsTypeKept
    <3> QED BY <3>1 DEF TypeOKStdin, ProcsTyped, PipesTyped, AsksTyped, WritersHold, KillsTyped
  <2>2. Entered' /\ Holder' /\ InPieces' /\ AllThere'
    BY <1>1, StepKeepsPipes, PipesKept, WriteSomeKeeps
  <2> QED BY <2>1, <2>2 DEF SInv
<1>2. CASE UNCHANGED <<runtimeVars, stdinVars>>
  <2>1. TypeOKRuntime'
    BY <1>2, RuntimeKept, StdinTypes DEF SInv
  <2>2. UNCHANGED <<procAt, procGen, procMap, stdinMu, stdinEOF, accepted, consumed,
                    askAt, askKind, askOn, askReply, doomed, victim>>
    BY <1>2 DEF stdinVars
  <2>3. TypeOKStdin'
    BY <2>1, <2>2 DEF SInv, TypeOKStdin
  <2>4. \A c, p : PlacesOf(c, p)' = PlacesOf(c, p)
    BY <2>2 DEF PlacesOf
  <2>5. Asked' /\ Entered' /\ InPieces'
    BY <2>2 DEF SInv, Asked, Entered, InPieces
  <2>6. Holder' /\ AllThere'
    BY <2>2, <2>4 DEF SInv, Holder, AllThere
  <2> QED BY <2>3, <2>5, <2>6 DEF SInv
<1> QED BY <1>1, <1>2

LEMMA StdinInvariance == SpecStdin => []SInv
BY StdinInit, StdinStep, PTL DEF SpecStdin

\* The requests to stdin keep their types: the write under way on a process is
\* the one that holds its stdinMu, and no pipe takes more than it holds.
THEOREM StdinTypeCorrect == SpecStdin => []TypeOKStdin
<1>1. SInv => TypeOKStdin
  BY DEF SInv
<1> QED BY <1>1, StdinInvariance, PTL

\* The data of a proc.stdin reaches its process in one piece and whole, or the
\* process is dead, or the write goes on and no EOF is in its way (WriteStdin
\* of proc.go).
THEOREM StdinWritesAreWhole == SpecStdin => []WritesAreWhole
<1>1. ASSUME SInv PROVE WritesAreWhole
  <2> SUFFICES ASSUME NEW p \in Procs, NEW i \in 1 .. Len(accepted[p]), NEW c, c = accepted[p][i]
               PROVE  /\ \A j, k \in PlacesOf(c, p) : \A n \in j .. k : n \in PlacesOf(c, p)
                      /\ \/ Cardinality(PlacesOf(c, p)) = WriteLen
                         \/ stdinMu[p] = c /\ p \notin stdinEOF
                         \/ procAt[p] # "alive"
    BY DEF WritesAreWhole
  <2>1. ASSUME NEW j \in PlacesOf(c, p), NEW k \in PlacesOf(c, p), NEW n \in j .. k
        PROVE  n \in PlacesOf(c, p)
    <3>1. /\ j \in 1 .. Len(accepted[p]) /\ k \in 1 .. Len(accepted[p])
          /\ accepted[p][j] = c /\ accepted[p][k] = c
      BY DEF PlacesOf
    <3>2. accepted[p][n] = c
      BY <1>1, <3>1 DEF SInv, InPieces, InOnePiece
    <3>3. Len(accepted[p]) \in Nat
      BY <1>1, StdinTypes DEF SInv, PipesTyped
    <3> QED BY <3>1, <3>2, <3>3 DEF PlacesOf
  <2>2. c \in Asks /\ Nobody \notin Asks
    BY <1>1, StdinTypes, StdinAssumption DEF SInv, PipesTyped
  <2>3. \/ Cardinality(PlacesOf(c, p)) = WriteLen
        \/ stdinMu[p] = c /\ p \notin stdinEOF
        \/ procAt[p] # "alive"
    BY <1>1, <2>2 DEF SInv, AllThere, Holder
  <2> QED BY <2>1, <2>3
<1> QED BY <1>1, StdinInvariance, PTL

\* A stdin that CloseStdin, Kill or KillAll has closed stays closed, and takes
\* in nothing more.
EofIsFinal ==
  [][\A p \in stdinEOF :
       p \in stdinEOF' /\ accepted'[p] = accepted[p]]_<<runtimeVars, stdinVars>>

\* A write looks at stdinEOF under stdinMu and keeps it until it returns, and
\* whoever closes waits for it: no data reaches a process after its EOF (proc.go).
THEOREM NothingAfterEof == SpecStdin => EofIsFinal
<1>1. ASSUME SInv, NextStdin, NEW p \in stdinEOF
      PROVE  p \in stdinEOF' /\ accepted'[p] = accepted[p]
  <2>0. /\ Holder /\ WritersHold /\ Asked /\ Nobody \notin Asks /\ p \in Procs
        /\ accepted \in [Procs -> Seq(Asks)]
    BY <1>1, StdinTypes, StdinAssumption DEF SInv, PipesTyped
  <2>1. ASSUME NEW c \in Asks, WriteSome(c) PROVE p \in stdinEOF' /\ accepted'[p] = accepted[p]
    <3>1. /\ askOn[c] \in Procs /\ UNCHANGED stdinEOF
          /\ accepted' = [accepted EXCEPT ![askOn[c]] = Append(@, c)]
          /\ askAt[c] = "writing"
      BY <2>0, <2>1 DEF WriteSome, Asked
    <3>2. stdinMu[askOn[c]] = c
      BY <2>0, <3>1 DEF WritersHold
    <3>3. askOn[c] # p
      BY <1>1, <2>0, <3>1, <3>2 DEF Holder
    <3> QED BY <1>1, <2>0, <3>1, <3>3
  <2>2. ASSUME NEW c \in Asks, AskStep(c), ~WriteSome(c)
        PROVE  p \in stdinEOF' /\ UNCHANGED accepted
    BY <1>1, <2>2 DEF AskStep, LockForWrite, WriteReturns, WriteFails, CloseStdin, LockForKill,
                      HardKill, KillCloses, pipeVars
  <2>3. ASSUME NEW t \in Resetters, SwapProcs(t) \/ KillAllStep(t)
        PROVE  p \in stdinEOF' /\ UNCHANGED accepted
    BY <1>1, <2>3 DEF SwapProcs, KillAllStep, EmptyMap, NextVictim, CloseVictim, KillVictim,
                      EndKillAll, KillCloses, pipeVars, stdinVars
  <2> QED BY <1>1, <2>1, <2>2, <2>3
          DEF NextStdin, SpawnProc, ReadInput, ProcEnds, WaitDeletes, Ask, pipeVars
<1>2. SInv /\ [NextStdin]_<<runtimeVars, stdinVars>> =>
        [\A p \in stdinEOF :
           p \in stdinEOF' /\ accepted'[p] = accepted[p]]_<<runtimeVars, stdinVars>>
  BY <1>1
<1> QED BY <1>2, StdinInvariance, PTL DEF SpecStdin, EofIsFinal
=============================================================================
