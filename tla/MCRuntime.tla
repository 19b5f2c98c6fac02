------------------------------ MODULE MCRuntime ------------------------------
(***************************************************************************)
(* Small instances of ProcRuns and of TunnelLifecycle for TLC.  They share *)
(* the runtime: a behaviour is one of runs and cancels under one reset, or *)
(* one of the relay process, whose connections and stop cause the resets.  *)
(***************************************************************************)
EXTENDS ProcRuns, TunnelLifecycle

CONSTANTS r2, r3

\* A run that leaves a descendant in its process group, and one whose
\* descendant has left it.
MCRuns == {r2, r3}
MCHelperOf == [r \in Runs |-> IF r = r3 THEN "escaped" ELSE "group"]

MCCancelRequests == {<<i, NoId>> : i \in RunIds} \cup {<<NoId, i>> : i \in RunIds}

VARIABLE part

MCInit == InitRuns /\ InitLifecycle /\ part \in {"runs", "relay"}

OneReset == generation' <= 2 /\ resetting'[Stop] = "idle"

MCNext ==
  /\ \/ part = "runs" /\ NextRuns /\ OneReset /\ UNCHANGED lifeVars
     \/ part = "relay" /\ NextLifecycle /\ UNCHANGED runVars
  /\ UNCHANGED part

\* FairRuns, where its reset is the one of the runs, and FairLifecycle, whose
\* steps no behaviour of the runs can take.
MCFair ==
  /\ FairRunSteps
  /\ \A t \in Resetters : WF_<<runtimeVars, runVars>>(part = "runs" /\ ResetCancelsRuns(t))
  /\ FairLifecycle

MCSpec == MCInit /\ [][MCNext]_<<part, runtimeVars, runVars, lifeVars>> /\ MCFair

\* Every variable of both parts has its type.
TypeOKParts == TypeOKRuns /\ TypeOKLifecycle
=============================================================================
