----------------------------- MODULE MCProcStdin -----------------------------
(***************************************************************************)
(* Small instances of ProcStdin for TLC, one per scenario.                 *)
(***************************************************************************)
EXTENDS ProcStdin

CONSTANTS p1, p2, a1, a2

MCProcs == {p1, p2}
MCTerminals == {p2}
MCAsks == {a1, a2}

\* Two requests to a process, with a pipe or with a terminal, or one that
\* is written to while there is another to be asked, and to be killed by a reset.
VARIABLE scenario

MCInit == InitStdin /\ scenario \in {"pipe", "terminal", "two sessions"}

WithinScenario ==
  CASE scenario = "pipe" -> procAt'[p2] = "unused"
    [] scenario = "terminal" -> procAt'[p1] = "unused"
    [] scenario = "two sessions" -> /\ procAt'[p2] # "unused" => procAt'[p1] # "unused"
                                    /\ askOn'[a1] # p2 /\ askKind'[a1] = "data"

\* Requests are interchangeable: a1 comes first.
FirstAsk == askAt'[a2] # "unused" => askAt'[a1] # "unused"

MCNext == NextStdin /\ WithinScenario /\ FirstAsk /\ UNCHANGED scenario

MCSpec == MCInit /\ [][MCNext]_<<runtimeVars, stdinVars, scenario>> /\ FairStdin
=============================================================================
