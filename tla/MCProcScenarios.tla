-------------------------- MODULE MCProcScenarios --------------------------
(***************************************************************************)
(* Small instances of ProcSessions for TLC: one session with both of its   *)
(* streams, or two sessions with one stream each, the second a terminal.   *)
(***************************************************************************)
EXTENDS ProcSessions

CONSTANTS s1, s2, k1, k2, q1, q2, q3

MCSessions == {s1, s2}
MCWriters == {<<s, t>> : s \in Sessions, t \in Streams \cup {"wait"}}
MCMessages == {<<s, t>> : s \in Sessions, t \in {"output", "exit"}}
MCKeys == {k1, k2}
MCQueues == {q1, q2, q3}

\* Queue objects are interchangeable: a new one is the first that is unused.
\* (Symmetry is not sound for liveness.)
Cells == << q1, q2, q3 >>
FirstCell ==
  \A i, j \in DOMAIN Cells :
    i < j /\ Unused(Cells[i]) => (Unused(Cells[j]) => Unused(Cells[j])')

\* s2 has the session_id of s1, or another one: then it meets the cap on
\* sessions, writes nothing and sees no reset.
SessionIds ==
  /\ sid'[s1] \in {k1, "none"}
  /\ sid'[s2] = k2 => generation' = 1 /\ written'[<<s2, "stdout">>] = 0

VARIABLE scenario

MCInit == InitSessions /\ scenario \in {"streams", "sessions"}

WithinScenario ==
  IF scenario = "streams" THEN phase'[s2] = "unused"
  ELSE /\ written'[<<s1, "stderr">>] = 0
       /\ \A s \in Sessions : written'[<<s, "stdout">>] <= 1

MCNext == NextSessions /\ SessionIds /\ WithinScenario /\ FirstCell /\ UNCHANGED scenario

MCSpec == MCInit /\ [][MCNext]_<<allVars, scenario>> /\ FairSessions
=============================================================================
