--------------------------- MODULE MCProcSessions ---------------------------
(***************************************************************************)
(* Small instances of ProcSessions for TLC, without fairness.              *)
(***************************************************************************)
EXTENDS ProcSessions, TLC

CONSTANTS s1, s2

MCSessions == {s1, s2}
MCWriters == {<<s, t>> : s \in Sessions, t \in Streams \cup {"wait"}}
MCMessages == {<<s, t>> : s \in Sessions, t \in {"output", "exit"}}

MCSymmetry == Permutations(Keys) \cup Permutations(Queues) \cup Permutations(Sessions)
=============================================================================
