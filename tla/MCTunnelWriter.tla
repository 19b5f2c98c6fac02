--------------------------- MODULE MCTunnelWriter ---------------------------
(***************************************************************************)
(* Small instances of TunnelWriter for TLC: traffic of both priorities on  *)
(* one connection, or connections and resets with priority output only.    *)
(***************************************************************************)
EXTENDS TunnelWriter

CONSTANTS fast, slow

MCKeys == {fast, slow}
MCPriorityOf == [k \in Keys |-> IF k = fast THEN "priority" ELSE "normal"]

VARIABLE scenario

MCInit == InitWriter /\ scenario \in {"traffic", "resets"}

MCNext ==
  /\ NextWriter
  /\ scenario = "traffic" => generation' = generation /\ ~ctxDone'
  /\ scenario = "resets" =>
       /\ \A w \in Writers : call'[w].key # slow
       /\ slow \notin completed'
  /\ UNCHANGED scenario

\* Fairness is of the writer, whose steps the scenarios do not restrict.
MCSpec == MCInit /\ [][MCNext]_<<tunnelVars, scenario>> /\ FairWriter
=============================================================================
