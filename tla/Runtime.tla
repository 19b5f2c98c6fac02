------------------------------- MODULE Runtime -------------------------------
(***************************************************************************)
(* The runtime of the relay as its request handlers see it: the generation *)
(* a request carries, the context of each generation, and the steps in     *)
(* which resetRuntimeState (internal/tunnel/websocket.go) retires one      *)
(* runtime for the next.  Run and Stop both reset, and may do so at once.  *)
(***************************************************************************)
EXTENDS Naturals

CONSTANTS
  Resetters,    \* the goroutines that reset: the one of Run, the one of Stop
  MaxGeneration \* bound: the last generation

ASSUME GenerationAssumption == MaxGeneration \in Nat \ {0}

Generations == 1 .. MaxGeneration

VARIABLES
  generation, \* runtimeGeneration
  resetting,  \* the resetters between the swap of the runtime and its end
  retired,    \* the generation that a resetter has swapped out
  ended,      \* the generations whose context was cancelled
  stopped     \* t.ctx is cancelled

runtimeVars == <<generation, resetting, retired, ended, stopped>>

TypeOKRuntime ==
  /\ generation \in Generations
  /\ resetting \in [Resetters -> {"idle", "swapped", "cancelled"}]
  /\ retired \in [Resetters -> Generations \cup {0}]
  /\ \A t \in Resetters : resetting[t] = "idle" \/ retired[t] \in Generations
  /\ ended \subseteq Generations
  /\ stopped \in BOOLEAN

InitRuntime ==
  /\ generation = 1
  /\ resetting = [t \in Resetters |-> "idle"]
  /\ retired = [t \in Resetters |-> 0]
  /\ ended = {}
  /\ stopped = FALSE

\* The context of generation g, a child of t.ctx, is done.
ContextDone(g) == stopped \/ g \in ended

\* The runtimeMu section: the multiplexers are closed and replaced, and the
\* generation is over for every request that carries it.
SwapRuntime(t) ==
  /\ resetting[t] = "idle"
  /\ generation < MaxGeneration
  /\ generation' = generation + 1
  /\ retired' = [retired EXCEPT ![t] = generation]
  /\ resetting' = [resetting EXCEPT ![t] = "swapped"]
  /\ UNCHANGED <<ended, stopped>>

\* prevCancel(), and the outputMu section that clears the output state.
CancelPrevious(t) ==
  /\ resetting[t] = "swapped"
  /\ ended' = ended \cup {retired[t]}
  /\ resetting' = [resetting EXCEPT ![t] = "cancelled"]
  /\ UNCHANGED <<generation, retired, stopped>>

\* What is left: KillAll of both multiplexers and the draining of the queues.
EndReset(t) ==
  /\ resetting[t] = "cancelled"
  /\ resetting' = [resetting EXCEPT ![t] = "idle"]
  /\ UNCHANGED <<generation, retired, ended, stopped>>

\* Stop cancels t.ctx, and with it the context of every generation.
CancelAll ==
  /\ ~stopped
  /\ stopped' = TRUE
  /\ UNCHANGED <<generation, resetting, retired, ended>>
=============================================================================
