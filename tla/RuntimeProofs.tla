---------------------------- MODULE RuntimeProofs ----------------------------
(***************************************************************************)
(* What the steps of a reset keep of the runtime.                          *)
(***************************************************************************)
EXTENDS Runtime, TLAPS

\* The runtime has its type when the relay starts.
LEMMA RuntimeInit == InitRuntime => TypeOKRuntime
<1>1. 1 \in Generations
  BY GenerationAssumption DEF Generations
<1> QED BY <1>1 DEF InitRuntime, TypeOKRuntime

\* A step that leaves the runtime alone keeps its type.
LEMMA RuntimeKept ==
  ASSUME TypeOKRuntime, UNCHANGED runtimeVars
  PROVE  TypeOKRuntime'
BY DEF TypeOKRuntime, runtimeVars

\* The steps of a reset keep it too.
LEMMA RuntimeSteps ==
  ASSUME TypeOKRuntime, NEW t \in Resetters,
         SwapRuntime(t) \/ CancelPrevious(t) \/ EndReset(t)
  PROVE  TypeOKRuntime'
<1>1. CASE SwapRuntime(t)
  <2>1. generation + 1 \in Generations
    BY <1>1, GenerationAssumption DEF SwapRuntime, TypeOKRuntime, Generations
  <2> QED BY <1>1, <2>1 DEF SwapRuntime, TypeOKRuntime
<1>2. CASE CancelPrevious(t)
  <2>1. ended' \subseteq Generations
    BY <1>2 DEF CancelPrevious, TypeOKRuntime
  <2> QED BY <1>2, <2>1 DEF CancelPrevious, TypeOKRuntime
<1>3. CASE EndReset(t)
  BY <1>3 DEF EndReset, TypeOKRuntime
<1> QED BY <1>1, <1>2, <1>3

\* And Stop's end of the context.
LEMMA CancelAllKeeps ==
  ASSUME TypeOKRuntime, CancelAll
  PROVE  TypeOKRuntime'
BY DEF CancelAll, TypeOKRuntime

\* A generation never falls.
LEMMA GenerationGrows ==
  ASSUME TypeOKRuntime, NEW t \in Resetters,
         SwapRuntime(t) \/ CancelPrevious(t) \/ EndReset(t) \/ CancelAll
  PROVE  generation' \in Nat /\ generation \in Nat /\ generation' >= generation
BY DEF SwapRuntime, CancelPrevious, EndReset, CancelAll, TypeOKRuntime, Generations
=============================================================================
