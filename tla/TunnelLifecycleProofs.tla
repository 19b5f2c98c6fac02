------------------------ MODULE TunnelLifecycleProofs ------------------------
(***************************************************************************)
(* Proofs about the life of a relay: what it serves as, what it leaves on  *)
(* disk, that a writer dies with its connection, and what Stop may leave   *)
(* behind; for any number of tokens, connections and restarts.             *)
(***************************************************************************)
EXTENDS MCRuntime, ProcProofs

\* Where Run and Stop are, and what they have done to the runtime by then.
PlacesAgree ==
  Up =>
    /\ stopped <=> stopAt # "idle"
    /\ resetting[Run] # "idle" <=> loopAt = "retiring"
    /\ resetting[Stop] # "idle" <=> stopAt = "retiring"
    /\ loopAt = "returned" => stopped

\* Credentials are of targets that were registered, and a relay in connect
\* mode that has none has a token and an empty disk.
CredentialsAreIssued ==
  /\ cfg \in spent \cup {NoToken}
  /\ disk \in spent \cup {NoToken, "torn"}
  /\ Up /\ mode = "connect" =>
       /\ cfg = NoToken => token # NoToken /\ disk = NoToken
       /\ loopAt \in {"saving", "ready", "serving", "reading"} => cfg # NoToken
       /\ loopAt # "saving" => disk = cfg \/ saveFailed

\* The auth message and its answer.
RequestsAgree ==
  /\ request = "register" => cfg = NoToken /\ disk = NoToken /\ token # NoToken
  /\ request # "none" => reply = "none"
  /\ Up => /\ request # "none" => loopAt # "saving"
           /\ loopAt = "greeting" => request = "none" /\ reply = "none"
           /\ mode = "connect" /\ reply = "known" => cfg # NoToken
           /\ request = "reconnect" => cfg # NoToken
           /\ mode = "connect" => request # "enroll"
           /\ mode = "connect" /\ reply \in {"known", "issued"} => Identity \in spent
           /\ mode = "node" => request \in {"none", "enroll"} /\ reply # "issued"

\* The processes of a generation were asked for in it, and the generation is
\* the current one or one that is being retired; Stop ends the asking.
ChildrenAreKnown ==
  /\ children \subseteq heard
  /\ \A g \in heard : g <= generation
  /\ connGen <= generation
  /\ Up =>
       /\ loopAt \in {"serving", "reading"} => connGen # 0
       /\ \A g \in children : \/ g = generation
                              \/ \E t \in Resetters : resetting[t] # "idle" /\
                                   retired[t] = g
       /\ stopAt \notin {"idle", "resetting"} =>
            generation \notin heard /\ (loopAt = "reading" => connGen # generation)

\* The inductive invariant.
LInv ==
  /\ TypeOKLifecycle
  /\ PlacesAgree
  /\ CredentialsAreIssued
  /\ RequestsAgree
  /\ WriterDiesWithConnection
  /\ ChildrenAreKnown
  /\ LeftoversOnlyIfOvertaken

-----------------------------------------------------------------------------

\* It holds before the first start.
LEMMA InitLInv == InitLifecycle => LInv
<1> SUFFICES ASSUME InitLifecycle PROVE LInv
  OBVIOUS
<1>1. TypeOKRuntime
  BY RuntimeInit DEF InitLifecycle
<1>2. TypeOKLifecycle
  BY <1>1 DEF InitLifecycle, TypeOKLifecycle
<1> QED BY <1>2 DEF InitLifecycle, InitRuntime, LInv, PlacesAgree,
     CredentialsAreIssued, RequestsAgree,
          WriterDiesWithConnection, ChildrenAreKnown, LeftoversOnlyIfOvertaken, Up

\* Every step keeps the type.
LEMMA LifeTypeKept ==
  ASSUME LInv, NextLifecycle
  PROVE  TypeOKLifecycle'
<1> USE DEF Up, At, Go, Disconnect, FailSave, Authenticated, diskVars, authVars,
     connVars, loopVars
<1>0. TypeOKRuntime /\ TypeOKLifecycle
  BY DEF LInv, TypeOKLifecycle
<1>k. ASSUME UNCHANGED runtimeVars PROVE TypeOKRuntime'
  BY <1>0, <1>k, RuntimeKept
<1>n. ASSUME NewRuntime PROVE TypeOKRuntime'
  <2>1. 1 \in Generations
    BY GenerationAssumption DEF Generations
  <2> QED BY <1>n, <2>1 DEF NewRuntime, TypeOKRuntime
<1>1. ASSUME NEW m \in {"connect", "node"}, NEW k \in Tokens \cup {NoToken},
     StartRelay(m, k) PROVE TypeOKLifecycle'
  <2>1. TypeOKRuntime'
    BY <1>n, <1>1 DEF StartRelay, AtRest
  <2> QED BY <1>0, <1>1, <2>1 DEF StartRelay, MayStart, AtRest, TypeOKLifecycle
<1>2. ASSUME ExitRelay \/ DeleteConfig \/ ServerHandles \/ BreakConn \/ StallPeer
     PROVE TypeOKLifecycle'
  <2>1. TypeOKRuntime'
    BY <1>k, <1>2 DEF ExitRelay, DeleteConfig, ServerHandles, BreakConn, StallPeer
  <2>2. ASSUME ServerHandles PROVE TypeOKLifecycle'
    <3>1. request = "register" => token \in Tokens
      BY <1>0 DEF TypeOKLifecycle, LInv, RequestsAgree
    <3>2. spent' \subseteq Tokens /\ reply' \in {"refused", "known", "issued"}
      BY <1>0, <2>2, <3>1 DEF ServerHandles, TypeOKLifecycle
    <3> QED BY <1>0, <2>1, <2>2, <3>2 DEF ServerHandles, TypeOKLifecycle
  <2> QED BY <1>0, <1>2, <2>1, <2>2 DEF ExitRelay, DeleteConfig, BreakConn, StallPeer,
       TypeOKLifecycle
<1>3. ASSUME CrashRelay PROVE TypeOKLifecycle'
  <2>1. TypeOKRuntime'
    BY <1>n, <1>3 DEF CrashRelay, AtRest
  <2> QED BY <1>0, <1>3, <2>1 DEF CrashRelay, AtRest, TypeOKLifecycle
<1>4. ASSUME LoopTop \/ DialServer \/ UpgradeConn \/ SendAuth \/ LoseReply \/ BeginServing
     \/ LookAtContext \/ ReadFails
             \/ LeaveLoop \/ JoinWriter \/ DropConn \/ EndPause \/ ReadRequest
      PROVE  TypeOKLifecycle'
  <2>1. TypeOKRuntime'
    BY <1>k, <1>4 DEF LoopTop, DialServer, UpgradeConn, SendAuth, LoseReply, BeginServing,
         LookAtContext, ReadFails,
             LeaveLoop, JoinWriter, DropConn, EndPause, ReadRequest
  <2>2. generation \in Generations
    BY <1>0 DEF TypeOKRuntime
  <2>3. ASSUME LoopTop \/ DialServer \/ UpgradeConn \/ SendAuth \/ LoseReply \/ EndPause
       PROVE TypeOKLifecycle'
    BY <1>0, <2>1, <2>3 DEF LoopTop, DialServer, UpgradeConn, SendAuth, AuthRequest, LoseReply,
         EndPause, TypeOKLifecycle
  <2>4. ASSUME BeginServing \/ LookAtContext \/ ReadFails \/ LeaveLoop \/ JoinWriter
       \/ DropConn PROVE TypeOKLifecycle'
    BY <1>0, <2>1, <2>2, <2>4 DEF BeginServing, LookAtContext, ReadFails, LeaveLoop,
         JoinWriter, DropConn, TypeOKLifecycle, LInv, WriterDiesWithConnection
  <2>5. ASSUME ReadRequest PROVE TypeOKLifecycle'
    <3>1. connGen \in Generations
      BY <1>0, <2>5 DEF ReadRequest, LInv, ChildrenAreKnown, TypeOKLifecycle
    <3> QED BY <1>0, <2>1, <2>5, <3>1 DEF ReadRequest, TypeOKLifecycle
  <2> QED BY <1>4, <2>3, <2>4, <2>5
<1>5. ASSUME ReadReply \/ FinishSave PROVE TypeOKLifecycle'
  <2>1. TypeOKRuntime'
    BY <1>k, <1>5 DEF ReadReply, FinishSave
  <2> QED BY <1>0, <1>5, <2>1 DEF ReadReply, FinishSave, Identity, TypeOKLifecycle
<1>6. ASSUME RunResets \/ StopResets PROVE TypeOKLifecycle'
  <2>1. TypeOKRuntime'
    BY <1>0, <1>6, RuntimeSteps, LifecycleAssumption DEF RunResets, StopResets
  <2> QED BY <1>0, <1>6, <2>1 DEF RunResets, StopResets, KillChildren, TypeOKLifecycle
<1>7. ASSUME WriterStarts \/ WriterEnds \/ WriterLeaves \/ StartChild \/ FillInput
     \/ DrainInput \/ StopLocks \/ StopCloses
      PROVE  TypeOKLifecycle'
  <2>1. TypeOKRuntime'
    BY <1>k, <1>7 DEF WriterStarts, WriterEnds, WriterLeaves, StartChild,
         FillInput, DrainInput, StopLocks,
         StopCloses
  <2> QED BY <1>0, <1>7, <2>1 DEF WriterStarts, WriterEnds, WriterLeaves, StartChild,
       FillInput, DrainInput, StopLocks, StopCloses, TypeOKLifecycle
<1>8. ASSUME CallStop PROVE TypeOKLifecycle'
  <2>1. TypeOKRuntime'
    BY <1>0, <1>8, CancelAllKeeps DEF CallStop
  <2> QED BY <1>0, <1>8, <2>1 DEF CallStop, TypeOKLifecycle
<1> QED BY <1>1, <1>2, <1>3, <1>4, <1>5, <1>6, <1>7, <1>8 DEF NextLifecycle, LoopStep,
     StopStep

-----------------------------------------------------------------------------

\* Every step keeps what is known of the places of Run and Stop.
LEMMA PlacesKept ==
  ASSUME LInv, NextLifecycle
  PROVE  PlacesAgree'
<1> USE DEF Up, At, Go, Disconnect, FailSave, Authenticated, diskVars, authVars,
     connVars, loopVars, runtimeVars
<1>0. PlacesAgree /\ resetting \in [Resetters -> {"idle", "swapped", "cancelled"}]
  BY DEF LInv, TypeOKLifecycle, TypeOKRuntime
<1>1. ASSUME NEW m \in {"connect", "node"}, NEW k \in Tokens \cup {NoToken},
     StartRelay(m, k) PROVE PlacesAgree'
  BY <1>1, LifecycleAssumption DEF StartRelay, AtRest, NewRuntime, PlacesAgree
<1>2. ASSUME ExitRelay \/ CrashRelay \/ DeleteConfig \/ ServerHandles \/ BreakConn
     \/ StallPeer PROVE PlacesAgree'
  BY <1>0, <1>2 DEF ExitRelay, CrashRelay, DeleteConfig, ServerHandles, BreakConn,
       StallPeer, PlacesAgree
<1>3. ASSUME LoopTop \/ DialServer \/ UpgradeConn \/ SendAuth \/ LoseReply \/ BeginServing
     \/ LookAtContext \/ ReadFails
             \/ LeaveLoop \/ JoinWriter \/ DropConn \/ EndPause \/ ReadRequest
                  \/ ReadReply \/ FinishSave
      PROVE  PlacesAgree'
  BY <1>0, <1>3 DEF LoopTop, DialServer, UpgradeConn, SendAuth, LoseReply, BeginServing,
       LookAtContext, ReadFails,
             LeaveLoop, JoinWriter, DropConn, EndPause, ReadRequest, ReadReply,
                  FinishSave, PlacesAgree
<1>4. ASSUME RunResets \/ StopResets PROVE PlacesAgree'
  BY <1>0, <1>4, LifecycleAssumption DEF RunResets, StopResets, SwapRuntime,
       CancelPrevious, EndReset, PlacesAgree
<1>5. ASSUME WriterStarts \/ WriterEnds \/ WriterLeaves \/ StartChild \/ FillInput
     \/ DrainInput \/ StopLocks \/ StopCloses
      PROVE  PlacesAgree'
  BY <1>0, <1>5 DEF WriterStarts, WriterEnds, WriterLeaves, StartChild,
         FillInput, DrainInput, StopLocks,
       StopCloses, PlacesAgree
<1>6. ASSUME CallStop PROVE PlacesAgree'
  BY <1>0, <1>6 DEF CallStop, CancelAll, PlacesAgree
<1> QED BY <1>1, <1>2, <1>3, <1>4, <1>5, <1>6 DEF NextLifecycle, LoopStep, StopStep

\* And of the credentials, which hang together with the message that asks for
\* them and with its answer.
LEMMA CredentialsKept ==
  ASSUME LInv, NextLifecycle
  PROVE  CredentialsAreIssued' /\ RequestsAgree'
<1> USE DEF Up, At, Go, Disconnect, FailSave, Authenticated, diskVars, authVars,
     connVars, loopVars, CredentialsAreIssued, RequestsAgree, Identity
<1>0. CredentialsAreIssued /\ RequestsAgree /\ mode \in {"connect", "node"}
      /\ request \in {"none", "register", "reconnect", "enroll"}
      /\ token \in Tokens \cup {NoToken}
      /\ NoToken \notin spent
  BY LifecycleAssumption DEF LInv, TypeOKLifecycle
<1>1. ASSUME NEW m \in {"connect", "node"}, NEW k \in Tokens \cup {NoToken},
     StartRelay(m, k)
      PROVE CredentialsAreIssued' /\ RequestsAgree'
  BY <1>0, <1>1 DEF StartRelay, MayStart, AtRest
<1>2. ASSUME ExitRelay \/ CrashRelay \/ DeleteConfig \/ BreakConn \/ StallPeer
      PROVE CredentialsAreIssued' /\ RequestsAgree'
  BY <1>0, <1>2 DEF ExitRelay, CrashRelay, AtRest, DeleteConfig, BreakConn, StallPeer
<1>3. ASSUME ServerHandles PROVE CredentialsAreIssued' /\ RequestsAgree'
  BY <1>0, <1>3 DEF ServerHandles
<1>4. ASSUME LoopTop \/ DialServer \/ UpgradeConn \/ LoseReply \/ BeginServing \/ LookAtContext
     \/ ReadFails
             \/ LeaveLoop \/ JoinWriter \/ DropConn \/ EndPause \/ ReadRequest
      PROVE  CredentialsAreIssued' /\ RequestsAgree'
  BY <1>0, <1>4 DEF LoopTop, DialServer, UpgradeConn, LoseReply, BeginServing, LookAtContext,
       ReadFails,
             LeaveLoop, JoinWriter, DropConn, EndPause, ReadRequest
<1>5. ASSUME SendAuth PROVE CredentialsAreIssued' /\ RequestsAgree'
  BY <1>0, <1>5 DEF SendAuth, AuthRequest
<1>6. ASSUME ReadReply PROVE CredentialsAreIssued' /\ RequestsAgree'
  BY <1>0, <1>6 DEF ReadReply
<1>7. ASSUME FinishSave PROVE CredentialsAreIssued' /\ RequestsAgree'
  BY <1>0, <1>7 DEF FinishSave
<1>8. ASSUME RunResets \/ StopResets PROVE CredentialsAreIssued' /\ RequestsAgree'
  BY <1>0, <1>8 DEF RunResets, StopResets
<1>9. ASSUME WriterStarts \/ WriterEnds \/ WriterLeaves \/ StartChild \/ FillInput
     \/ DrainInput \/ StopLocks \/ StopCloses \/ CallStop
      PROVE  CredentialsAreIssued' /\ RequestsAgree'
  BY <1>0, <1>9 DEF WriterStarts, WriterEnds, WriterLeaves, StartChild,
         FillInput, DrainInput, StopLocks,
       StopCloses, CallStop
<1> QED BY <1>1, <1>2, <1>3, <1>4, <1>5, <1>6, <1>7, <1>8, <1>9 DEF NextLifecycle,
     LoopStep, StopStep

\* A writer starts with a connection and is joined before the next.
LEMMA WriterKept ==
  ASSUME LInv, NextLifecycle
  PROVE  WriterDiesWithConnection'
<1> USE DEF Up, At, Go, Disconnect, FailSave, Authenticated, diskVars, authVars,
     connVars, loopVars, WriterDiesWithConnection
<1>0. WriterDiesWithConnection
  BY DEF LInv
<1>1. ASSUME \E m \in {"connect", "node"}, k \in Tokens \cup {NoToken} : StartRelay(m, k)
      PROVE WriterDiesWithConnection'
  BY <1>1 DEF StartRelay, AtRest
<1>2. ASSUME ExitRelay \/ CrashRelay \/ DeleteConfig \/ BreakConn \/ StallPeer
     \/ ServerHandles
      PROVE WriterDiesWithConnection'
  BY <1>0, <1>2 DEF ExitRelay, CrashRelay, AtRest, DeleteConfig, BreakConn, StallPeer,
       ServerHandles
<1>3. ASSUME LoopTop \/ DialServer \/ UpgradeConn \/ LoseReply \/ BeginServing \/ LookAtContext
     \/ ReadFails
             \/ LeaveLoop \/ JoinWriter \/ DropConn \/ EndPause \/ ReadRequest
                  \/ SendAuth \/ ReadReply \/ FinishSave
      PROVE  WriterDiesWithConnection'
  BY <1>0, <1>3 DEF LoopTop, DialServer, UpgradeConn, LoseReply, BeginServing, LookAtContext,
       ReadFails,
             LeaveLoop, JoinWriter, DropConn, EndPause, ReadRequest, SendAuth,
                  ReadReply, FinishSave
<1>4. ASSUME RunResets \/ StopResets PROVE WriterDiesWithConnection'
  BY <1>0, <1>4 DEF RunResets, StopResets
<1>5. ASSUME WriterStarts \/ WriterEnds \/ WriterLeaves \/ StartChild \/ FillInput
     \/ DrainInput \/ StopLocks \/ StopCloses \/ CallStop
      PROVE  WriterDiesWithConnection'
  BY <1>0, <1>5 DEF WriterStarts, WriterEnds, WriterLeaves, StartChild,
         FillInput, DrainInput, StopLocks,
       StopCloses, CallStop
<1> QED BY <1>1, <1>2, <1>3, <1>4, <1>5 DEF NextLifecycle, LoopStep, StopStep

\* Every step keeps what is known of the processes of the generations; when
\* main exits, those of the current one are none, for Stop has retired it, and
\* those of a retired one are being killed.
LEMMA ChildrenKept ==
  ASSUME LInv, NextLifecycle
  PROVE  ChildrenAreKnown' /\ LeftoversOnlyIfOvertaken'
<1> USE DEF Up, At, Go, Disconnect, FailSave, Authenticated, diskVars, authVars,
     connVars, loopVars, runtimeVars, ChildrenAreKnown, LeftoversOnlyIfOvertaken
<1>0. /\ ChildrenAreKnown /\ LeftoversOnlyIfOvertaken /\ PlacesAgree
      /\ generation \in Nat \ {0}
      /\ stopAt \in {"idle", "resetting", "retiring", "locking", "closing", "done"}
      /\ resetting \in [Resetters -> {"idle", "swapped", "cancelled"}]
      /\ retired \in [Resetters -> Generations \cup {0}]
      /\ connGen \in Nat /\ heard \subseteq Nat
  BY GenerationAssumption DEF LInv, TypeOKLifecycle, TypeOKRuntime, Generations
<1>1. ASSUME \E m \in {"connect", "node"}, k \in Tokens \cup {NoToken} : StartRelay(m, k)
      PROVE ChildrenAreKnown' /\ LeftoversOnlyIfOvertaken'
  BY <1>1 DEF StartRelay, AtRest, NewRuntime
<1>2. ASSUME CrashRelay PROVE ChildrenAreKnown' /\ LeftoversOnlyIfOvertaken'
  BY <1>2 DEF CrashRelay, AtRest, NewRuntime
<1>3. ASSUME ExitRelay PROVE ChildrenAreKnown' /\ LeftoversOnlyIfOvertaken'
  BY <1>0, <1>3, LifecycleAssumption DEF ExitRelay, PlacesAgree
<1>4. ASSUME DeleteConfig \/ BreakConn \/ StallPeer \/ ServerHandles
      PROVE ChildrenAreKnown' /\ LeftoversOnlyIfOvertaken'
  BY <1>0, <1>4 DEF DeleteConfig, BreakConn, StallPeer, ServerHandles
<1>5. ASSUME LoopTop \/ DialServer \/ UpgradeConn \/ LoseReply \/ ReadFails
             \/ LeaveLoop \/ JoinWriter \/ DropConn \/ EndPause \/ SendAuth
                  \/ ReadReply \/ FinishSave
      PROVE  ChildrenAreKnown' /\ LeftoversOnlyIfOvertaken'
  BY <1>0, <1>5 DEF LoopTop, DialServer, UpgradeConn, LoseReply, ReadFails,
             LeaveLoop, JoinWriter, DropConn, EndPause, SendAuth, ReadReply, FinishSave
<1>6. ASSUME BeginServing \/ LookAtContext \/ ReadRequest
      PROVE  ChildrenAreKnown' /\ LeftoversOnlyIfOvertaken'
  <2>1. CASE BeginServing
    BY <1>0, <2>1 DEF BeginServing
  <2>2. CASE LookAtContext
    BY <1>0, <2>2 DEF LookAtContext, PlacesAgree
  <2>3. CASE ReadRequest
    BY <1>0, <2>3 DEF ReadRequest
  <2> QED BY <1>6, <2>1, <2>2, <2>3
<1>7. ASSUME NEW t \in Resetters, SwapRuntime(t),
             UNCHANGED <<mainAt, children, heard, connGen>>,
             Up, loopAt' = "retiring" \/ UNCHANGED loopAt
      PROVE  ChildrenAreKnown' /\ LeftoversOnlyIfOvertaken'
  <2>1. generation' = generation + 1 /\ generation \in Nat
    BY <1>0, <1>7 DEF SwapRuntime
  <2>2. resetting' = [resetting EXCEPT ![t] = "swapped"] /\ retired' = [retired EXCEPT
       ![t] = generation]
        /\ resetting[t] = "idle"
    BY <1>7 DEF SwapRuntime
  <2>3. \A g \in heard : g <= generation' /\ g # generation'
    BY <1>0, <2>1
  <2>4. connGen <= generation' /\ connGen # generation'
    BY <1>0, <2>1
  <2>5. \A g \in children : \E s \in Resetters : resetting'[s] # "idle" /\ retired'[s] = g
    BY <1>0, <1>7, <2>2
  <2> QED BY <1>0, <1>7, <2>3, <2>4, <2>5
<1>8. ASSUME RunResets \/ StopResets PROVE ChildrenAreKnown' /\ LeftoversOnlyIfOvertaken'
  <2>1. Up /\ UNCHANGED <<mainAt, heard, connGen>>
    BY <1>8 DEF RunResets, StopResets
  <2>2. CASE \E t \in Resetters : SwapRuntime(t)
    <3>1. PICK t \in Resetters : SwapRuntime(t)
      BY <2>2
    <3>2. resetting'[t] = "swapped"
      BY <1>0, <3>1 DEF SwapRuntime
    <3>3. UNCHANGED children /\ (loopAt' = "retiring" \/ UNCHANGED loopAt)
      BY <1>0, <1>8, <3>1, <3>2, LifecycleAssumption
         DEF RunResets, StopResets, SwapRuntime, CancelPrevious, EndReset
    <3> QED BY <1>7, <2>1, <3>1, <3>3
  <2>3. CASE \E t \in Resetters : CancelPrevious(t)
    <3>1. PICK t \in Resetters : CancelPrevious(t)
      BY <2>3
    <3>2. /\ resetting[t] = "swapped"
          /\ resetting' = [resetting EXCEPT ![t] = "cancelled"]
          /\ UNCHANGED <<generation, retired>>
      BY <3>1 DEF CancelPrevious
    <3>3. UNCHANGED <<children, loopAt, stopAt>>
      BY <1>0, <1>8, <3>2, LifecycleAssumption
         DEF RunResets, StopResets, SwapRuntime, CancelPrevious, EndReset
    <3>4. \A s \in Resetters : resetting[s] # "idle" => resetting'[s] # "idle"
      BY <1>0, <3>2
    <3> QED BY <1>0, <2>1, <3>2, <3>3, <3>4
  <2>4. ASSUME NEW t \in Resetters, EndReset(t), KillChildren(t)
        PROVE  ChildrenAreKnown' /\ LeftoversOnlyIfOvertaken'
    <3>1. /\ resetting[t] = "cancelled" /\ resetting' = [resetting EXCEPT ![t] = "idle"]
          /\ UNCHANGED <<generation, retired>>
      BY <2>4 DEF EndReset
    <3>2. loopAt' \notin {"serving", "reading"} \/ UNCHANGED loopAt
      BY <1>8 DEF RunResets, StopResets
    <3>3. stopAt' \notin {"idle", "resetting"} => stopAt \notin {"idle", "resetting"}
      <4>1. ~SwapRuntime(Stop)
        BY <1>0, <3>1 DEF SwapRuntime
      <4> QED BY <1>0, <1>8, <4>1 DEF RunResets, StopResets
    <3>4. \A g \in children' : g \in children /\ g # retired[t]
      BY <2>4 DEF KillChildren
    <3>5. \A s \in Resetters : resetting[s] # "idle" /\ retired[s] # retired[t]
         => resetting'[s] # "idle"
      BY <1>0, <3>1
    <3>6. \A g \in children' : \/ g = generation
                              \/ \E s \in Resetters : resetting'[s] # "idle" /\
                                   retired'[s] = g
      BY <1>0, <2>1, <3>1, <3>4, <3>5
    <3> QED BY <1>0, <2>1, <3>1, <3>2, <3>3, <3>4, <3>6
  <2> QED BY <1>8, <2>2, <2>3, <2>4, LifecycleAssumption DEF RunResets, StopResets
<1>9. ASSUME StartChild \/ FillInput \/ DrainInput
      PROVE ChildrenAreKnown' /\ LeftoversOnlyIfOvertaken'
  BY <1>0, <1>9 DEF StartChild, FillInput, DrainInput
<1>10. ASSUME WriterStarts \/ WriterEnds \/ WriterLeaves \/ StopLocks \/ StopCloses
     \/ CallStop
      PROVE  ChildrenAreKnown' /\ LeftoversOnlyIfOvertaken'
  BY <1>0, <1>10 DEF WriterStarts, WriterEnds, WriterLeaves, StopLocks, StopCloses,
       CallStop, CancelAll
<1> QED BY <1>1, <1>2, <1>3, <1>4, <1>5, <1>6, <1>7, <1>8, <1>9, <1>10
     DEF NextLifecycle, LoopStep, StopStep

\* Every step keeps the invariant.
LEMMA StepLInv == LInv /\ [NextLifecycle]_<<runtimeVars, lifeVars>> => LInv'
<1> SUFFICES ASSUME LInv, [NextLifecycle]_<<runtimeVars, lifeVars>> PROVE LInv'
  OBVIOUS
<1>1. CASE NextLifecycle
  BY <1>1, LifeTypeKept, PlacesKept, CredentialsKept, WriterKept, ChildrenKept DEF LInv
<1>2. CASE UNCHANGED <<runtimeVars, lifeVars>>
  <2>1. TypeOKRuntime'
    BY <1>2, RuntimeKept DEF LInv, TypeOKLifecycle
  <2>2. TypeOKLifecycle'
    BY <1>2, <2>1 DEF LInv, TypeOKLifecycle, lifeVars, diskVars, authVars, connVars,
         loopVars
  <2>3. PlacesAgree' /\ CredentialsAreIssued' /\ RequestsAgree' /\
       WriterDiesWithConnection'
    BY <1>2 DEF LInv, PlacesAgree, CredentialsAreIssued, RequestsAgree,
         WriterDiesWithConnection,
                Identity, Up, runtimeVars, lifeVars, diskVars, authVars, connVars,
                     loopVars
  <2>4. ChildrenAreKnown' /\ LeftoversOnlyIfOvertaken'
    BY <1>2 DEF LInv, ChildrenAreKnown, LeftoversOnlyIfOvertaken, Up, runtimeVars,
         lifeVars,
                diskVars, authVars, connVars, loopVars
  <2> QED BY <2>2, <2>3, <2>4 DEF LInv
<1> QED BY <1>1, <1>2

\* So it always holds.
LEMMA SpecLInv == SpecLifecycle => []LInv
<1> QED BY InitLInv, StepLInv, PTL DEF SpecLifecycle

-----------------------------------------------------------------------------
(* Results.                                                                *)

\* The variables of Run, Stop, the connection and the disk keep their types.
THEOREM LifecycleTypeCorrect == SpecLifecycle => []TypeOKLifecycle
<1>1. LInv => TypeOKLifecycle
  BY DEF LInv
<1> QED BY <1>1, SpecLInv, PTL

\* A relay serves as a target that the server has registered, and config.json
\* holds the credentials of that target unless a Save has failed (connect and
\* HandleAuthResult), across crashes, restarts and lost answers.
THEOREM ServesWhatItSaved == SpecLifecycle => []ServesAsSaved
<1>1. LInv => ServesAsSaved
  BY DEF LInv, CredentialsAreIssued, ServesAsSaved, Serving, At
<1> QED BY <1>1, SpecLInv, PTL

\* messageLoop leaves no writer behind when Run resets and dials again.
THEOREM WritersDieWithTheirConnection == SpecLifecycle => []WriterDiesWithConnection
<1>1. LInv => WriterDiesWithConnection
  BY DEF LInv
<1> QED BY <1>1, SpecLInv, PTL

\* A relay that exits after Stop leaves no session running, unless main went
\* while Stop was still in its reset.
THEOREM NothingIsLeftBehindUnlessOvertaken == SpecLifecycle => []LeftoversOnlyIfOvertaken
<1>1. LInv => LeftoversOnlyIfOvertaken
  BY DEF LInv
<1> QED BY <1>1, SpecLInv, PTL

\* No step spends a registration token while the relay has credentials, in
\* memory or on disk.
THEOREM TokensAreForTheFirstRegistration == SpecLifecycle => TokensBuyFirstCredentials
<1>1. ASSUME LInv, [NextLifecycle]_<<runtimeVars, lifeVars>>
      PROVE  [spent' # spent => cfg = NoToken /\ disk = NoToken]_<<runtimeVars, lifeVars>>
  <2>1. CASE UNCHANGED <<runtimeVars, lifeVars>>
    BY <2>1
  <2>2. CASE NextLifecycle
    <3>1. CASE ServerHandles
      BY <1>1, <3>1 DEF ServerHandles, LInv, RequestsAgree
    <3>2. CASE ~ServerHandles
      <4>1. UNCHANGED spent
        BY <2>2, <3>2 DEF NextLifecycle, LoopStep, StopStep, diskVars, StartRelay,
             AtRest, ExitRelay, CrashRelay,
           DeleteConfig, LoopTop, DialServer, UpgradeConn, SendAuth, ReadReply, FinishSave,
                LoseReply, BeginServing,
           LookAtContext, ReadFails, LeaveLoop, JoinWriter, DropConn, RunResets,
                EndPause, ReadRequest,
           StartChild, FillInput, DrainInput, WriterStarts, WriterEnds, WriterLeaves,
                CallStop, StopResets,
                StopLocks, StopCloses,
           BreakConn, StallPeer
      <4> QED BY <4>1
    <3> QED BY <3>1, <3>2
  <2> QED BY <1>1, <2>1, <2>2
<1> QED BY <1>1, SpecLInv, PTL DEF SpecLifecycle, TokensBuyFirstCredentials

-----------------------------------------------------------------------------
(* With the runs of proc.run beside it, which share the runtime: a step of *)
(* theirs can reset it as Run and Stop do not, so that LInv is of the      *)
(* behaviours of the relay alone.                                          *)

TypedInEitherPart == TypeOKParts /\ (part = "relay" => LInv)

\* It holds at the start,
LEMMA InitEitherPart == MCInit => TypedInEitherPart
BY InitType, InitLInv DEF MCInit, TypedInEitherPart, TypeOKParts, LInv

\* and every step of either part keeps it.
LEMMA StepEitherPart ==
  TypedInEitherPart /\ [MCNext]_<<part, runtimeVars, runVars, lifeVars>> => TypedInEitherPart'
<1> SUFFICES ASSUME TypedInEitherPart, [MCNext]_<<part, runtimeVars, runVars, lifeVars>>
             PROVE  TypedInEitherPart'
  OBVIOUS
<1>0. TypeOKRuns /\ TypeOKLifecycle
  BY DEF TypedInEitherPart, TypeOKParts
<1>1. ASSUME TypeOKRuntime', UNCHANGED runVars PROVE TypeOKRuns'
  BY <1>0, <1>1 DEF TypeOKRuns, runVars
<1>2. ASSUME TypeOKRuntime', UNCHANGED lifeVars PROVE TypeOKLifecycle'
  BY <1>0, <1>2 DEF TypeOKLifecycle, lifeVars, diskVars, authVars, connVars, loopVars
<1>3. CASE part = "runs" /\ part' = part /\ NextRuns /\ UNCHANGED lifeVars
  <2>1. TypeOKRuns'
    BY <1>0, <1>3, TypePreserved
  <2>2. TypeOKLifecycle'
    BY <1>2, <1>3, <2>1 DEF TypeOKRuns
  <2> QED BY <1>3, <2>1, <2>2 DEF TypedInEitherPart, TypeOKParts
<1>4. CASE part = "relay" /\ NextLifecycle /\ UNCHANGED runVars
  <2>1. LInv'
    BY <1>4, StepLInv DEF TypedInEitherPart
  <2>2. TypeOKRuns'
    BY <1>1, <1>4, <2>1 DEF LInv, TypeOKLifecycle
  <2> QED BY <2>1, <2>2 DEF TypedInEitherPart, TypeOKParts, LInv
<1>5. CASE UNCHANGED <<part, runtimeVars, runVars, lifeVars>>
  <2>1. TypeOKRuntime'
    BY <1>0, <1>5, RuntimeKept DEF TypeOKRuns
  <2>2. part = "relay" => LInv'
    BY <1>5, StepLInv DEF TypedInEitherPart
  <2> QED BY <1>1, <1>2, <1>5, <2>1, <2>2 DEF TypedInEitherPart, TypeOKParts
<1> QED BY <1>3, <1>4, <1>5 DEF MCNext

\* Every variable of the runs, the cancels, the relay process and the runtime
\* that they share keeps its type, whichever of the two parts takes the steps.
THEOREM RuntimePartsTypeCorrect == MCSpec => []TypeOKParts
<1>1. TypedInEitherPart => TypeOKParts
  BY DEF TypedInEitherPart
<1> QED BY <1>1, InitEitherPart, StepEitherPart, PTL DEF MCSpec
=============================================================================
