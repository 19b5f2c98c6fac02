----------------------------- MODULE ShellProofs -----------------------------
(***************************************************************************)
(* Proofs about the shell sessions, for any number of sessions,            *)
(* session_ids, requests, kills and resets: that the sessions maps of the  *)
(* multiplexers and the sessions agree, and what shell.exec promises of    *)
(* the commands that share a terminal and a session_id.  The last theorem  *)
(* is about both together, as the instance for TLC (MCShell) puts them.    *)
(***************************************************************************)
EXTENDS MCShell, RuntimeProofs

\* A session that has started and whose exit callback has not ended.
Active(x) == shellAt[x] \in {"open", "reaped", "marked", "exiting"}

\* A session that a kill took out of its map, and that has ended.
Gone(y) == shellAt[y] = "gone" /\ y \in condemned

\* UnreachableOnlyAfterKill is about shells that run; it is inductive when it
\* is about all that have not ended, for such a one can still delete the entry
\* of another.
UnregisteredOnlyAfterKill ==
  \A x \in Shells :
    Active(x) /\ x \notin condemned /\ ~Registered(x) => \E y \in SameId(x) : Gone(y)

\* The inductive invariant.
IInv ==
  /\ TypeOKShells
  /\ EntriesAreOpen
  /\ UnregisteredOnlyAfterKill

-----------------------------------------------------------------------------
(* Types.                                                                  *)

\* The type holds when the relay starts.
LEMMA InitType == InitShells => TypeOKShells
<1> SUFFICES ASSUME InitShells PROVE TypeOKShells
  OBVIOUS
<1>1. TypeOKRuntime
  BY RuntimeInit DEF InitShells
<1> QED BY <1>1, ShellsAssumption DEF InitShells, TypeOKShells

\* A request carries a generation that exists.
LEMMA CurrentGeneration == ASSUME TypeOKRuntime PROVE generation \in Generations
BY DEF TypeOKRuntime

\* A callback keeps the type of the output states.
LEMMA EnqueueType ==
  ASSUME TypeOKShells, NEW x \in Shells, Enqueue(x)
  PROVE  outputState' \in [ShellIds -> {"none", "open", "complete"}]
BY DEF Enqueue, TypeOKShells

\* Every step keeps the type.
LEMMA TypePreserved ==
  ASSUME TypeOKShells, NextShells
  PROVE  TypeOKShells'
<1>0. TypeOKRuntime
  BY DEF TypeOKShells
<1>k. ASSUME UNCHANGED runtimeVars PROVE TypeOKRuntime'
  BY <1>0, <1>k, RuntimeKept
<1>1. ASSUME NEW x \in Shells, NEW k \in ShellIds, CheckShell(x, k) PROVE TypeOKShells'
  <2>1. TypeOKRuntime'
    BY <1>k, <1>1 DEF CheckShell
  <2> QED BY <1>0, <1>1, <2>1, CurrentGeneration DEF CheckShell, TypeOKShells, killVars
<1>2. ASSUME NEW x \in Shells, CreateShell(x) PROVE TypeOKShells'
  <2>1. TypeOKRuntime'
    BY <1>k, <1>2 DEF CreateShell
  <2> QED BY <1>2, <2>1 DEF CreateShell, TypeOKShells, killVars, shellEnvVars
<1>3. ASSUME NEW x \in Shells, ShellEnds(x) \/ JobEnds(x) \/ EndOfTerminal(x)
     PROVE TypeOKShells'
  <2>1. TypeOKRuntime'
    BY <1>k, <1>3 DEF ShellEnds, JobEnds, EndOfTerminal
  <2> QED BY <1>3, <2>1 DEF ShellEnds, JobEnds, EndOfTerminal, TypeOKShells, killVars,
       shellEnvVars
<1>4. ASSUME NEW x \in Shells, ReadChunkOfShell(x) PROVE TypeOKShells'
  <2>1. TypeOKRuntime'
    BY <1>k, <1>4 DEF ReadChunkOfShell
  <2>2. outputState' \in [ShellIds -> {"none", "open", "complete"}]
    BY <1>4, EnqueueType DEF ReadChunkOfShell
  <2> QED BY <1>4, <2>1, <2>2 DEF ReadChunkOfShell, TypeOKShells, killVars, shellEnvVars
<1>5. ASSUME NEW x \in Shells, ReapShell(x) \/ MarkShellComplete(x) \/ UnregisterShell(x)
      PROVE  TypeOKShells'
  <2>1. TypeOKRuntime'
    BY <1>k, <1>5 DEF ReapShell, MarkShellComplete, UnregisterShell
  <2>2. CASE ReapShell(x)
    BY <2>1, <2>2 DEF ReapShell, TypeOKShells, killVars, shellEnvVars
  <2>3. CASE MarkShellComplete(x)
    BY <2>1, <2>3 DEF MarkShellComplete, TypeOKShells, killVars, shellEnvVars
  <2>4. CASE UnregisterShell(x)
    BY <2>1, <2>4 DEF UnregisterShell, TypeOKShells, killVars, shellEnvVars
  <2> QED BY <1>5, <2>2, <2>3, <2>4
<1>6. ASSUME NEW x \in Shells, PublishExit(x) PROVE TypeOKShells'
  <2>1. TypeOKRuntime'
    BY <1>k, <1>6 DEF PublishExit
  <2>2. outputState' \in [ShellIds -> {"none", "open", "complete"}]
    BY <1>6, EnqueueType DEF PublishExit
  <2> QED BY <1>6, <2>1, <2>2 DEF PublishExit, TypeOKShells, killVars, shellEnvVars
<1>7. ASSUME NEW x \in Shells, KillShell(x) PROVE TypeOKShells'
  <2>1. TypeOKRuntime'
    BY <1>k, <1>7 DEF KillShell
  <2> QED BY <1>7, <2>1 DEF KillShell, TypeOKShells, shellEnvVars
<1>8. ASSUME NEW k \in ShellIds, DrainShell(k) PROVE TypeOKShells'
  <2>1. TypeOKRuntime'
    BY <1>k, <1>8 DEF DrainShell
  <2> QED BY <1>8, <2>1 DEF DrainShell, TypeOKShells, killVars, shellEnvVars
<1>9. ASSUME NEW g \in Generations, NEW k \in ShellIds, KillRequest(g, k)
     PROVE TypeOKShells'
  <2>1. TypeOKRuntime'
    BY <1>k, <1>9 DEF KillRequest
  <2>2. sessions[<<g, k>>] \in Shells
    BY <1>9 DEF KillRequest, TypeOKShells
  <2> QED BY <1>9, <2>1, <2>2 DEF KillRequest, TypeOKShells, shellEnvVars
<1>10. ASSUME NEW t \in Resetters, SwapShells(t) PROVE TypeOKShells'
  <2>1. TypeOKRuntime'
    BY <1>0, <1>10, RuntimeSteps DEF SwapShells
  <2> QED BY <1>10, <2>1 DEF SwapShells, TypeOKShells, shellVars
<1>11. ASSUME NEW t \in Resetters, ClearShellOutput(t) PROVE TypeOKShells'
  <2>1. TypeOKRuntime'
    BY <1>0, <1>11, RuntimeSteps DEF ClearShellOutput
  <2> QED BY <1>11, <2>1 DEF ClearShellOutput, TypeOKShells, killVars, shellEnvVars
<1>12. ASSUME NEW t \in Resetters, KillAllShells(t) PROVE TypeOKShells'
  <2>1. TypeOKRuntime'
    BY <1>0, <1>12, RuntimeSteps DEF KillAllShells
  <2>2. sessions' \in [Generations \X ShellIds -> Shells \cup {NoShell}]
    BY <1>12 DEF KillAllShells, TypeOKShells
  <2>3. condemned' \subseteq Shells /\ condemned \subseteq condemned'
    BY <1>12 DEF KillAllShells, InMap, TypeOKShells
  <2> QED BY <1>12, <2>1, <2>2, <2>3 DEF KillAllShells, TypeOKShells, shellEnvVars
<1> QED
  BY <1>1, <1>2, <1>3, <1>4, <1>5, <1>6, <1>7, <1>8, <1>9, <1>10, <1>11, <1>12
  DEF NextShells, ShellStep, ExitStep, ShellReset

-----------------------------------------------------------------------------
(* The invariant.                                                          *)

\* It holds when the relay starts.
LEMMA InitInv == InitShells => IInv
<1> SUFFICES ASSUME InitShells PROVE IInv
  OBVIOUS
<1>1. TypeOKShells
  BY InitType
<1> QED BY <1>1, ShellsAssumption
        DEF InitShells, IInv, EntriesAreOpen, UnregisteredOnlyAfterKill, Active

\* Steps that touch neither a map nor the choice of a session_id, and move a
\* session at most from one place to a later one before its end.
Quiet ==
  /\ UNCHANGED <<shellId, shellGen, sessions, condemned>>
  /\ \A x \in Shells : /\ Active(x)' <=> Active(x)
                       /\ Started(x)' <=> Started(x)
                       /\ shellAt[x] = "gone" => shellAt'[x] = "gone"

\* They keep the invariant.
LEMMA QuietKeeps ==
  ASSUME IInv, Quiet, TypeOKShells'
  PROVE  IInv'
<1>1. UNCHANGED <<shellId, shellGen, sessions, condemned>>
  BY DEF Quiet
<1>2. \A x \in Shells : PlaceOf(x)' = PlaceOf(x) /\ (Registered(x)' <=> Registered(x))
  BY <1>1 DEF Quiet, PlaceOf, Registered
<1>3. EntriesAreOpen'
  BY <1>1, <1>2 DEF IInv, Quiet, EntriesAreOpen, Active
<1>4. UnregisteredOnlyAfterKill'
  BY <1>1, <1>2 DEF IInv, Quiet, UnregisteredOnlyAfterKill, SameId, Gone
<1> QED BY <1>3, <1>4 DEF IInv

\* Which steps these are.
LEMMA QuietSteps ==
  ASSUME TypeOKShells,
         \/ \E x \in Shells : \/ ShellEnds(x) \/ JobEnds(x) \/ EndOfTerminal(x)
                              \/ ReadChunkOfShell(x) \/ KillShell(x)
                              \/ ReapShell(x) \/ MarkShellComplete(x) \/ PublishExit(x)
         \/ \E k \in ShellIds : DrainShell(k)
         \/ \E t \in Resetters : SwapShells(t) \/ ClearShellOutput(t)
         \/ UNCHANGED <<runtimeVars, shellVars>>
  PROVE  Quiet
<1>1. UNCHANGED <<shellId, shellGen, sessions, condemned>>
  BY DEF ShellEnds, JobEnds, EndOfTerminal, ReadChunkOfShell, KillShell, ReapShell,
         MarkShellComplete, PublishExit, DrainShell, SwapShells, ClearShellOutput,
         shellVars, shellEnvVars, killVars
<1>2. \/ UNCHANGED shellAt
      \/ \E x \in Shells, to \in {"reaped", "marked", "exiting"} :
           Active(x) /\ shellAt' = [shellAt EXCEPT ![x] = to]
  BY DEF ShellEnds, JobEnds, EndOfTerminal, ReadChunkOfShell, KillShell, ReapShell,
         MarkShellComplete, PublishExit, DrainShell, SwapShells, ClearShellOutput,
         shellVars, shellEnvVars, killVars, Active
<1>3. \A x \in Shells : /\ Active(x)' <=> Active(x)
                        /\ Started(x)' <=> Started(x)
                        /\ shellAt[x] = "gone" => shellAt'[x] = "gone"
  BY <1>2 DEF Active, Started, TypeOKShells
<1> QED BY <1>1, <1>3 DEF Quiet

\* The check of shell.create is made by a session that is in no map yet.
LEMMA CheckKeeps ==
  ASSUME IInv, TypeOKShells', NEW x \in Shells, NEW k \in ShellIds, CheckShell(x, k)
  PROVE  IInv'
<1>1. /\ shellAt[x] = "unused"
      /\ shellAt' = [shellAt EXCEPT ![x] = "checked"]
      /\ shellId' = [shellId EXCEPT ![x] = k]
      /\ shellGen' = [shellGen EXCEPT ![x] = generation]
      /\ UNCHANGED <<sessions, condemned>>
  BY DEF CheckShell, killVars
<1>2. ~Active(x) /\ ~Active(x)' /\ ~Started(x) /\ ~Started(x)'
  BY <1>1 DEF Active, Started, IInv, TypeOKShells
<1>3. \A y \in Shells \ {x} : shellAt'[y] = shellAt[y] /\ PlaceOf(y)' = PlaceOf(y)
  BY <1>1 DEF PlaceOf, IInv, TypeOKShells
<1>4. EntriesAreOpen'
  <2> SUFFICES ASSUME NEW g \in Generations, NEW j \in ShellIds, NEW y \in Shells,
                      sessions'[<<g, j>>] = y
               PROVE  PlaceOf(y)' = <<g, j>> /\ Active(y)'
    BY DEF EntriesAreOpen, Active
  <2>1. PlaceOf(y) = <<g, j>> /\ Active(y)
    BY <1>1 DEF IInv, EntriesAreOpen, Active
  <2>2. y # x
    BY <1>2, <2>1
  <2> QED BY <1>3, <2>1, <2>2 DEF Active
<1>5. UnregisteredOnlyAfterKill'
  <2> SUFFICES ASSUME NEW y \in Shells,
       (Active(y) /\ y \notin condemned /\ ~Registered(y))'
               PROVE  \E z \in SameId(y)' : Gone(z)'
    BY DEF UnregisteredOnlyAfterKill
  <2>1. y # x
    BY <1>2
  <2>2. Active(y) /\ y \notin condemned /\ ~Registered(y)
    BY <1>1, <1>3, <2>1 DEF Active, Started, Registered
  <2>3. PICK z \in SameId(y) : Gone(z)
    BY <2>2 DEF IInv, UnregisteredOnlyAfterKill
  <2>4. z \in Shells /\ z # x
    BY <1>1, <2>3 DEF SameId, Gone
  <2>5. z \in SameId(y)'
    BY <1>3, <2>1, <2>3, <2>4 DEF SameId, Started
  <2>6. Gone(z)'
    BY <1>1, <1>3, <2>3, <2>4 DEF Gone
  <2> QED BY <2>5, <2>6
<1> QED BY <1>4, <1>5 DEF IInv

\* Create puts a session under an id that is free, or refuses.
LEMMA CreateKeeps ==
  ASSUME IInv, TypeOKShells', NEW x \in Shells, CreateShell(x)
  PROVE  IInv'
<1>1. /\ shellAt[x] = "checked"
      /\ UNCHANGED <<shellId, shellGen, condemned>>
  BY DEF CreateShell, shellEnvVars, killVars
<1>2. \A y \in Shells : PlaceOf(y)' = PlaceOf(y)
  BY <1>1 DEF PlaceOf
<1>3. ~Active(x) /\ ~Started(x) /\ shellGen[x] \in Generations /\ shellId[x] \in ShellIds
  BY <1>1 DEF Active, Started, IInv, TypeOKShells
<1>4. CASE /\ shellAt' = [shellAt EXCEPT ![x] = "refused"]
           /\ UNCHANGED sessions
  <2>1. \A y \in Shells : /\ Active(y)' <=> Active(y)
                          /\ Started(y)' <=> Started(y)
                          /\ shellAt[y] = "gone" => shellAt'[y] = "gone"
    BY <1>1, <1>4 DEF Active, Started, IInv, TypeOKShells
  <2> QED BY <1>1, <1>4, <2>1, QuietKeeps DEF Quiet
<1>5. CASE /\ MayCreate(x)
           /\ shellAt' = [shellAt EXCEPT ![x] = "open"]
           /\ sessions' = [sessions EXCEPT ![PlaceOf(x)] = x]
  <2>1. sessions[PlaceOf(x)] = NoShell
    BY <1>5 DEF MayCreate
  <2>2. \A g \in Generations, j \in ShellIds :
          sessions'[<<g, j>>] = IF <<g, j>> = PlaceOf(x) THEN x ELSE sessions[<<g, j>>]
    BY <1>5 DEF IInv, TypeOKShells
  <2>3. \A y \in Shells \ {x} : shellAt'[y] = shellAt[y]
    BY <1>5 DEF IInv, TypeOKShells
  <2>4. Active(x)' /\ shellAt'[x] = "open"
    BY <1>5 DEF Active, IInv, TypeOKShells
  <2>5. EntriesAreOpen'
    <3> SUFFICES ASSUME NEW g \in Generations, NEW j \in ShellIds, NEW y \in Shells,
                        sessions'[<<g, j>>] = y
                 PROVE  PlaceOf(y)' = <<g, j>> /\ Active(y)'
      BY DEF EntriesAreOpen, Active
    <3>1. CASE <<g, j>> = PlaceOf(x)
      <4>1. y = x
        BY <2>2, <3>1
      <4> QED BY <1>2, <2>4, <3>1, <4>1
    <3>2. CASE <<g, j>> # PlaceOf(x)
      <4>1. sessions[<<g, j>>] = y
        BY <2>2, <3>2
      <4>2. PlaceOf(y) = <<g, j>> /\ Active(y)
        BY <4>1 DEF IInv, EntriesAreOpen, Active
      <4>3. y # x
        BY <1>3, <4>2
      <4> QED BY <1>2, <2>3, <4>2, <4>3 DEF Active
    <3> QED BY <3>1, <3>2
  <2>6. UnregisteredOnlyAfterKill'
    <3> SUFFICES ASSUME NEW y \in Shells,
         (Active(y) /\ y \notin condemned /\ ~Registered(y))'
                 PROVE  \E z \in SameId(y)' : Gone(z)'
      BY DEF UnregisteredOnlyAfterKill
    <3>1. y # x
      <4>1. PICK g \in Generations, j \in ShellIds : PlaceOf(x) = <<g, j>>
        BY <1>3 DEF PlaceOf
      <4>2. sessions'[PlaceOf(x)'] = x
        BY <1>2, <2>2, <4>1
      <4> QED BY <2>4, <4>2 DEF Registered, Started
    <3>2. Active(y) /\ y \notin condemned
      BY <1>1, <2>3, <3>1 DEF Active
    <3>3. PICK g \in Generations, j \in ShellIds : PlaceOf(y) = <<g, j>>
      BY <3>2 DEF PlaceOf, Active, IInv, TypeOKShells
    <3>4. Started(y) /\ Started(y)'
      BY <2>3, <3>1, <3>2 DEF Active, Started
    <3>5. sessions'[<<g, j>>] # y
      BY <1>2, <3>3, <3>4 DEF Registered
    <3>6. sessions[<<g, j>>] # y
      BY <2>1, <2>2, <3>3, <3>5, ShellsAssumption
    <3>7. PICK z \in SameId(y) : Gone(z)
      BY <3>2, <3>3, <3>6 DEF IInv, UnregisteredOnlyAfterKill, Registered
    <3>8. z \in Shells /\ z # x
      BY <1>1, <3>7 DEF SameId, Gone
    <3>9. z \in SameId(y)'
      BY <1>2, <2>3, <3>7, <3>8 DEF SameId, Started
    <3>10. Gone(z)'
      BY <1>1, <2>3, <3>7, <3>8 DEF Gone
    <3> QED BY <3>9, <3>10
  <2> QED BY <2>5, <2>6 DEF IInv
<1> QED BY <1>4, <1>5 DEF CreateShell

\* The exit callback deletes by session_id: the entry it deletes is its own, or
\* one that was made since it lost its own.  It lost it to a kill, or to the
\* callback of a session that had lost its own to a kill.
LEMMA UnregisterKeeps ==
  ASSUME IInv, TypeOKShells', NEW x \in Shells, UnregisterShell(x)
  PROVE  IInv'
<1>1. /\ shellAt[x] = "exiting"
      /\ shellAt' = [shellAt EXCEPT ![x] = "gone"]
      /\ sessions' = [sessions EXCEPT ![PlaceOf(x)] = NoShell]
      /\ UNCHANGED <<shellId, shellGen, condemned>>
  BY DEF UnregisterShell, shellEnvVars, killVars
<1>2. \A y \in Shells : PlaceOf(y)' = PlaceOf(y) /\ SameId(y)' = SameId(y)
  <2>1. \A y \in Shells : PlaceOf(y)' = PlaceOf(y) /\ (Started(y)' <=> Started(y))
    BY <1>1 DEF PlaceOf, Started, IInv, TypeOKShells
  <2> QED BY <2>1 DEF SameId
<1>3. \A y \in Shells \ {x} : shellAt'[y] = shellAt[y]
  BY <1>1 DEF IInv, TypeOKShells
<1>4. Active(x) /\ ~Active(x)' /\ shellAt'[x] = "gone"
  BY <1>1 DEF Active, IInv, TypeOKShells
<1>5. \A g \in Generations, j \in ShellIds :
        sessions'[<<g, j>>] = IF <<g, j>> = PlaceOf(x) THEN NoShell ELSE sessions[<<g,
             j>>]
  BY <1>1 DEF IInv, TypeOKShells
<1>6. EntriesAreOpen'
  <2> SUFFICES ASSUME NEW g \in Generations, NEW j \in ShellIds, NEW y \in Shells,
                      sessions'[<<g, j>>] = y
               PROVE  PlaceOf(y)' = <<g, j>> /\ Active(y)'
    BY DEF EntriesAreOpen, Active
  <2>1. sessions[<<g, j>>] = y /\ <<g, j>> # PlaceOf(x)
    BY <1>5, ShellsAssumption
  <2>2. PlaceOf(y) = <<g, j>> /\ Active(y)
    BY <2>1 DEF IInv, EntriesAreOpen, Active
  <2> QED BY <1>2, <1>3, <2>1, <2>2 DEF Active
<1>7. UnregisteredOnlyAfterKill'
  <2> SUFFICES ASSUME NEW y \in Shells,
       (Active(y) /\ y \notin condemned /\ ~Registered(y))'
               PROVE  \E z \in SameId(y) : Gone(z)'
    BY <1>2 DEF UnregisteredOnlyAfterKill
  <2>1. y # x /\ Active(y) /\ y \notin condemned /\ Started(y)
    BY <1>1, <1>3, <1>4 DEF Active, Started
  <2>2. \A z \in Shells : Gone(z) => Gone(z)'
    BY <1>1, <1>3 DEF Gone
  <2>3. CASE ~Registered(y)
    BY <2>1, <2>2, <2>3 DEF IInv, UnregisteredOnlyAfterKill, SameId
  <2>4. CASE Registered(y)
    <3>1. PICK g \in Generations, j \in ShellIds : PlaceOf(y) = <<g, j>>
      BY <2>1 DEF PlaceOf, Active, IInv, TypeOKShells
    <3>2. Started(y)'
      BY <1>3, <2>1 DEF Started
    <3>3. PlaceOf(y) = PlaceOf(x)
      BY <1>2, <1>5, <2>4, <3>1, <3>2 DEF Registered
    <3>4. x \in SameId(y) /\ y \in SameId(x)
      BY <2>1, <1>4, <3>3 DEF SameId, Started, Active
    <3>5. ~Registered(x)
      BY <2>1, <2>4, <3>3 DEF Registered
    <3>6. CASE x \in condemned
      BY <1>1, <1>4, <3>4, <3>6 DEF Gone
    <3>7. CASE x \notin condemned
      <4>1. PICK z \in SameId(x) : Gone(z)
        BY <1>4, <3>5, <3>7 DEF IInv, UnregisteredOnlyAfterKill
      <4>2. z # y
        BY <2>1, <4>1 DEF Gone
      <4>3. z \in SameId(y)
        BY <3>3, <4>1, <4>2 DEF SameId
      <4>4. Gone(z)'
        BY <2>2, <4>1 DEF SameId
      <4> QED BY <4>3, <4>4
    <3> QED BY <3>6, <3>7
  <2> QED BY <2>3, <2>4
<1> QED BY <1>6, <1>7 DEF IInv

\* A kill takes out the sessions that it then kills.
LEMMA KillsKeep ==
  ASSUME IInv, TypeOKShells',
         \/ \E g \in Generations, k \in ShellIds : KillRequest(g, k)
         \/ \E t \in Resetters : KillAllShells(t)
  PROVE  IInv'
<1>1. UNCHANGED <<shellAt, shellId, shellGen>>
  BY DEF KillRequest, KillAllShells, shellEnvVars
<1> DEFINE OnlyCondemned ==
      \A g \in Generations, j \in ShellIds :
        \/ sessions'[<<g, j>>] = sessions[<<g, j>>]
        \/ sessions'[<<g, j>>] = NoShell /\ sessions[<<g,
             j>>] \in condemned' \cup {NoShell}
<1>2. condemned \subseteq condemned' /\ OnlyCondemned
  <2>1. ASSUME NEW g \in Generations, NEW k \in ShellIds, KillRequest(g, k)
        PROVE  condemned \subseteq condemned' /\ OnlyCondemned
    BY <2>1 DEF KillRequest, IInv, TypeOKShells
  <2>2. ASSUME NEW t \in Resetters, KillAllShells(t)
        PROVE  condemned \subseteq condemned' /\ OnlyCondemned
    BY <2>2 DEF KillAllShells, InMap, IInv, TypeOKShells
  <2> QED BY <2>1, <2>2
<1>3. \A y \in Shells : /\ PlaceOf(y)' = PlaceOf(y) /\ SameId(y)' = SameId(y)
                        /\ Started(y)' <=> Started(y)
                        /\ Active(y)' <=> Active(y)
                        /\ Gone(y) => Gone(y)'
  BY <1>1, <1>2 DEF PlaceOf, SameId, Started, Active, Gone
<1>4. EntriesAreOpen'
  BY <1>1, <1>2, <1>3, ShellsAssumption DEF IInv, EntriesAreOpen
<1>5. UnregisteredOnlyAfterKill'
  <2> SUFFICES ASSUME NEW y \in Shells,
       (Active(y) /\ y \notin condemned /\ ~Registered(y))'
               PROVE  \E z \in SameId(y) : Gone(z)'
    BY <1>3 DEF UnregisteredOnlyAfterKill
  <2>1. Active(y) /\ y \notin condemned /\ Started(y) /\ Started(y)'
    BY <1>2, <1>3 DEF Active, Started
  <2>2. PICK g \in Generations, j \in ShellIds : PlaceOf(y) = <<g, j>>
    BY <2>1 DEF PlaceOf, Active, IInv, TypeOKShells
  <2>3. sessions'[<<g, j>>] # y
    BY <1>3, <2>1, <2>2 DEF Registered
  <2>4. sessions[<<g, j>>] # y
    BY <1>2, <2>3, ShellsAssumption
  <2>5. PICK z \in SameId(y) : Gone(z)
    BY <2>1, <2>2, <2>4 DEF IInv, UnregisteredOnlyAfterKill, Registered
  <2> QED BY <1>3, <2>5 DEF SameId
<1> QED BY <1>4, <1>5 DEF IInv

\* Every step keeps the invariant.
LEMMA StepInv == IInv /\ [NextShells]_<<runtimeVars, shellVars>> => IInv'
<1> SUFFICES ASSUME IInv, [NextShells]_<<runtimeVars, shellVars>> PROVE IInv'
  OBVIOUS
<1>0. TypeOKShells
  BY DEF IInv
<1>1. CASE UNCHANGED <<runtimeVars, shellVars>>
  <2>1. TypeOKRuntime'
    BY <1>0, <1>1, RuntimeKept DEF TypeOKShells
  <2>2. TypeOKShells'
    BY <1>0, <1>1, <2>1 DEF TypeOKShells, shellVars
  <2> QED BY <1>0, <1>1, <2>2, QuietSteps, QuietKeeps
<1>2. CASE NextShells
  <2>1. TypeOKShells'
    BY <1>0, <1>2, TypePreserved
  <2>2. ASSUME NEW x \in Shells, NEW k \in ShellIds, CheckShell(x, k) PROVE IInv'
    BY <2>1, <2>2, CheckKeeps
  <2>3. ASSUME NEW x \in Shells, CreateShell(x) PROVE IInv'
    BY <2>1, <2>3, CreateKeeps
  <2>4. ASSUME NEW x \in Shells, UnregisterShell(x) PROVE IInv'
    BY <2>1, <2>4, UnregisterKeeps
  <2>5. ASSUME \/ \E g \in Generations, k \in ShellIds : KillRequest(g, k)
               \/ \E t \in Resetters : KillAllShells(t)
        PROVE  IInv'
    BY <2>1, <2>5, KillsKeep
  <2>6. ASSUME \/ \E x \in Shells : \/ ShellEnds(x) \/ JobEnds(x) \/ EndOfTerminal(x)
                                    \/ ReadChunkOfShell(x) \/ KillShell(x)
                                    \/ ReapShell(x) \/ MarkShellComplete(x)
                                         \/ PublishExit(x)
               \/ \E k \in ShellIds : DrainShell(k)
               \/ \E t \in Resetters : SwapShells(t) \/ ClearShellOutput(t)
        PROVE  IInv'
    BY <1>0, <2>1, <2>6, QuietSteps, QuietKeeps
  <2> QED BY <1>2, <2>2, <2>3, <2>4, <2>5, <2>6 DEF NextShells, ShellStep, ExitStep,
       ShellReset
<1> QED BY <1>1, <1>2

\* So it always holds.
LEMMA SpecInv == SpecShells => []IInv
<1> QED BY InitInv, StepInv, PTL DEF SpecShells

-----------------------------------------------------------------------------
(* The sessions.                                                           *)

\* Every variable of the sessions keeps its type, in any number of sessions.
THEOREM ShellsTypeCorrect == SpecShells => []TypeOKShells
<1>1. IInv => TypeOKShells
  BY DEF IInv
<1> QED BY <1>1, SpecInv, PTL

\* The sessions map of a shell multiplexer (multiplexer.go) names only sessions
\* whose exit callback has not ended, each under its own session_id; and a
\* shell that runs is in it, unless it was killed, or an earlier session of its
\* session_id was: for any number of sessions, ids, kills and resets.
THEOREM MapOfShellsIsRight == SpecShells => []MapIsRight
<1>1. IInv => MapIsRight
  BY DEF IInv, MapIsRight, UnregisteredOnlyAfterKill, UnreachableOnlyAfterKill, Active,
       Gone
<1> QED BY <1>1, SpecInv, PTL

-----------------------------------------------------------------------------
(* shell.exec: sequences.                                                  *)

\* What an appended sequence holds.
LEMMA ContainsAppend ==
  ASSUME NEW S, NEW s \in Seq(S), NEW a \in S, NEW b
  PROVE  Contains(Append(s, a), b) <=> Contains(s, b) \/ b = a
<1> DEFINE t == Append(s, a)
<1>1. t \in Seq(S) /\ Len(t) = Len(s) + 1 /\ t[Len(s) + 1] = a
  OBVIOUS
<1>2. \A i \in 1 .. Len(s) : t[i] = s[i]
  OBVIOUS
<1>3. ASSUME NEW i \in 1 .. Len(t), t[i] = b PROVE Contains(s, b) \/ b = a
  <2>1. i \in 1 .. Len(s) \/ i = Len(s) + 1
    BY <1>1
  <2> QED BY <2>1, <1>1, <1>2, <1>3 DEF Contains
<1>4. ASSUME NEW i \in 1 .. Len(s), s[i] = b PROVE Contains(t, b)
  <2>1. i \in 1 .. Len(t) /\ t[i] = b
    BY <1>1, <1>2, <1>4
  <2> QED BY <2>1 DEF Contains
<1>5. ASSUME b = a PROVE Contains(t, b)
  <2>1. Len(s) + 1 \in 1 .. Len(t) /\ t[Len(s) + 1] = b
    BY <1>1, <1>5
  <2> QED BY <2>1 DEF Contains
<1> QED BY <1>3, <1>4, <1>5 DEF Contains

\* What the concatenation of two sequences holds.
LEMMA ContainsConcat ==
  ASSUME NEW S, NEW s \in Seq(S), NEW r \in Seq(S), NEW b
  PROVE  Contains(s \o r, b) <=> Contains(s, b) \/ Contains(r, b)
<1> DEFINE t == s \o r
<1>1. t \in Seq(S) /\ Len(t) = Len(s) + Len(r)
  OBVIOUS
<1>2. \A i \in 1 .. Len(s) : t[i] = s[i]
  OBVIOUS
<1>3. \A i \in 1 .. Len(t) : i > Len(s) => t[i] = r[i - Len(s)]
  OBVIOUS
<1>4. ASSUME NEW i \in 1 .. Len(t), t[i] = b PROVE Contains(s, b) \/ Contains(r, b)
  <2>1. CASE i \in 1 .. Len(s)
    BY <2>1, <1>2, <1>4 DEF Contains
  <2>2. CASE i > Len(s)
    <3>1. i - Len(s) \in 1 .. Len(r) /\ r[i - Len(s)] = b
      BY <2>2, <1>1, <1>3, <1>4
    <3> QED BY <3>1 DEF Contains
  <2> QED BY <2>1, <2>2
<1>5. ASSUME NEW i \in 1 .. Len(s), s[i] = b PROVE Contains(t, b)
  <2>1. i \in 1 .. Len(t) /\ t[i] = b
    BY <1>1, <1>2, <1>5
  <2> QED BY <2>1 DEF Contains
<1>6. ASSUME NEW i \in 1 .. Len(r), r[i] = b PROVE Contains(t, b)
  <2>1. i + Len(s) \in 1 .. Len(t) /\ i + Len(s) > Len(s) /\ (i + Len(s)) - Len(s) = i
    BY <1>1
  <2>2. t[i + Len(s)] = b
    BY <2>1, <1>3, <1>6
  <2> QED BY <2>1, <2>2 DEF Contains
<1> QED BY <1>4, <1>5, <1>6 DEF Contains

\* A sequence cut in two holds in its parts what it held.
LEMMA ContainsCut ==
  ASSUME NEW S, NEW s \in Seq(S), NEW n \in 1 .. Len(s), NEW b
  PROVE  /\ Contains(SubSeq(s, 1, n), b) => Contains(s, b)
         /\ Contains(SubSeq(s, n + 1, Len(s)), b) => Contains(s, b)
<1> DEFINE p == SubSeq(s, 1, n)
           r == SubSeq(s, n + 1, Len(s))
<1>1. Len(p) = n /\ \A i \in 1 .. n : p[i] = s[i]
  OBVIOUS
<1>2. Len(r) = Len(s) - n /\ \A i \in 1 .. Len(s) - n : r[i] = s[i + n]
  OBVIOUS
<1>3. ASSUME NEW i \in 1 .. Len(p), p[i] = b PROVE Contains(s, b)
  <2>1. i \in 1 .. Len(s) /\ s[i] = b
    BY <1>1, <1>3
  <2> QED BY <2>1 DEF Contains
<1>4. ASSUME NEW i \in 1 .. Len(r), r[i] = b PROVE Contains(s, b)
  <2>1. i + n \in 1 .. Len(s) /\ s[i + n] = b
    BY <1>2, <1>4
  <2> QED BY <2>1 DEF Contains
<1> QED BY <1>3, <1>4 DEF Contains

\* No b comes after an a.
Behind(s, a, b) == \A i, j \in 1 .. Len(s) : i < j /\ s[i] = a => s[j] # b

\* What may be appended behind an a.
LEMMA BehindAppend ==
  ASSUME NEW S, NEW s \in Seq(S), NEW z \in S, NEW a, NEW b,
         Behind(s, a, b), z = b => ~Contains(s, a)
  PROVE  Behind(Append(s, z), a, b)
<1> DEFINE t == Append(s, z)
<1>1. Len(t) = Len(s) + 1 /\ t[Len(s) + 1] = z /\ \A i \in 1 .. Len(s) : t[i] = s[i]
  OBVIOUS
<1> SUFFICES ASSUME NEW i \in 1 .. Len(t), NEW j \in 1 .. Len(t), i < j, t[i] = a
             PROVE  t[j] # b
  BY DEF Behind
<1>2. i \in 1 .. Len(s) /\ s[i] = a
  BY <1>1
<1>3. Contains(s, a)
  BY <1>2 DEF Contains
<1>4. CASE j \in 1 .. Len(s)
  BY <1>4, <1>2, <1>1 DEF Behind
<1>5. CASE j = Len(s) + 1
  BY <1>5, <1>3, <1>1
<1> QED BY <1>4, <1>5, <1>1

\* A cut keeps the order, also between its two parts.
LEMMA BehindCut ==
  ASSUME NEW S, NEW s \in Seq(S), NEW n \in 1 .. Len(s), NEW a, NEW b, Behind(s, a, b)
  PROVE  /\ Behind(SubSeq(s, n + 1, Len(s)), a, b)
         /\ Contains(SubSeq(s, 1, n), a) => ~Contains(SubSeq(s, n + 1, Len(s)), b)
<1> DEFINE p == SubSeq(s, 1, n)
           r == SubSeq(s, n + 1, Len(s))
<1>1. Len(p) = n /\ \A i \in 1 .. n : p[i] = s[i]
  OBVIOUS
<1>2. Len(r) = Len(s) - n /\ \A i \in 1 .. Len(s) - n : r[i] = s[i + n]
  OBVIOUS
<1>3. ASSUME NEW i \in 1 .. Len(r), NEW j \in 1 .. Len(r), i < j, r[i] = a PROVE r[j] # b
  <2>1. i + n \in 1 .. Len(s) /\ j + n \in 1 .. Len(s) /\ i + n < j + n /\ s[i + n] = a
    BY <1>2, <1>3
  <2>2. s[j + n] # b
    BY <2>1 DEF Behind
  <2> QED BY <2>2, <1>2
<1>4. ASSUME NEW i \in 1 .. Len(p), NEW j \in 1 .. Len(r), p[i] = a, r[j] = b PROVE FALSE
  <2>1. i \in 1 .. Len(s) /\ j + n \in 1 .. Len(s) /\ i < j + n /\ s[i] = a /\ s[j + n] = b
    BY <1>1, <1>2, <1>4
  <2> QED BY <2>1 DEF Behind
<1> QED BY <1>3, <1>4 DEF Behind, Contains

-----------------------------------------------------------------------------
(* Types.                                                                  *)

\* A request has the session that Get returned.
Called == \A e \in Execs : execAt[e] # "unused" => execOn[e] \in Terminals

\* TypeOKExec is inductive by itself.
LEMMA InitExecType == InitExec => TypeOKExec
BY ExecAssumption DEF InitExec, TypeOKExec, Results

\* What a buffer says is one of the results.
LEMMA ParsedType == ASSUME NEW e \in Execs, NEW b PROVE Parsed(e, b) \in Results
BY DEF Parsed, Results

\* Every step of shell.exec keeps the types.
LEMMA ExecTypeStep ==
  ASSUME TypeOKExec, Called, NextExec
  PROVE  TypeOKExec'
<1> USE DEF sessionVars, terminalVars, Goto
<1>1. ASSUME NEW x \in Terminals, OpenTerminal(x) PROVE TypeOKExec'
  BY <1>1 DEF OpenTerminal, TypeOKExec
<1>2. ASSUME NEW x \in Terminals, KillTerminal(x) PROVE TypeOKExec'
  BY <1>2, ExecAssumption DEF KillTerminal, TypeOKExec
<1>3. ASSUME NEW x \in Terminals, CommandOutput(x) PROVE TypeOKExec'
  <2>1. typed[x] \in Seq(Execs) /\ typed[x] # <<>>
    BY <1>3 DEF CommandOutput, TypeOKExec
  <2>2. <<"output", Head(typed[x])>> \in TerminalTokens
    BY <2>1 DEF TerminalTokens
  <2> QED BY <1>3, <2>2 DEF CommandOutput, TypeOKExec
<1>4. ASSUME NEW x \in Terminals, CommandEnds(x) PROVE TypeOKExec'
  <2>1. typed[x] \in Seq(Execs) /\ typed[x] # <<>>
    BY <1>4 DEF CommandEnds, TypeOKExec
  <2>2. Head(typed[x]) \in Execs /\ Tail(typed[x]) \in Seq(Execs)
    BY <2>1
  <2>3. <<<<"sentinel", Head(typed[x])>>, <<"code", Head(typed[x])>>>> \in Seq(TerminalTokens)
    BY <2>2 DEF TerminalTokens
  <2>4. screen' \in [Terminals -> Seq(TerminalTokens)]
    BY <1>4, <2>3 DEF CommandEnds, TypeOKExec
  <2>5. typed' \in [Terminals -> Seq(Execs)] /\ finished' \subseteq Execs
    BY <1>4, <2>2 DEF CommandEnds, TypeOKExec
  <2> QED BY <1>4, <2>4, <2>5 DEF CommandEnds, TypeOKExec
<1>5. ASSUME NEW x \in Terminals, ReadScreen(x) PROVE TypeOKExec'
  <2>1. PICK n \in 1 .. Len(screen[x]) :
          /\ reader' = [reader EXCEPT ![x] =
               IF execResult[x] = NoExec THEN <<>> ELSE SubSeq(screen[x], 1, n)]
          /\ screen' = [screen EXCEPT ![x] = SubSeq(@, n + 1, Len(@))]
    BY <1>5 DEF ReadScreen
  <2>2. screen[x] \in Seq(TerminalTokens)
    BY DEF TypeOKExec
  <2>3. /\ SubSeq(screen[x], 1, n) \in Seq(TerminalTokens)
        /\ SubSeq(screen[x], n + 1, Len(screen[x])) \in Seq(TerminalTokens)
    BY <2>2
  <2>4. /\ screen' \in [Terminals -> Seq(TerminalTokens)]
        /\ reader' \in [Terminals -> Seq(TerminalTokens)]
    BY <2>1, <2>3 DEF TypeOKExec
  <2> QED BY <1>5, <2>4 DEF ReadScreen, TypeOKExec
<1>6. ASSUME NEW x \in Terminals, HandleExecOutput(x) PROVE TypeOKExec'
  <2>1. reader' \in [Terminals -> Seq(TerminalTokens)]
    BY <1>6 DEF HandleExecOutput, TypeOKExec
  <2>2. buffer' \in [Execs -> Seq(TerminalTokens)] /\ result' \in [Execs -> Results]
    <3>1. CASE execBuffer = NoExec
      BY <1>6, <3>1 DEF HandleExecOutput, TypeOKExec
    <3>2. CASE execBuffer # NoExec
      <4>1. execBuffer \in Execs
        BY <3>2 DEF TypeOKExec
      <4>2. Parsed(execBuffer, buffer[execBuffer] \o reader[x]) \in Results
        BY <4>1, ParsedType
      <4>3. buffer[execBuffer] \o reader[x] \in Seq(TerminalTokens)
        BY <4>1 DEF TypeOKExec
      <4> QED BY <1>6, <3>2, <4>1, <4>2, <4>3 DEF HandleExecOutput, TypeOKExec
    <3> QED BY <3>1, <3>2
  <2> QED BY <1>6, <2>1, <2>2 DEF HandleExecOutput, TypeOKExec
<1>7. ASSUME NEW e \in Execs, CallExec(e) PROVE TypeOKExec'
  BY <1>7 DEF CallExec, TypeOKExec
<1>8. ASSUME NEW e \in Execs, Arm(e) PROVE TypeOKExec'
  BY <1>8 DEF Arm, TypeOKExec
<1>9. ASSUME NEW e \in Execs, StoreBuffer(e) PROVE TypeOKExec'
  BY <1>9 DEF StoreBuffer, TypeOKExec
<1>10. ASSUME NEW e \in Execs, TypeCommand(e) PROVE TypeOKExec'
  <2>1. <<"echo", e>> \in TerminalTokens
    BY DEF TerminalTokens
  <2> DEFINE x == execOn[e]
  <2>x. x \in Terminals
    BY <1>10 DEF TypeCommand, Called
  <2>2. typed' \in [Terminals -> Seq(Execs)]
    <3>1. Append(typed[x], e) \in Seq(Execs)
      BY <2>x DEF TypeOKExec
    <3>2. typed' = typed \/ typed' = [typed EXCEPT ![x] = Append(typed[x], e)]
      BY <1>10 DEF TypeCommand
    <3> QED BY <3>1, <3>2 DEF TypeOKExec
  <2>3. screen' \in [Terminals -> Seq(TerminalTokens)]
    <3>1. Append(screen[x], <<"echo", e>>) \in Seq(TerminalTokens)
      BY <2>x, <2>1 DEF TypeOKExec
    <3>2. \/ screen' = screen
          \/ screen' = [screen EXCEPT ![x] = Append(screen[x], <<"echo", e>>)]
          \/ screen' = [screen EXCEPT ![x] = screen[x]]
      BY <1>10 DEF TypeCommand
    <3> QED BY <2>x, <3>1, <3>2 DEF TypeOKExec
  <2>4. /\ execAt' \in [Execs -> {"unused", "locking", "armed", "stored", "waiting",
                                   "disarming", "leaving", "answered"}]
        /\ execReply' \in [Execs -> {"none", "right", "zero", "timeout", "error"}]
        /\ \A f \in Execs : (execReply'[f] # "none") <=>
                            (execAt'[f] \in {"disarming", "leaving", "answered"})
    BY <1>10 DEF TypeCommand, TypeOKExec
  <2> QED BY <1>10, <2>2, <2>3, <2>4 DEF TypeCommand, TypeOKExec
<1>11. ASSUME NEW e \in Execs, TakeExecResult(e) PROVE TypeOKExec'
  BY <1>11 DEF TakeExecResult, TypeOKExec, Results
<1>12. ASSUME NEW e \in Execs, TimeOut(e) PROVE TypeOKExec'
  BY <1>12 DEF TimeOut, TypeOKExec
<1>13. ASSUME NEW e \in Execs, Disarm(e) PROVE TypeOKExec'
  BY <1>13 DEF Disarm, TypeOKExec
<1>14. ASSUME NEW e \in Execs, Leave(e) PROVE TypeOKExec'
  BY <1>14 DEF Leave, TypeOKExec
<1> QED BY <1>1, <1>2, <1>3, <1>4, <1>5, <1>6, <1>7, <1>8, <1>9, <1>10, <1>11, <1>12, <1>13,
           <1>14 DEF NextExec, ExecStep

-----------------------------------------------------------------------------
(* The requests among themselves.                                          *)

\* The places of a request that has execMu, and those of one whose line was
\* written or refused.
InExec == {"armed", "stored", "waiting", "disarming", "leaving"}
Sent == {"waiting", "disarming", "leaving", "answered"}

\* execMu is held by the one request that is between Arm and Leave.
Holding ==
  \A e \in Execs, x \in Terminals :
    execMu[x] = e <=> execOn[e] = x /\ execAt[e] \in InExec

\* The entry of execBuffers is of a request that has stored and not deleted it.
BufferOwned ==
  execBuffer # NoExec => execAt[execBuffer] \in {"stored", "waiting", "disarming", "leaving"}

\* BufferLostOnlyToOtherSession from the Store on.
BufferKept ==
  \A e \in Execs : execAt[e] \in {"stored", "waiting"} /\ execBuffer # e =>
    \E f \in Execs \ {e} :
      execOn[f] # execOn[e] /\ execAt[f] \notin {"unused", "locking", "armed"}

Requests == Holding /\ Called /\ BufferOwned /\ BufferKept

\* Requests holds at first.
LEMMA InitRequests == InitExec => Requests
BY ExecAssumption DEF InitExec, Requests, Holding, Called, BufferOwned, BufferKept, InExec

\* Every step keeps who holds execMu and whose the entry of execBuffers is.
LEMMA RequestsStep ==
  ASSUME TypeOKExec, Requests, NextExec
  PROVE  Requests'
<1> DEFINE Kept == UNCHANGED <<execMu, execBuffer, execAt, execOn>>
<1> USE DEF sessionVars, terminalVars, Goto
<1>0. ASSUME Kept PROVE Requests'
  BY <1>0 DEF Requests, Holding, Called, BufferOwned, BufferKept
<1>1. ASSUME NEW x \in Terminals,
             OpenTerminal(x) \/ KillTerminal(x) \/ CommandOutput(x) \/ CommandEnds(x)
             \/ ReadScreen(x) \/ HandleExecOutput(x)
      PROVE  Requests'
  <2>1. Kept
    BY <1>1 DEF OpenTerminal, KillTerminal, CommandOutput, CommandEnds, ReadScreen,
                HandleExecOutput
  <2> QED BY <1>0, <2>1
<1> USE ExecAssumption DEF InExec
<1>2. ASSUME NEW e \in Execs, CallExec(e) PROVE Requests'
  <2>1. Holding' /\ Called'
    BY <1>2 DEF CallExec, Requests, Holding, Called, TypeOKExec
  <2>2. BufferOwned'
    BY <1>2 DEF CallExec, Requests, BufferOwned, TypeOKExec
  <2>3. BufferKept'
    BY <1>2 DEF CallExec, Requests, BufferKept, TypeOKExec
  <2> QED BY <2>1, <2>2, <2>3 DEF Requests
<1>3. ASSUME NEW e \in Execs, Arm(e) PROVE Requests'
  <2>1. Holding' /\ Called'
    BY <1>3 DEF Arm, Requests, Holding, Called, TypeOKExec
  <2>2. BufferOwned'
    BY <1>3 DEF Arm, Requests, BufferOwned, TypeOKExec
  <2>3. BufferKept'
    BY <1>3 DEF Arm, Requests, BufferKept, TypeOKExec
  <2> QED BY <2>1, <2>2, <2>3 DEF Requests
<1>4. ASSUME NEW e \in Execs, StoreBuffer(e) PROVE Requests'
  <2>1. Holding' /\ Called'
    BY <1>4 DEF StoreBuffer, Requests, Holding, Called, TypeOKExec
  <2>2. BufferOwned'
    BY <1>4 DEF StoreBuffer, Requests, BufferOwned, TypeOKExec
  <2>3. BufferKept'
    <3> SUFFICES ASSUME NEW f \in Execs, execAt'[f] \in {"stored", "waiting"}, execBuffer' # f
                 PROVE  \E g \in Execs \ {f} :
                          /\ execOn'[g] # execOn'[f]
                          /\ execAt'[g] \notin {"unused", "locking", "armed"}
      BY DEF BufferKept
    <3>1. f # e /\ execAt[f] \in {"stored", "waiting"} /\ execAt'[e] = "stored"
      BY <1>4 DEF StoreBuffer, TypeOKExec
    <3>2. execMu[execOn[f]] = f /\ execMu[execOn[e]] = e
      BY <1>4, <3>1 DEF StoreBuffer, Requests, Holding, Called
    <3> QED BY <1>4, <3>1, <3>2 DEF StoreBuffer
  <2> QED BY <2>1, <2>2, <2>3 DEF Requests
<1>5. ASSUME NEW e \in Execs,
             TypeCommand(e) \/ TakeExecResult(e) \/ TimeOut(e) \/ Disarm(e)
      PROVE  Requests'
  <2>1. PICK p \in {"waiting", "disarming", "leaving"} : execAt' = [execAt EXCEPT ![e] = p]
    BY <1>5 DEF TypeCommand, TakeExecResult, TimeOut, Disarm
  <2>2. execAt[e] \in {"stored", "waiting", "disarming"} /\ (p = "waiting" => execAt[e] = "stored")
    BY <1>5, <2>1 DEF TypeCommand, TakeExecResult, TimeOut, Disarm, TypeOKExec
  <2>3. UNCHANGED <<execMu, execBuffer, execOn>>
    BY <1>5 DEF TypeCommand, TakeExecResult, TimeOut, Disarm
  <2>4. \A f \in Execs : f # e => execAt'[f] = execAt[f]
    BY <2>1 DEF TypeOKExec
  <2>5. execAt'[e] = p
    BY <2>1 DEF TypeOKExec
  <2>6. Holding' /\ Called'
    BY <2>2, <2>3, <2>4, <2>5 DEF Requests, Holding, Called
  <2>7. BufferOwned'
    BY <2>2, <2>3, <2>4, <2>5 DEF Requests, BufferOwned, TypeOKExec
  <2>8. BufferKept'
    BY <2>2, <2>3, <2>4, <2>5 DEF Requests, BufferKept
  <2> QED BY <2>6, <2>7, <2>8 DEF Requests
<1>7. ASSUME NEW e \in Execs, Leave(e) PROVE Requests'
  <2>1. Holding' /\ Called'
    BY <1>7 DEF Leave, Requests, Holding, Called, TypeOKExec
  <2>2. BufferOwned'
    BY <1>7 DEF Leave, Requests, BufferOwned, TypeOKExec
  <2>3. BufferKept'
    <3> SUFFICES ASSUME NEW f \in Execs, execAt'[f] \in {"stored", "waiting"}
                 PROVE  \E g \in Execs \ {f} :
                          /\ execOn'[g] # execOn'[f]
                          /\ execAt'[g] \notin {"unused", "locking", "armed"}
      BY DEF BufferKept
    <3>1. f # e /\ execAt[f] \in {"stored", "waiting"} /\ execAt'[e] = "answered"
      BY <1>7 DEF Leave, TypeOKExec
    <3>2. execMu[execOn[f]] = f /\ execMu[execOn[e]] = e
      BY <1>7, <3>1 DEF Leave, Requests, Holding, Called
    <3> QED BY <1>7, <3>1, <3>2 DEF Leave
  <2> QED BY <2>1, <2>2, <2>3 DEF Requests
<1> QED BY <1>1, <1>2, <1>3, <1>4, <1>5, <1>7 DEF NextExec, ExecStep

-----------------------------------------------------------------------------
(* What the terminals show.                                                *)

\* A request whose line was written.
WasTyped(f) == execAt[f] \in Sent /\ execReply[f] # "error"

\* A line is written once, to the terminal of its request, and runs once.
TypedOnce ==
  /\ \A x \in Terminals : \A i \in 1 .. Len(typed[x]) :
       /\ execOn[typed[x][i]] = x /\ WasTyped(typed[x][i]) /\ typed[x][i] \notin finished
       /\ \A j \in 1 .. Len(typed[x]) : typed[x][i] = typed[x][j] => i = j
  /\ \A e \in finished : WasTyped(e)

\* A token is of a request whose line was written; a sentinel and a code come
\* when its command is over, an echo from a terminal that echoes.
Honest(t) ==
  /\ WasTyped(t[2])
  /\ t[1] \in {"sentinel", "code"} => t[2] \in finished
  /\ t[1] = "echo" => execOn[t[2]] \in Echoing

ScreenHonest ==
  \A x \in Terminals, t \in TerminalTokens :
    Contains(screen[x], t) => Honest(t) /\ execOn[t[2]] = x

ReaderHonest ==
  \A x \in Terminals, t \in TerminalTokens :
    Contains(reader[x], t) => Honest(t) /\ execOn[t[2]] = x

BufferHonest ==
  \A e \in Execs, t \in TerminalTokens : Contains(buffer[e], t) => Honest(t)

OutputOf(f) == <<"output", f>>
SentinelOf(f) == <<"sentinel", f>>

\* No output of a command comes behind its sentinel: on the screen, between
\* what was read and what is still to be read, and once a buffer has it.
ScreenOrder ==
  \A f \in Execs, x \in Terminals : Behind(screen[x], SentinelOf(f), OutputOf(f))

ReaderOrder ==
  \A f \in Execs, x \in Terminals :
    Contains(reader[x], SentinelOf(f)) => ~Contains(screen[x], OutputOf(f))

BufferOrder ==
  \A f, e \in Execs, x \in Terminals :
    Contains(buffer[e], SentinelOf(f)) =>
      ~Contains(screen[x], OutputOf(f)) /\ ~Contains(reader[x], OutputOf(f))

Shows ==
  /\ TypedOnce /\ ScreenHonest /\ ReaderHonest /\ BufferHonest
  /\ ScreenOrder /\ ReaderOrder /\ BufferOrder

\* Shows holds at first.
LEMMA InitShows == InitExec => Shows
<1> SUFFICES ASSUME InitExec PROVE Shows
  OBVIOUS
<1>1. \A x \in Terminals : typed[x] = <<>> /\ screen[x] = <<>> /\ reader[x] = <<>>
  BY DEF InitExec
<1>2. finished = {} /\ \A e \in Execs : buffer[e] = <<>>
  BY DEF InitExec
<1>3. \A b : ~Contains(<<>>, b)
  BY DEF Contains
<1>4. TypedOnce
  BY <1>1, <1>2 DEF TypedOnce
<1>5. ScreenHonest /\ ReaderHonest /\ BufferHonest
  BY <1>1, <1>2, <1>3 DEF ScreenHonest, ReaderHonest, BufferHonest
<1>6. ScreenOrder
  BY <1>1 DEF ScreenOrder, Behind
<1>7. ReaderOrder /\ BufferOrder
  BY <1>1, <1>2, <1>3 DEF ReaderOrder, BufferOrder
<1> QED BY <1>4, <1>5, <1>6, <1>7 DEF Shows

\* Tokens are known by their two parts.
LEMMA Tokens ==
  ASSUME NEW f \in Execs
  PROVE  /\ \A w \in {"echo", "output", "sentinel", "code"} : <<w, f>> \in TerminalTokens
         /\ OutputOf(f) \in TerminalTokens /\ SentinelOf(f) \in TerminalTokens
         /\ \A g : OutputOf(f) # SentinelOf(g)
BY DEF TerminalTokens, OutputOf, SentinelOf

\* A line that was written stays so, and a request keeps its session.
LEMMA TypedStays ==
  ASSUME TypeOKExec, NextExec, NEW f \in Execs, WasTyped(f)
  PROVE  WasTyped(f)' /\ execOn'[f] = execOn[f]
<1> USE DEF WasTyped, Sent, Goto, sessionVars, terminalVars
<1>1. ASSUME NEW x \in Terminals,
             OpenTerminal(x) \/ KillTerminal(x) \/ CommandOutput(x) \/ CommandEnds(x)
             \/ ReadScreen(x) \/ HandleExecOutput(x)
      PROVE  WasTyped(f)' /\ execOn'[f] = execOn[f]
  BY <1>1 DEF OpenTerminal, KillTerminal, CommandOutput, CommandEnds, ReadScreen,
              HandleExecOutput
<1>2. ASSUME NEW e \in Execs, CallExec(e) PROVE WasTyped(f)' /\ execOn'[f] = execOn[f]
  BY <1>2 DEF CallExec, TypeOKExec
<1>3. ASSUME NEW e \in Execs, Arm(e) \/ StoreBuffer(e) \/ Disarm(e) \/ Leave(e)
      PROVE  WasTyped(f)' /\ execOn'[f] = execOn[f]
  BY <1>3 DEF Arm, StoreBuffer, Disarm, Leave, TypeOKExec
<1>4. ASSUME NEW e \in Execs, TakeExecResult(e) \/ TimeOut(e)
      PROVE  WasTyped(f)' /\ execOn'[f] = execOn[f]
  BY <1>4 DEF TakeExecResult, TimeOut, TypeOKExec, Results
<1>5. ASSUME NEW e \in Execs, TypeCommand(e) PROVE WasTyped(f)' /\ execOn'[f] = execOn[f]
  <2>1. execAt[e] = "stored"
    BY <1>5 DEF TypeCommand
  <2>2. execAt'[f] = execAt[f] /\ execReply'[f] = execReply[f] /\ execOn' = execOn
    BY <1>5, <2>1 DEF TypeCommand, TypeOKExec
  <2> QED BY <2>2
<1> QED BY <1>1, <1>2, <1>3, <1>4, <1>5 DEF NextExec, ExecStep

\* A command that is over stays so.
LEMMA FinishedStays ==
  ASSUME NextExec
  PROVE  finished \subseteq finished'
BY DEF NextExec, ExecStep, OpenTerminal, KillTerminal, CommandOutput, CommandEnds, ReadScreen,
       HandleExecOutput, CallExec, Arm, StoreBuffer, TypeCommand, TakeExecResult, TimeOut,
       Disarm, Leave, terminalVars

\* A token that was honest stays so.
LEMMA HonestStays ==
  ASSUME TypeOKExec, NextExec, NEW t \in TerminalTokens, Honest(t)
  PROVE  Honest(t)' /\ execOn'[t[2]] = execOn[t[2]]
<1>1. t[2] \in Execs
  BY DEF TerminalTokens
<1>2. PICK f \in Execs : f = t[2]
  BY <1>1
<1>3. WasTyped(f) /\ (t[1] \in {"sentinel", "code"} => f \in finished)
      /\ (t[1] = "echo" => execOn[f] \in Echoing)
  BY <1>2 DEF Honest
<1>4. WasTyped(f)' /\ execOn'[f] = execOn[f] /\ finished \subseteq finished'
  BY <1>3, TypedStays, FinishedStays
<1> QED BY <1>2, <1>3, <1>4 DEF Honest

\* The command at the head of what is typed.
LEMMA HeadTyped ==
  ASSUME TypeOKExec, TypedOnce, NEW x \in Terminals, typed[x] # <<>>
  PROVE  /\ Head(typed[x]) \in Execs /\ Head(typed[x]) \notin finished
         /\ execOn[Head(typed[x])] = x /\ WasTyped(Head(typed[x]))
<1>1. typed[x] \in Seq(Execs)
  BY DEF TypeOKExec
<1>2. Head(typed[x]) = typed[x][1] /\ 1 \in 1 .. Len(typed[x]) /\ Head(typed[x]) \in Execs
  BY <1>1
<1> QED BY <1>2 DEF TypedOnce

\* What was typed keeps its part when no line is written and no command ends.
LEMMA TypedKept ==
  ASSUME TypeOKExec, NextExec, TypedOnce, UNCHANGED <<typed, finished>>
  PROVE  TypedOnce'
<1>1. ASSUME NEW x \in Terminals, NEW i \in 1 .. Len(typed[x])
      PROVE  /\ execOn'[typed[x][i]] = x /\ WasTyped(typed[x][i])'
             /\ typed[x][i] \notin finished
             /\ \A j \in 1 .. Len(typed[x]) : typed[x][i] = typed[x][j] => i = j
  <2>1. typed[x][i] \in Execs
    BY DEF TypeOKExec
  <2>2. PICK f \in Execs : f = typed[x][i]
    BY <2>1
  <2>3. WasTyped(f) /\ execOn[f] = x
    BY <2>2 DEF TypedOnce
  <2>4. WasTyped(f)' /\ execOn'[f] = execOn[f]
    BY <2>3, TypedStays
  <2>5. typed[x][i] = f /\ typed'[x][i] = f
    BY <2>2
  <2> QED BY <2>3, <2>4, <2>5 DEF TypedOnce, WasTyped
<1>2. ASSUME NEW e \in finished PROVE WasTyped(e)'
  <2>1. e \in Execs /\ WasTyped(e)
    BY DEF TypeOKExec, TypedOnce
  <2> QED BY <2>1, TypedStays
<1> QED BY <1>1, <1>2 DEF TypedOnce, WasTyped

\* So does each place of tokens when it gets none.
LEMMA TokensKept ==
  ASSUME TypeOKExec, NextExec
  PROVE  /\ ScreenHonest /\ UNCHANGED screen => ScreenHonest'
         /\ ReaderHonest /\ UNCHANGED reader => ReaderHonest'
         /\ BufferHonest /\ UNCHANGED buffer => BufferHonest'
<1>1. ASSUME NEW t \in TerminalTokens, Honest(t)
      PROVE  Honest(t)' /\ execOn'[t[2]] = execOn[t[2]]
  BY <1>1, HonestStays
<1>2. ASSUME ScreenHonest, UNCHANGED screen PROVE ScreenHonest'
  BY <1>1, <1>2 DEF ScreenHonest
<1>3. ASSUME ReaderHonest, UNCHANGED reader PROVE ReaderHonest'
  BY <1>1, <1>3 DEF ReaderHonest
<1>4. ASSUME BufferHonest, UNCHANGED buffer PROVE BufferHonest'
  BY <1>1, <1>4 DEF BufferHonest
<1> QED BY <1>2, <1>3, <1>4

\* A step that shows, reads and types nothing.
LEMMA ShowsKept ==
  ASSUME TypeOKExec, NextExec, Shows, UNCHANGED <<typed, finished, screen, reader, buffer>>
  PROVE  Shows'
<1>1. TypedOnce'
  BY TypedKept DEF Shows
<1>2. ScreenHonest' /\ ReaderHonest' /\ BufferHonest'
  BY TokensKept DEF Shows
<1>3. ScreenOrder' /\ ReaderOrder' /\ BufferOrder'
  BY DEF Shows, ScreenOrder, ReaderOrder, BufferOrder
<1> QED BY <1>1, <1>2, <1>3 DEF Shows

\* One token more on a screen: it is honest, and no output behind a sentinel.
LEMMA ShowsMore ==
  ASSUME TypeOKExec, NextExec, Shows, NEW x \in Terminals, NEW t \in TerminalTokens,
         screen' = [screen EXCEPT ![x] = Append(screen[x], t)],
         UNCHANGED <<reader, buffer>>, Honest(t)', execOn'[t[2]] = x,
         \A f \in Execs : t = OutputOf(f) => f \notin finished
  PROVE  /\ ScreenHonest' /\ ReaderHonest' /\ BufferHonest'
         /\ ScreenOrder' /\ ReaderOrder' /\ BufferOrder'
<1>0. screen[x] \in Seq(TerminalTokens)
  BY DEF TypeOKExec
<1>1. \A y \in Terminals : \A u :
        Contains(screen'[y], u) => Contains(screen[y], u) \/ (y = x /\ u = t)
  BY <1>0, ContainsAppend DEF TypeOKExec
<1>2. ReaderHonest' /\ BufferHonest'
  BY TokensKept DEF Shows
<1>3. ScreenHonest'
  <2>1. ASSUME NEW y \in Terminals, NEW u \in TerminalTokens, Contains(screen'[y], u)
        PROVE  Honest(u)' /\ execOn'[u[2]] = y
    <3>1. CASE Contains(screen[y], u)
      <4>1. Honest(u) /\ execOn[u[2]] = y
        BY <3>1 DEF Shows, ScreenHonest
      <4> QED BY <4>1, HonestStays
    <3>2. CASE y = x /\ u = t
      BY <3>2
    <3> QED BY <1>1, <2>1, <3>1, <3>2
  <2> QED BY <2>1 DEF ScreenHonest
<1>4. ASSUME NEW f \in Execs, t = OutputOf(f)
      PROVE  /\ \A y \in Terminals : ~Contains(screen[y], SentinelOf(f))
             /\ \A y \in Terminals : ~Contains(reader[y], SentinelOf(f))
             /\ \A e \in Execs : ~Contains(buffer[e], SentinelOf(f))
  <2>1. ~Honest(SentinelOf(f))
    BY <1>4 DEF Honest, SentinelOf
  <2> QED BY <2>1, Tokens DEF Shows, ScreenHonest, ReaderHonest, BufferHonest
<1>5. ScreenOrder'
  <2>1. ASSUME NEW f \in Execs, NEW y \in Terminals
        PROVE  Behind(screen'[y], SentinelOf(f), OutputOf(f))
    <3>1. Behind(screen[y], SentinelOf(f), OutputOf(f))
      BY DEF Shows, ScreenOrder
    <3>2. CASE y = x
      <4>1. t = OutputOf(f) => ~Contains(screen[x], SentinelOf(f))
        BY <1>4
      <4>2. screen'[y] = Append(screen[x], t)
        BY <3>2 DEF TypeOKExec
      <4> QED BY <1>0, <3>1, <3>2, <4>1, <4>2, BehindAppend
    <3>3. CASE y # x
      BY <3>1, <3>3 DEF TypeOKExec
    <3> QED BY <3>2, <3>3
  <2> QED BY <2>1 DEF ScreenOrder, SentinelOf, OutputOf
<1>6. ReaderOrder'
  <2>1. ASSUME NEW f \in Execs, NEW y \in Terminals, Contains(reader[y], SentinelOf(f)),
               Contains(screen'[y], OutputOf(f))
        PROVE  FALSE
    BY <1>1, <1>4, <2>1 DEF Shows, ReaderOrder
  <2> QED BY <2>1 DEF ReaderOrder, SentinelOf, OutputOf
<1>7. BufferOrder'
  <2>1. ASSUME NEW f \in Execs, NEW e \in Execs, NEW y \in Terminals,
               Contains(buffer[e], SentinelOf(f))
        PROVE  ~Contains(screen'[y], OutputOf(f)) /\ ~Contains(reader[y], OutputOf(f))
    BY <1>1, <1>4, <2>1 DEF Shows, BufferOrder
  <2> QED BY <2>1 DEF BufferOrder, SentinelOf, OutputOf
<1> QED BY <1>2, <1>3, <1>5, <1>6, <1>7

\* A command puts its output on the screen, after those typed before it.
LEMMA ShowsOutput ==
  ASSUME TypeOKExec, NextExec, Shows, NEW x \in Terminals, CommandOutput(x)
  PROVE  Shows'
<1>0. typed[x] # <<>>
  BY DEF CommandOutput
<1>1. PICK f \in Execs : f = Head(typed[x])
  BY <1>0, HeadTyped DEF Shows
<1>2. f \notin finished /\ execOn[f] = x /\ WasTyped(f)
  BY <1>0, <1>1, HeadTyped DEF Shows
<1>3. PICK t \in TerminalTokens : t = OutputOf(f)
  BY Tokens
<1>4. UNCHANGED <<typed, finished, reader, buffer, execAt, execOn, execReply>>
      /\ screen' = [screen EXCEPT ![x] = Append(screen[x], t)]
  BY <1>1, <1>3 DEF CommandOutput, OutputOf
<1>5. TypedOnce'
  BY <1>4, TypedKept DEF Shows
<1>6. t[1] = "output" /\ t[2] = f
  BY <1>3 DEF OutputOf
<1>7. Honest(t)' /\ execOn'[t[2]] = x
  BY <1>2, <1>4, <1>6 DEF Honest, WasTyped
<1>8. \A g \in Execs : t = OutputOf(g) => g \notin finished
  BY <1>2, <1>3 DEF OutputOf
<1> QED BY <1>4, <1>5, <1>7, <1>8, ShowsMore DEF Shows

\* A request types its command, the last of those typed.
LEMMA ShowsType ==
  ASSUME TypeOKExec, Called, NextExec, Shows, NEW e \in Execs, TypeCommand(e)
  PROVE  Shows'
<1> DEFINE x == execOn[e]
           t == <<"echo", e>>
<1>1. CASE x \in severed
  <2>1. UNCHANGED <<typed, finished, screen, reader, buffer>>
    BY <1>1 DEF TypeCommand
  <2> QED BY <2>1, ShowsKept
<1>2. CASE x \notin severed
  <2>1. x \in Terminals /\ execAt[e] = "stored"
    BY DEF TypeCommand, Called
  <2>2. ~WasTyped(e)
    BY <2>1 DEF WasTyped, Sent
  <2>3. UNCHANGED <<finished, reader, buffer, execOn, execReply>>
        /\ typed' = [typed EXCEPT ![x] = Append(typed[x], e)]
        /\ execAt' = [execAt EXCEPT ![e] = "waiting"]
    BY <1>2 DEF TypeCommand, Goto
  <2>4. WasTyped(e)' /\ execOn'[e] = x
    BY <2>1, <2>3 DEF WasTyped, Sent, TypeOKExec
  <2>5. TypedOnce'
    <3>1. ASSUME NEW y \in Terminals, NEW i \in 1 .. Len(typed[y])
          PROVE  /\ execOn'[typed[y][i]] = y
                 /\ execAt'[typed[y][i]] \in Sent /\ execReply'[typed[y][i]] # "error"
                 /\ typed[y][i] \notin finished /\ typed[y][i] # e
                 /\ \A j \in 1 .. Len(typed[y]) : typed[y][i] = typed[y][j] => i = j
      <4>1. typed[y][i] \in Execs
        BY DEF TypeOKExec
      <4>2. PICK f \in Execs : f = typed[y][i]
        BY <4>1
      <4>3. WasTyped(f) /\ execOn[f] = y
        BY <4>2 DEF Shows, TypedOnce
      <4>4. WasTyped(f)' /\ execOn'[f] = execOn[f]
        BY <4>3, TypedStays
      <4>5. WasTyped(typed[y][i])
        BY <4>2, <4>3
      <4>6. execAt'[f] \in Sent /\ execReply'[f] # "error"
        BY <4>4 DEF WasTyped
      <4> QED BY <2>2, <4>2, <4>3, <4>4, <4>5, <4>6 DEF Shows, TypedOnce, WasTyped
    <3>2. e \notin finished
      BY <2>2 DEF Shows, TypedOnce
    <3>3. \A f \in finished' : WasTyped(f)'
      BY <2>3, TypedStays DEF Shows, TypedOnce, TypeOKExec
    <3>4. ASSUME NEW y \in Terminals, NEW i \in 1 .. Len(typed'[y])
          PROVE  /\ execOn'[typed'[y][i]] = y
                 /\ execAt'[typed'[y][i]] \in Sent /\ execReply'[typed'[y][i]] # "error"
                 /\ typed'[y][i] \notin finished'
                 /\ \A j \in 1 .. Len(typed'[y]) : typed'[y][i] = typed'[y][j] => i = j
      <4>1. CASE y # x
        BY <2>3, <3>1, <4>1 DEF TypeOKExec, WasTyped
      <4>2. CASE y = x
        <5>1. typed[x] \in Seq(Execs) /\ typed'[y] = Append(typed[x], e)
          BY <2>1, <2>3, <4>2 DEF TypeOKExec
        <5>2. Len(typed'[y]) = Len(typed[x]) + 1 /\ typed'[y][Len(typed[x]) + 1] = e
              /\ \A j \in 1 .. Len(typed[x]) : typed'[y][j] = typed[x][j]
          BY <5>1
        <5>3. \A j \in 1 .. Len(typed'[y]) : j \in 1 .. Len(typed[x]) \/ j = Len(typed[x]) + 1
          BY <5>2
        <5>4. CASE i \in 1 .. Len(typed[x])
          BY <2>1, <2>3, <3>1, <4>2, <5>2, <5>3, <5>4 DEF WasTyped
        <5>5. CASE i = Len(typed[x]) + 1
          BY <2>1, <2>3, <2>4, <3>1, <3>2, <4>2, <5>2, <5>3, <5>5 DEF WasTyped
        <5> QED BY <5>3, <5>4, <5>5
      <4> QED BY <4>1, <4>2
    <3> QED BY <3>3, <3>4 DEF TypedOnce, WasTyped
  <2>6. t \in TerminalTokens /\ t[1] = "echo" /\ t[2] = e
    BY Tokens
  <2>7. CASE x \in Echoing
    <3>1. screen' = [screen EXCEPT ![x] = Append(screen[x], t)]
      BY <1>2, <2>7 DEF TypeCommand
    <3>2. Honest(t)' /\ execOn'[t[2]] = x
      BY <2>4, <2>6, <2>7 DEF Honest, WasTyped
    <3>3. \A f \in Execs : t = OutputOf(f) => f \notin finished
      BY DEF OutputOf
    <3> HIDE DEF t
    <3> QED BY <2>1, <2>3, <2>5, <2>6, <3>1, <3>2, <3>3, ShowsMore DEF Shows
  <2>8. CASE x \notin Echoing
    <3>1. UNCHANGED <<screen, reader, buffer>>
      BY <1>2, <2>1, <2>3, <2>8 DEF TypeCommand, TypeOKExec
    <3>2. ScreenHonest' /\ ReaderHonest' /\ BufferHonest'
      BY <3>1, TokensKept DEF Shows
    <3>3. ScreenOrder' /\ ReaderOrder' /\ BufferOrder'
      BY <3>1 DEF Shows, ScreenOrder, ReaderOrder, BufferOrder
    <3> QED BY <2>5, <3>2, <3>3 DEF Shows
  <2> QED BY <2>7, <2>8
<1> QED BY <1>1, <1>2

\* Two items put at the end are two Appends.
LEMMA AppendTwo ==
  ASSUME NEW S, NEW s \in Seq(S), NEW p \in S, NEW q \in S
  PROVE  s \o <<p, q>> = Append(Append(s, p), q)
OBVIOUS

\* A command ends with its sentinel and its code; the next one is at the head.
LEMMA ShowsEnds ==
  ASSUME TypeOKExec, NextExec, Shows, NEW x \in Terminals, CommandEnds(x)
  PROVE  Shows'
<1>0. typed[x] # <<>>
  BY DEF CommandEnds
<1>1. PICK f \in Execs : f = Head(typed[x])
  BY <1>0, HeadTyped DEF Shows
<1>2. f \notin finished /\ execOn[f] = x /\ WasTyped(f)
  BY <1>0, <1>1, HeadTyped DEF Shows
<1>3. PICK p \in TerminalTokens : p = SentinelOf(f)
  BY Tokens
<1>4. PICK q \in TerminalTokens : q = <<"code", f>>
  BY Tokens
<1>5. screen[x] \in Seq(TerminalTokens) /\ Append(screen[x], p) \in Seq(TerminalTokens)
  BY DEF TypeOKExec
<1>6. /\ screen' = [screen EXCEPT ![x] = Append(Append(screen[x], p), q)]
      /\ finished' = finished \cup {f} /\ typed' = [typed EXCEPT ![x] = Tail(typed[x])]
      /\ UNCHANGED <<reader, buffer, execAt, execOn, execReply>>
  <2>1. screen[x] \o <<p, q>> = Append(Append(screen[x], p), q)
    BY <1>5, AppendTwo
  <2>2. screen' = [screen EXCEPT ![x] = screen[x] \o <<p, q>>]
    BY <1>1, <1>3, <1>4 DEF CommandEnds, SentinelOf
  <2> QED BY <1>1, <2>1, <2>2 DEF CommandEnds
<1>7. \A y \in Terminals : \A u :
        Contains(screen'[y], u) => Contains(screen[y], u) \/ (y = x /\ u \in {p, q})
  <2>1. \A u : Contains(Append(Append(screen[x], p), q), u)
               => Contains(screen[x], u) \/ u \in {p, q}
    <3> TAKE u
    <3>1. Contains(Append(screen[x], p), u) <=> Contains(screen[x], u) \/ u = p
      BY <1>5, ContainsAppend
    <3>2. Contains(Append(Append(screen[x], p), q), u) <=>
            Contains(Append(screen[x], p), u) \/ u = q
      BY <1>5, ContainsAppend
    <3> QED BY <3>1, <3>2
  <2> QED BY <1>6, <2>1 DEF TypeOKExec
<1>8. \A g : p # OutputOf(g) /\ q # OutputOf(g)
  BY <1>3, <1>4 DEF OutputOf, SentinelOf
<1>9. TypedOnce'
  <2>1. ASSUME NEW y \in Terminals, NEW i \in 1 .. Len(typed[y]), typed[y][i] # f
        PROVE  /\ execOn'[typed[y][i]] = y
               /\ execAt'[typed[y][i]] \in Sent /\ execReply'[typed[y][i]] # "error"
               /\ typed[y][i] \notin finished'
               /\ \A j \in 1 .. Len(typed[y]) : typed[y][i] = typed[y][j] => i = j
    BY <1>6, <2>1 DEF Shows, TypedOnce, WasTyped
  <2>2. \A e \in finished' : WasTyped(e)'
    BY <1>2, <1>6 DEF Shows, TypedOnce, WasTyped
  <2>3. typed[x] \in Seq(Execs) /\ 1 \in 1 .. Len(typed[x]) /\ typed[x][1] = f
    BY <1>0, <1>1 DEF TypeOKExec
  <2>4. ASSUME NEW y \in Terminals, NEW i \in 1 .. Len(typed'[y])
        PROVE  /\ execOn'[typed'[y][i]] = y
               /\ execAt'[typed'[y][i]] \in Sent /\ execReply'[typed'[y][i]] # "error"
               /\ typed'[y][i] \notin finished'
               /\ \A j \in 1 .. Len(typed'[y]) : typed'[y][i] = typed'[y][j] => i = j
    <3>1. CASE y # x
      <4>1. typed'[y] = typed[y]
        BY <1>6, <3>1 DEF TypeOKExec
      <4>2. typed[y][i] # f
        BY <1>2, <3>1, <4>1 DEF Shows, TypedOnce
      <4> QED BY <2>1, <4>1, <4>2
    <3>2. CASE y = x
      <4>1. typed'[y] = Tail(typed[x])
        BY <1>6, <3>2 DEF TypeOKExec
      <4>2. /\ Len(typed'[y]) = Len(typed[x]) - 1
            /\ \A j \in 1 .. Len(typed'[y]) : typed'[y][j] = typed[x][j + 1]
        BY <2>3, <4>1
      <4>3. \A j \in 1 .. Len(typed'[y]) : j + 1 \in 1 .. Len(typed[x]) /\ j + 1 # 1
        BY <2>3, <4>2
      <4>4. typed[x][i + 1] # f
        BY <2>3, <4>3 DEF Shows, TypedOnce
      <4>5. /\ execOn'[typed[x][i + 1]] = x
            /\ execAt'[typed[x][i + 1]] \in Sent /\ execReply'[typed[x][i + 1]] # "error"
            /\ typed[x][i + 1] \notin finished'
            /\ \A j \in 1 .. Len(typed[x]) : typed[x][i + 1] = typed[x][j] => i + 1 = j
        BY <2>1, <4>3, <4>4
      <4>6. ASSUME NEW j \in 1 .. Len(typed'[y]), typed'[y][i] = typed'[y][j] PROVE i = j
        <5>1. i + 1 = j + 1
          BY <4>2, <4>3, <4>5, <4>6
        <5> QED BY <5>1
      <4> QED BY <3>2, <4>2, <4>5, <4>6
    <3> QED BY <3>1, <3>2
  <2> QED BY <2>2, <2>4 DEF TypedOnce, WasTyped
<1>10. ReaderHonest' /\ BufferHonest'
  BY <1>6, TokensKept DEF Shows
<1>11. ScreenHonest'
  <2>1. ASSUME NEW y \in Terminals, NEW u \in TerminalTokens, Contains(screen'[y], u)
        PROVE  Honest(u)' /\ execOn'[u[2]] = y
    <3>1. CASE Contains(screen[y], u)
      <4>1. Honest(u) /\ execOn[u[2]] = y
        BY <3>1 DEF Shows, ScreenHonest
      <4> QED BY <4>1, HonestStays
    <3>2. CASE y = x /\ u \in {p, q}
      <4>1. u[2] = f /\ u[1] # "echo"
        BY <1>3, <1>4, <3>2 DEF SentinelOf
      <4>2. f \in finished' /\ WasTyped(f)' /\ execOn'[f] = x
        BY <1>2, <1>6 DEF WasTyped
      <4> QED BY <3>2, <4>1, <4>2 DEF Honest, WasTyped
    <3> QED BY <1>7, <2>1, <3>1, <3>2
  <2> QED BY <2>1 DEF ScreenHonest
<1>12. \A y \in Terminals, g \in Execs :
         Contains(screen'[y], OutputOf(g)) => Contains(screen[y], OutputOf(g))
  BY <1>7, <1>8
<1>13. ScreenOrder'
  <2>1. ASSUME NEW g \in Execs, NEW y \in Terminals
        PROVE  Behind(screen'[y], SentinelOf(g), OutputOf(g))
    <3>1. Behind(screen[y], SentinelOf(g), OutputOf(g))
      BY DEF Shows, ScreenOrder
    <3>2. CASE y = x
      <4>1. Behind(Append(screen[x], p), SentinelOf(g), OutputOf(g))
        BY <1>5, <1>8, <3>1, <3>2, BehindAppend
      <4>2. Behind(Append(Append(screen[x], p), q), SentinelOf(g), OutputOf(g))
        BY <1>5, <1>8, <4>1, BehindAppend
      <4> QED BY <1>6, <3>2, <4>2 DEF TypeOKExec
    <3>3. CASE y # x
      BY <1>6, <3>1, <3>3 DEF TypeOKExec
    <3> QED BY <3>2, <3>3
  <2> QED BY <2>1 DEF ScreenOrder, SentinelOf, OutputOf
<1>14. ReaderOrder'
  <2>1. ASSUME NEW g \in Execs, NEW y \in Terminals, Contains(reader[y], SentinelOf(g)),
               Contains(screen'[y], OutputOf(g))
        PROVE  FALSE
    BY <1>12, <2>1 DEF Shows, ReaderOrder
  <2> QED BY <1>6, <2>1 DEF ReaderOrder, SentinelOf, OutputOf
<1>15. BufferOrder'
  <2>1. ASSUME NEW g \in Execs, NEW e \in Execs, NEW y \in Terminals,
               Contains(buffer[e], SentinelOf(g))
        PROVE  ~Contains(screen'[y], OutputOf(g)) /\ ~Contains(reader[y], OutputOf(g))
    BY <1>12, <2>1 DEF Shows, BufferOrder
  <2> QED BY <1>6, <2>1 DEF BufferOrder, SentinelOf, OutputOf
<1> QED BY <1>9, <1>10, <1>11, <1>13, <1>14, <1>15 DEF Shows

\* readLoop takes a part of the screen, and leaves the rest.
LEMMA ShowsRead ==
  ASSUME TypeOKExec, NextExec, Shows, NEW x \in Terminals, ReadScreen(x)
  PROVE  Shows'
<1>1. PICK n \in 1 .. Len(screen[x]) :
        /\ reader' = [reader EXCEPT ![x] =
             IF execResult[x] = NoExec THEN <<>> ELSE SubSeq(screen[x], 1, n)]
        /\ screen' = [screen EXCEPT ![x] = SubSeq(screen[x], n + 1, Len(screen[x]))]
  BY DEF ReadScreen
<1>2. UNCHANGED <<typed, finished, buffer>>
  BY DEF ReadScreen
<1>3. screen[x] \in Seq(TerminalTokens)
  BY DEF TypeOKExec
<1>4. \A u : ~Contains(<<>>, u)
  BY DEF Contains
<1>5. ASSUME NEW y \in Terminals, NEW u
      PROVE  /\ Contains(screen'[y], u) => Contains(screen[y], u)
             /\ Contains(reader'[y], u) =>
                  Contains(reader[y], u) \/ (y = x /\ Contains(screen[y], u))
  <2>1. CASE y # x
    BY <1>1, <2>1 DEF TypeOKExec
  <2>2. CASE y = x
    <3>1. screen'[x] = SubSeq(screen[x], n + 1, Len(screen[x]))
          /\ reader'[x] \in {<<>>, SubSeq(screen[x], 1, n)}
      BY <1>1 DEF TypeOKExec
    <3>2. /\ Contains(SubSeq(screen[x], 1, n), u) => Contains(screen[x], u)
          /\ Contains(SubSeq(screen[x], n + 1, Len(screen[x])), u) => Contains(screen[x], u)
      BY <1>3, ContainsCut
    <3> QED BY <1>4, <2>2, <3>1, <3>2
  <2> QED BY <2>1, <2>2
<1>6. TypedOnce' /\ BufferHonest'
  BY <1>2, TypedKept, TokensKept DEF Shows
<1>7. ScreenHonest' /\ ReaderHonest'
  <2>1. ASSUME NEW y \in Terminals, NEW u \in TerminalTokens,
               Contains(screen'[y], u) \/ Contains(reader'[y], u)
        PROVE  Honest(u)' /\ execOn'[u[2]] = y
    <3>1. Honest(u) /\ execOn[u[2]] = y
      BY <1>5, <2>1 DEF Shows, ScreenHonest, ReaderHonest
    <3> QED BY <3>1, HonestStays
  <2> QED BY <2>1 DEF ScreenHonest, ReaderHonest
<1>8. ASSUME NEW f \in Execs, NEW y \in Terminals
      PROVE  /\ Behind(screen'[y], SentinelOf(f), OutputOf(f))
             /\ Contains(reader'[y], SentinelOf(f)) => ~Contains(screen'[y], OutputOf(f))
  <2>1. Behind(screen[y], SentinelOf(f), OutputOf(f))
    BY DEF Shows, ScreenOrder
  <2>2. CASE y # x
    BY <1>1, <2>1, <2>2 DEF TypeOKExec, Shows, ReaderOrder
  <2>3. CASE y = x
    <3>1. screen'[x] = SubSeq(screen[x], n + 1, Len(screen[x]))
          /\ reader'[x] \in {<<>>, SubSeq(screen[x], 1, n)}
      BY <1>1 DEF TypeOKExec
    <3>2. /\ Behind(SubSeq(screen[x], n + 1, Len(screen[x])), SentinelOf(f), OutputOf(f))
          /\ Contains(SubSeq(screen[x], 1, n), SentinelOf(f)) =>
               ~Contains(SubSeq(screen[x], n + 1, Len(screen[x])), OutputOf(f))
      BY <1>3, <2>1, <2>3, BehindCut
    <3> QED BY <1>4, <2>3, <3>1, <3>2
  <2> QED BY <2>2, <2>3
<1>9. ScreenOrder' /\ ReaderOrder'
  BY <1>8 DEF ScreenOrder, ReaderOrder, SentinelOf, OutputOf
<1>10. BufferOrder'
  <2>1. ASSUME NEW g \in Execs, NEW e \in Execs, NEW y \in Terminals,
               Contains(buffer[e], SentinelOf(g))
        PROVE  ~Contains(screen'[y], OutputOf(g)) /\ ~Contains(reader'[y], OutputOf(g))
    BY <1>5, <2>1 DEF Shows, BufferOrder
  <2> QED BY <1>2, <2>1 DEF BufferOrder, SentinelOf, OutputOf
<1> QED BY <1>6, <1>7, <1>9, <1>10 DEF Shows

\* What was read goes to the buffer of the request that has the entry.
LEMMA ShowsHandle ==
  ASSUME TypeOKExec, NextExec, Shows, NEW x \in Terminals, HandleExecOutput(x)
  PROVE  Shows'
<1>1. UNCHANGED <<typed, finished, screen>> /\ reader' = [reader EXCEPT ![x] = <<>>]
  BY DEF HandleExecOutput, terminalVars
<1>2. ASSUME NEW y \in Terminals, NEW u, Contains(reader'[y], u)
      PROVE  Contains(reader[y], u)
  BY <1>1, <1>2 DEF TypeOKExec, Contains
<1>3. ASSUME NEW e \in Execs, NEW u, Contains(buffer'[e], u)
      PROVE  Contains(buffer[e], u) \/ Contains(reader[x], u)
  <2>1. CASE buffer'[e] = buffer[e]
    BY <1>3, <2>1
  <2>2. CASE buffer'[e] # buffer[e]
    <3>1. buffer'[e] = buffer[e] \o reader[x]
      BY <2>2 DEF HandleExecOutput, TypeOKExec
    <3>2. buffer[e] \in Seq(TerminalTokens) /\ reader[x] \in Seq(TerminalTokens)
      BY DEF TypeOKExec
    <3> QED BY <1>3, <3>1, <3>2, ContainsConcat
  <2> QED BY <2>1, <2>2
<1>4. TypedOnce' /\ ScreenHonest'
  BY <1>1, TypedKept, TokensKept DEF Shows
<1>5. ReaderHonest'
  <2>1. ASSUME NEW y \in Terminals, NEW u \in TerminalTokens, Contains(reader'[y], u)
        PROVE  Honest(u)' /\ execOn'[u[2]] = y
    <3>1. Honest(u) /\ execOn[u[2]] = y
      BY <1>2, <2>1 DEF Shows, ReaderHonest
    <3> QED BY <3>1, HonestStays
  <2> QED BY <2>1 DEF ReaderHonest
<1>6. BufferHonest'
  <2>1. ASSUME NEW e \in Execs, NEW u \in TerminalTokens, Contains(buffer'[e], u)
        PROVE  Honest(u)'
    <3>1. Honest(u)
      BY <1>3, <2>1 DEF Shows, ReaderHonest, BufferHonest
    <3> QED BY <3>1, HonestStays
  <2> QED BY <2>1 DEF BufferHonest
<1>7. ScreenOrder' /\ ReaderOrder'
  <2>1. ScreenOrder'
    BY <1>1 DEF Shows, ScreenOrder
  <2>2. ReaderOrder'
    BY <1>1, <1>2 DEF Shows, ReaderOrder, SentinelOf, OutputOf
  <2> QED BY <2>1, <2>2
<1>8. BufferOrder'
  <2>1. ASSUME NEW g \in Execs, NEW e \in Execs, NEW y \in Terminals,
               Contains(buffer'[e], SentinelOf(g))
        PROVE  ~Contains(screen[y], OutputOf(g)) /\ ~Contains(reader'[y], OutputOf(g))
    <3>1. CASE Contains(buffer[e], SentinelOf(g))
      BY <1>2, <3>1 DEF Shows, BufferOrder
    <3>2. CASE Contains(reader[x], SentinelOf(g))
      <4>1. execOn[g] = x
        BY <3>2, Tokens DEF Shows, ReaderHonest, SentinelOf
      <4>2. ASSUME Contains(screen[y], OutputOf(g)) PROVE FALSE
        <5>1. execOn[g] = y
          BY <4>2, Tokens DEF Shows, ScreenHonest, OutputOf
        <5> QED BY <3>2, <4>1, <4>2, <5>1 DEF Shows, ReaderOrder
      <4>3. ASSUME Contains(reader'[y], OutputOf(g)) PROVE FALSE
        <5>1. execOn[g] = y
          BY <1>2, <4>3, Tokens DEF Shows, ReaderHonest, OutputOf
        <5>2. reader'[y] = <<>>
          BY <1>1, <4>1, <5>1 DEF TypeOKExec
        <5> QED BY <4>3, <5>2 DEF Contains
      <4> QED BY <4>2, <4>3
    <3> QED BY <1>3, <2>1, <3>1, <3>2
  <2> QED BY <1>1, <2>1 DEF BufferOrder, SentinelOf, OutputOf
<1> QED BY <1>4, <1>5, <1>6, <1>7, <1>8 DEF Shows

\* Every step keeps Shows.
LEMMA ShowsStep ==
  ASSUME TypeOKExec, Called, NextExec, Shows
  PROVE  Shows'
<1>1. ASSUME NEW x \in Terminals, OpenTerminal(x) \/ KillTerminal(x) PROVE Shows'
  BY <1>1, ShowsKept DEF OpenTerminal, KillTerminal, terminalVars
<1>2. ASSUME NEW e \in Execs,
             CallExec(e) \/ Arm(e) \/ StoreBuffer(e) \/ TakeExecResult(e) \/ TimeOut(e)
             \/ Disarm(e) \/ Leave(e)
      PROVE  Shows'
  <2>1. UNCHANGED <<typed, finished, screen, reader, buffer>>
    BY <1>2 DEF CallExec, Arm, StoreBuffer, TakeExecResult, TimeOut, Disarm, Leave,
                terminalVars
  <2> QED BY <2>1, ShowsKept
<1> QED BY <1>1, <1>2, ShowsOutput, ShowsEnds, ShowsRead, ShowsHandle, ShowsType
    DEF NextExec, ExecStep

-----------------------------------------------------------------------------
(* What the requests are told.                                             *)

SentinelSeen(e) == \E t \in Sentinels(e) : Contains(buffer[e], t)

\* A result comes from a buffer that shows the text of the sentinel.
ResultsSeen ==
  \A e \in Execs : result[e] # "none" \/ execReply[e] \in {"right", "zero"} => SentinelSeen(e)

\* The buffer of a request that was not called is empty.
EmptyAtFirst == \A e \in Execs : execAt[e] = "unused" => buffer[e] = <<>>

\* The inductive invariant.
XInv ==
  /\ TypeOKExec /\ Requests /\ Shows /\ ResultsSeen /\ EmptyAtFirst
  /\ ForeignOutputOnlyAfterTimeout

\* The steps that hand nothing to a buffer leave the buffers alone.
LEMMA OnlyHandleFills ==
  ASSUME NextExec
  PROVE  \/ \E x \in Terminals : HandleExecOutput(x)
         \/ UNCHANGED <<buffer, result>>
BY DEF NextExec, ExecStep, OpenTerminal, KillTerminal, CommandOutput, CommandEnds, ReadScreen,
       CallExec, Arm, StoreBuffer, TypeCommand, TakeExecResult, TimeOut, Disarm, Leave

\* What handleExecOutput does with the buffer it finds.
LEMMA HandleFills ==
  ASSUME TypeOKExec, NEW x \in Terminals, HandleExecOutput(x), NEW e \in Execs
  PROVE  /\ buffer'[e] \in Seq(TerminalTokens)
         /\ e # execBuffer => buffer'[e] = buffer[e] /\ result'[e] = result[e]
         /\ e = execBuffer => /\ buffer'[e] = buffer[e] \o reader[x]
                              /\ \/ result'[e] = result[e]
                                 \/ result'[e] = Parsed(e, buffer'[e])
         /\ \A u : Contains(buffer[e], u) => Contains(buffer'[e], u)
         /\ \A u : Contains(buffer'[e], u) =>
              Contains(buffer[e], u) \/ (e = execBuffer /\ Contains(reader[x], u))
<1>1. buffer[e] \in Seq(TerminalTokens) /\ reader[x] \in Seq(TerminalTokens)
  BY DEF TypeOKExec
<1>2. CASE e # execBuffer
  <2>1. buffer'[e] = buffer[e] /\ result'[e] = result[e]
    BY <1>2 DEF HandleExecOutput, TypeOKExec
  <2> QED BY <1>1, <1>2, <2>1
<1>3. CASE e = execBuffer
  <2>0. execBuffer # NoExec
    BY <1>3, ExecAssumption
  <2>1. buffer' = [buffer EXCEPT ![e] = buffer[e] \o reader[x]]
        /\ result' = [result EXCEPT ![e] =
                        IF @ = "none" THEN Parsed(e, buffer[e] \o reader[x]) ELSE @]
    BY <1>3, <2>0 DEF HandleExecOutput
  <2>2. buffer'[e] = buffer[e] \o reader[x]
    BY <2>1 DEF TypeOKExec
  <2>3. result'[e] = result[e] \/ result'[e] = Parsed(e, buffer'[e])
    BY <2>1, <2>2 DEF TypeOKExec
  <2>4. \A u : Contains(buffer'[e], u) <=> Contains(buffer[e], u) \/ Contains(reader[x], u)
    <3> TAKE u
    <3> QED BY <1>1, <2>2, ContainsConcat
  <2> QED BY <1>1, <1>3, <2>2, <2>3, <2>4
<1> QED BY <1>2, <1>3

\* A reply comes from the channel, the timer or a write that fails.
LEMMA RepliesCome ==
  ASSUME TypeOKExec, NextExec, NEW e \in Execs
  PROVE  \/ execReply'[e] = execReply[e]
         \/ execReply[e] = "none" /\ execReply'[e] \in {"timeout", "error"}
         \/ execReply[e] = "none" /\ execReply'[e] = result[e] /\ result[e] # "none"
<1> DEFINE Goal == \/ execReply'[e] = execReply[e]
                   \/ execReply[e] = "none" /\ execReply'[e] \in {"timeout", "error"}
                   \/ execReply[e] = "none" /\ execReply'[e] = result[e] /\ result[e] # "none"
<1>1. ASSUME NEW f \in Execs, TypeCommand(f) \/ TakeExecResult(f) \/ TimeOut(f) PROVE Goal
  <2>1. execAt[f] \in {"stored", "waiting"}
    BY <1>1 DEF TypeCommand, TakeExecResult, TimeOut
  <2>2. execReply[f] = "none"
    BY <2>1 DEF TypeOKExec
  <2>3. f # e => execReply'[e] = execReply[e]
    BY <1>1 DEF TypeCommand, TakeExecResult, TimeOut, TypeOKExec
  <2>4. f = e => \/ execReply'[e] = execReply[e] \/ execReply'[e] \in {"timeout", "error"}
                 \/ execReply'[e] = result[e] /\ result[e] # "none"
    BY <1>1 DEF TypeCommand, TakeExecResult, TimeOut, TypeOKExec
  <2> QED BY <2>2, <2>3, <2>4
<1>2. CASE UNCHANGED execReply
  BY <1>2
<1> QED BY <1>1, <1>2
    DEF NextExec, ExecStep, OpenTerminal, KillTerminal, CommandOutput, CommandEnds, ReadScreen,
        HandleExecOutput, CallExec, Arm, StoreBuffer, Disarm, Leave

\* A request gets a result from a buffer with its sentinel only.
LEMMA ResultsSeenStep ==
  ASSUME TypeOKExec, NextExec, ResultsSeen
  PROVE  ResultsSeen'
<1> SUFFICES ASSUME NEW e \in Execs, result'[e] # "none" \/ execReply'[e] \in {"right", "zero"}
             PROVE  \E t \in Sentinels(e) : Contains(buffer'[e], t)
  BY DEF ResultsSeen, SentinelSeen, Sentinels
<1>1. \A u : Contains(buffer[e], u) => Contains(buffer'[e], u)
  BY OnlyHandleFills, HandleFills
<1>2. CASE result[e] # "none" \/ execReply[e] \in {"right", "zero"}
  BY <1>1, <1>2 DEF ResultsSeen, SentinelSeen
<1>3. CASE ~(result[e] # "none" \/ execReply[e] \in {"right", "zero"})
  <2>1. result'[e] # "none" /\ result[e] = "none"
    BY <1>3, RepliesCome
  <2>2. PICK x \in Terminals : HandleExecOutput(x)
    BY <2>1, OnlyHandleFills
  <2>3. result'[e] = Parsed(e, buffer'[e])
    BY <2>1, <2>2, HandleFills
  <2>4. PICK i \in DOMAIN buffer'[e] : buffer'[e][i] \in Sentinels(e)
    BY <2>1, <2>3 DEF Parsed
  <2>5. buffer'[e] \in Seq(TerminalTokens)
    BY <2>2, HandleFills
  <2>6. i \in 1 .. Len(buffer'[e])
    BY <2>4, <2>5
  <2> QED BY <2>4, <2>6 DEF Contains
<1> QED BY <1>2, <1>3

\* A request is called once.
LEMMA CalledOnce ==
  ASSUME TypeOKExec, NextExec, NEW e \in Execs
  PROVE  /\ execAt[e] # "unused" => execOn'[e] = execOn[e]
         /\ execAt'[e] = "unused" => execAt[e] = "unused"
<1> DEFINE Goal == /\ execAt[e] # "unused" => execOn'[e] = execOn[e]
                   /\ execAt'[e] = "unused" => execAt[e] = "unused"
<1>1. ASSUME NEW f \in Execs, CallExec(f) PROVE Goal
  BY <1>1 DEF CallExec, Goto, TypeOKExec
<1>2. ASSUME NEW f \in Execs, ExecStep(f) \/ TimeOut(f) PROVE Goal
  <2>1. PICK p \in {"armed", "stored", "waiting", "disarming", "leaving", "answered"} :
          execAt' = [execAt EXCEPT ![f] = p]
    BY <1>2 DEF ExecStep, Arm, StoreBuffer, TypeCommand, TakeExecResult, Disarm, Leave, TimeOut,
                Goto
  <2>2. execOn' = execOn
    BY <1>2 DEF ExecStep, Arm, StoreBuffer, TypeCommand, TakeExecResult, Disarm, Leave, TimeOut
  <2> QED BY <2>1, <2>2 DEF TypeOKExec
<1>3. CASE UNCHANGED <<execAt, execOn>>
  BY <1>3
<1> QED BY <1>1, <1>2, <1>3
    DEF NextExec, OpenTerminal, KillTerminal, CommandOutput, CommandEnds, ReadScreen,
        HandleExecOutput

\* Nothing is written to the buffer of a request that was not called.
LEMMA EmptyStep ==
  ASSUME TypeOKExec, Requests, EmptyAtFirst, NextExec
  PROVE  EmptyAtFirst'
<1> SUFFICES ASSUME NEW e \in Execs, execAt'[e] = "unused" PROVE buffer'[e] = <<>>
  BY DEF EmptyAtFirst
<1>1. execAt[e] = "unused" /\ buffer[e] = <<>>
  BY CalledOnce DEF EmptyAtFirst
<1>2. execBuffer # e
  BY <1>1, ExecAssumption DEF Requests, BufferOwned
<1> QED BY <1>1, <1>2, OnlyHandleFills, HandleFills

\* While a request has the entry of execBuffers, what readLoop has read from
\* its terminal holds no output of another request that is still open there.
LEMMA ForeignStep ==
  ASSUME XInv, NextExec
  PROVE  ForeignOutputOnlyAfterTimeout'
<1> USE DEF XInv
<1> SUFFICES ASSUME NEW e \in Execs, NEW f \in Execs, e # f, Contains(buffer'[e], OutputOf(f)),
                    execReply'[f] # "timeout", execOn'[f] \notin Echoing, execOn'[f] = execOn'[e]
             PROVE  FALSE
  BY DEF ForeignOutputOnlyAfterTimeout, OutputOf
<1>1. PICK t \in TerminalTokens : t = OutputOf(f) /\ t[2] = f
  BY Tokens DEF OutputOf
<1>2. WasTyped(f)
  <2>1. Contains(buffer[e], t) \/ \E x \in Terminals : Contains(reader[x], t)
    BY <1>1, OnlyHandleFills, HandleFills
  <2> QED BY <1>1, <2>1 DEF Shows, BufferHonest, ReaderHonest, Honest
<1>3. execOn'[f] = execOn[f] /\ (execReply[f] = "none" \/ execReply'[f] = execReply[f])
  BY <1>2, TypedStays, RepliesCome
<1>4. execReply[f] # "timeout"
  BY <1>3
<1>5. CASE Contains(buffer[e], t)
  <2>1. execOn[f] # execOn[e]
    BY <1>1, <1>3, <1>4, <1>5 DEF ForeignOutputOnlyAfterTimeout, OutputOf
  <2>2. execAt[e] # "unused"
    BY <1>5 DEF EmptyAtFirst, Contains
  <2> QED BY <1>3, <2>1, <2>2, CalledOnce
<1>6. CASE ~Contains(buffer[e], t)
  <2>1. PICK x \in Terminals : HandleExecOutput(x)
    BY <1>1, <1>6, OnlyHandleFills
  <2>2. e = execBuffer /\ Contains(reader[x], t)
    BY <1>1, <1>6, <2>1, HandleFills
  <2>3. execOn[f] = x /\ execOn' = execOn /\ execReply' = execReply
    BY <1>1, <2>1, <2>2 DEF Shows, ReaderHonest, HandleExecOutput
  <2>4. execMu[x] = e
    <3>1. execAt[e] \in InExec
      BY <2>2, ExecAssumption DEF Requests, BufferOwned, InExec
    <3> QED BY <2>3, <3>1 DEF Requests, Holding
  <2>5. execAt[f] \notin InExec
    BY <2>3, <2>4 DEF Requests, Holding
  <2>6. execReply[f] \in {"right", "zero"}
    BY <1>2, <1>4, <2>5 DEF WasTyped, InExec, Sent, TypeOKExec
  <2>7. Contains(buffer[f], <<"echo", f>>) \/ Contains(buffer[f], SentinelOf(f))
    BY <2>6 DEF ResultsSeen, SentinelSeen, Sentinels, SentinelOf
  <2>8. CASE Contains(buffer[f], <<"echo", f>>)
    <3>1. Honest(<<"echo", f>>)
      BY <2>8, Tokens DEF Shows, BufferHonest
    <3> QED BY <1>3, <3>1 DEF Honest
  <2>9. CASE Contains(buffer[f], SentinelOf(f))
    BY <1>1, <2>2, <2>9 DEF Shows, BufferOrder
  <2> QED BY <2>7, <2>8, <2>9
<1> QED BY <1>5, <1>6

\* XInv is inductive.
LEMMA InitXInv == InitExec => XInv
<1> SUFFICES ASSUME InitExec PROVE XInv
  OBVIOUS
<1>1. ResultsSeen /\ EmptyAtFirst
  BY DEF InitExec, ResultsSeen, EmptyAtFirst
<1>2. ForeignOutputOnlyAfterTimeout
  BY DEF InitExec, ForeignOutputOnlyAfterTimeout, Contains
<1> QED BY <1>1, <1>2, InitExecType, InitRequests, InitShows DEF XInv

LEMMA StepXInv == XInv /\ [NextExec]_execVars => XInv'
<1> SUFFICES ASSUME XInv, [NextExec]_execVars PROVE XInv'
  OBVIOUS
<1>1. CASE NextExec
  <2>1. Called
    BY DEF XInv, Requests
  <2>2. TypeOKExec'
    BY <1>1, <2>1, ExecTypeStep DEF XInv
  <2>3. Requests' /\ Shows'
    BY <1>1, <2>1, RequestsStep, ShowsStep DEF XInv
  <2>4. ResultsSeen' /\ EmptyAtFirst'
    BY <1>1, ResultsSeenStep, EmptyStep DEF XInv
  <2> QED BY <1>1, <2>2, <2>3, <2>4, ForeignStep DEF XInv
<1>2. CASE UNCHANGED execVars
  BY <1>2 DEF execVars, XInv, TypeOKExec, Requests, Holding, Called, BufferOwned, BufferKept,
              Shows, TypedOnce, WasTyped, Honest, ScreenHonest, ReaderHonest, BufferHonest,
              ScreenOrder, ReaderOrder, BufferOrder, ResultsSeen, SentinelSeen, EmptyAtFirst,
              ForeignOutputOnlyAfterTimeout
<1> QED BY <1>1, <1>2

LEMMA SpecXInv == SpecExec => []XInv
BY InitXInv, StepXInv, PTL DEF SpecExec

-----------------------------------------------------------------------------
(* shell.exec.                                                             *)

\* Every variable of Exec and handleExecOutput (session.go) keeps its type, for
\* any number of terminals and requests.
THEOREM ExecTypeCorrect == SpecExec => []TypeOKExec
<1>1. XInv => TypeOKExec
  BY DEF XInv
<1> QED BY <1>1, SpecXInv, PTL

\* On a terminal that does not echo, Exec (session.go) answers with an exit code
\* only when the command is over: the sentinel is shown by printf alone.
THEOREM UnechoedExecBlocks == SpecExec => []BlocksUntilCompleteUnechoed
<1>1. XInv => BlocksUntilCompleteUnechoed
  <2> SUFFICES ASSUME XInv, NEW e \in Execs, execReply[e] \in {"right", "zero"},
                      execOn[e] \notin Echoing
               PROVE  e \in finished
    BY DEF BlocksUntilCompleteUnechoed
  <2>1. Contains(buffer[e], <<"echo", e>>) \/ Contains(buffer[e], <<"sentinel", e>>)
    BY DEF XInv, ResultsSeen, SentinelSeen, Sentinels
  <2>2. ~Contains(buffer[e], <<"echo", e>>)
    BY Tokens DEF XInv, Shows, BufferHonest, Honest
  <2>3. Honest(<<"sentinel", e>>)
    BY <2>1, <2>2, Tokens DEF XInv, Shows, BufferHonest
  <2> QED BY <2>3 DEF Honest
<1> QED BY <1>1, SpecXInv, PTL

\* A waiting request loses the entry of execBuffers (session.go) only to a request
\* of another session with its session_id, and output of another command of its
\* terminal gets into its own only when that one had timed out or the terminal
\* echoes.
THEOREM ExecsKeepApart == SpecExec => []BuffersKeepApart
<1>1. XInv => BuffersKeepApart
  BY DEF XInv, Requests, BufferKept, BuffersKeepApart, BufferLostOnlyToOtherSession
<1> QED BY <1>1, SpecXInv, PTL

-----------------------------------------------------------------------------
(* Both together: they share no variable, and a step of MCNext is one of   *)
(* the sessions or one of shell.exec, and leaves the other part alone.     *)

\* The invariants of both parts hold at the start,
LEMMA InitParts == MCInit => IInv /\ XInv
BY InitInv, InitXInv DEF MCInit

\* and every step of either part keeps both.
LEMMA StepParts ==
  IInv /\ XInv /\ [MCNext]_<<part, runtimeVars, shellVars, execVars>> => (IInv /\ XInv)'
<1> SUFFICES ASSUME IInv, XInv, [MCNext]_<<part, runtimeVars, shellVars, execVars>>
             PROVE  IInv' /\ XInv'
  OBVIOUS
<1>1. CASE NextShells /\ UNCHANGED execVars
  BY <1>1, StepInv, StepXInv
<1>2. CASE NextExec /\ UNCHANGED <<runtimeVars, shellVars>>
  BY <1>2, StepInv, StepXInv
<1>3. CASE UNCHANGED <<part, runtimeVars, shellVars, execVars>>
  BY <1>3, StepInv, StepXInv
<1> QED BY <1>1, <1>2, <1>3 DEF MCNext

\* Every variable of the multiplexers, the sessions and shell.exec keeps its
\* type, whichever of the two parts takes the steps.
THEOREM ShellPartsTypeCorrect == MCSpec => []TypeOKParts
<1>1. IInv /\ XInv => TypeOKParts
  BY DEF IInv, XInv, TypeOKParts
<1> QED BY <1>1, InitParts, StepParts, PTL DEF MCSpec
==============================================================================
