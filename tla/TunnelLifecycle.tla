--------------------------- MODULE TunnelLifecycle ---------------------------
(***************************************************************************)
(* The life of a relay process: Run, connect and authenticate, the end of  *)
(* messageLoop, Stop (internal/tunnel/websocket.go), the credentials that  *)
(* authentication leaves on disk (internal/auth/token.go, internal/config/ *)
(* config.go), and what cmd/connect.go and cmd/node.go do around them.     *)
(* The process may crash and be started again; the connection may break,   *)
(* or its peer fall silent without breaking it.                            *)
(*                                                                         *)
(* A registration token buys the credentials of one target, so a token     *)
(* also stands for the target it registers.                                *)
(***************************************************************************)
EXTENDS Runtime

CONSTANTS
  Run, Stop, \* the two resetters
  Tokens,    \* registration and enrollment tokens
  NoToken

ASSUME LifecycleAssumption ==
  /\ Run # Stop /\ Resetters = {Run, Stop}
  /\ NoToken \notin Tokens

VARIABLES
  \* what outlives the process
  disk,       \* config.json: the target it has credentials of, none, or a torn file
  spent,      \* the tokens that the server has taken for a registration
  request,    \* the auth message on its way to the server
  \* the process
  mainAt,     \* off (also after a crash), up, or exited when Run has returned
  mode,
  cfg,        \* the credentials in memory
  token,      \* t.token
  saveFailed, \* a Save has failed since the start
  loopAt,     \* where Run is: see TypeOKLifecycle
  stopAt,     \* where Stop is
  conn,       \* t.conn: none, open, broken by the network, or closed on this side
  peer,       \* whether the peer still reads and answers
  reply,      \* its answer to the auth message
  connMu,     \* who holds connMu
  writer,     \* the writer goroutine
  connGen,    \* the generation of messageLoop
  heard,      \* the generations in which a request has come in
  children,   \* the generations whose multiplexers have a process
  unread      \* those with a process that does not read the input of a write

diskVars == <<disk, spent>>
authVars == <<cfg, token, saveFailed>>
connVars == <<conn, peer>>
loopVars == <<connGen, heard, children, unread>>
lifeVars == <<diskVars, request, mainAt, mode, authVars, loopAt, stopAt, connVars, reply,
              connMu, writer, loopVars>>

TypeOKLifecycle ==
  /\ TypeOKRuntime
  /\ disk \in Tokens \cup {NoToken, "torn"}
  /\ spent \subseteq Tokens
  /\ request \in {"none", "register", "reconnect", "enroll"}
  /\ mainAt \in {"off", "up", "exited"}
  /\ mode \in {"connect", "node"}
  /\ {cfg, token} \subseteq Tokens \cup {NoToken}
  /\ saveFailed \in BOOLEAN
  /\ loopAt \in {"top", "dialing", "upgrading", "greeting", "asked", "saving", "ready",
                 "serving", "reading", "leaving", "joining", "closing", "resetting",
                 "retiring", "pausing", "returned"}
  /\ stopAt \in {"idle", "resetting", "retiring", "locking", "closing", "done"}
  /\ conn \in {"none", "open", "broken", "closed"}
  /\ peer \in {"live", "stalled"}
  /\ reply \in {"none", "refused", "known", "issued"}
  /\ connMu \in {"free", "writer", "stop"}
  /\ writer \in {"none", "idle", "writing"}
  /\ (connMu = "writer") <=> (writer = "writing")
  /\ (connMu = "stop") <=> (stopAt = "closing")
  /\ connGen \in Generations \cup {0}
  /\ heard \subseteq Generations /\ children \subseteq Generations
  /\ unread \subseteq children

InitLifecycle ==
  /\ InitRuntime
  /\ disk = NoToken /\ spent = {} /\ request = "none"
  /\ mainAt = "off" /\ mode = "connect"
  /\ cfg = NoToken /\ token = NoToken /\ saveFailed = FALSE
  /\ loopAt = "returned" /\ stopAt = "idle"
  /\ conn = "none" /\ peer = "live" /\ reply = "none"
  /\ connMu = "free" /\ writer = "none"
  /\ connGen = 0 /\ heard = {} /\ children = {} /\ unread = {}

-----------------------------------------------------------------------------
(* The process.                                                            *)

NewRuntime ==
  /\ generation' = 1
  /\ resetting' = [t \in Resetters |-> "idle"]
  /\ retired' = [t \in Resetters |-> 0]
  /\ ended' = {}
  /\ stopped' = FALSE

AtRest ==
  /\ NewRuntime
  /\ saveFailed' = FALSE /\ stopAt' = "idle"
  /\ conn' = "none" /\ peer' = "live" /\ reply' = "none"
  /\ connMu' = "free" /\ writer' = "none"
  /\ connGen' = 0 /\ heard' = {} /\ children' = {} /\ unread' = {}

\* connect loads config.json, which fails when the file is torn, and wants
\* credentials or a token; node wants a token and loads nothing.
MayStart(m, k) ==
  IF m = "node" THEN k # NoToken ELSE disk # "torn" /\ (k # NoToken \/ disk # NoToken)

StartRelay(m, k) ==
  /\ mainAt # "up"
  /\ MayStart(m, k)
  /\ mainAt' = "up" /\ mode' = m
  /\ cfg' = (IF m = "node" THEN NoToken ELSE disk)
  /\ token' = k
  /\ loopAt' = "top" /\ request' = "none"
  /\ AtRest
  /\ UNCHANGED diskVars

\* Run has returned, and main with it, wherever Stop and the other goroutines
\* are.
ExitRelay ==
  /\ mainAt = "up" /\ loopAt = "returned"
  /\ mainAt' = "exited"
  /\ UNCHANGED <<runtimeVars, diskVars, request, mode, authVars, loopAt, stopAt, connVars,
                 reply, connMu, writer, loopVars>>

\* What is on disk stays, and an auth message that is on its way.
CrashRelay ==
  /\ mainAt = "up"
  /\ mainAt' = "off"
  /\ loopAt' = "returned" /\ cfg' = NoToken
  /\ AtRest
  /\ UNCHANGED <<diskVars, request, mode, token>>

\* The user removes config.json, to register anew or because it is torn.
DeleteConfig ==
  /\ mainAt # "up"
  /\ disk # NoToken
  /\ disk' = NoToken
  /\ UNCHANGED <<runtimeVars, spent, request, mainAt, mode, authVars, loopAt, stopAt,
                 connVars, reply, connMu, writer, loopVars>>

Up == mainAt = "up"

At(place) == Up /\ loopAt = place

Go(place) == loopAt' = place

-----------------------------------------------------------------------------
(* Run: connect and authenticate.                                          *)

\* Mutant of LoopTop: t.ctx is not looked at.
LoopTopBlind ==
  /\ At("top")
  /\ Go("dialing")
  /\ UNCHANGED <<runtimeVars, diskVars, request, mainAt, mode, authVars, stopAt, connVars,
                 reply, connMu, writer, loopVars>>

LoopTop ==
  /\ At("top")
  /\ Go(IF stopped THEN "returned" ELSE "dialing")
  /\ UNCHANGED <<runtimeVars, diskVars, request, mainAt, mode, authVars, stopAt, connVars,
                 reply, connMu, writer, loopVars>>

\* Dial knows nothing of t.ctx.  The server takes the call or does not, and must
\* then answer the upgrade to a websocket.  MaxGeneration bounds the connections:
\* there is room for the resets of both Run and Stop.
DialServer ==
  /\ At("dialing")
  /\ \/ generation + 1 < MaxGeneration /\ peer' = "live" /\ Go("upgrading")
     \/ UNCHANGED peer /\ Go("pausing")
  /\ UNCHANGED <<runtimeVars, diskVars, request, mainAt, mode, authVars, stopAt, conn, reply,
                 connMu, writer, loopVars>>

\* Dial returns when the server has answered, and not before: it has no timeout.
\* An auth message of an earlier connection has arrived by then or never will.
UpgradeConn ==
  /\ At("upgrading") /\ peer = "live"
  /\ \/ /\ connMu = "free"
        /\ conn' = "open" /\ request' = "none" /\ reply' = "none"
        /\ Go("greeting")
     \/ /\ Go("pausing")
        /\ UNCHANGED <<conn, request, reply>>
  /\ UNCHANGED <<runtimeVars, diskVars, mainAt, mode, authVars, stopAt, peer, connMu,
                 writer, loopVars>>

\* connect closes the connection and fails; t.conn still names it.
Disconnect == conn' = "closed" /\ Go("pausing")

\* Mutant of AuthRequest: a token goes before credentials.
AuthByToken ==
  IF mode = "node" THEN "enroll"
  ELSE IF token # NoToken THEN "register" ELSE "reconnect"

\* Credentials go before a token.
AuthRequest ==
  IF mode = "node" THEN "enroll"
  ELSE IF cfg # NoToken THEN "reconnect" ELSE "register"

SendAuth ==
  /\ At("greeting")
  /\ connMu = "free"
  /\ IF conn = "open"
     THEN request' = AuthRequest /\ Go("asked") /\ UNCHANGED conn
     ELSE Disconnect /\ UNCHANGED request
  /\ UNCHANGED <<runtimeVars, diskVars, mainAt, mode, authVars, stopAt, peer, reply,
                 connMu, writer, loopVars>>

\* The server takes the request, whether or not its answer will arrive.  It
\* takes a registration token once.
ServerHandles ==
  /\ request # "none" /\ peer = "live"
  /\ request' = "none"
  /\ \/ reply' = "refused" /\ UNCHANGED spent
     \/ /\ request = "register" /\ token \notin spent
        /\ spent' = spent \cup {token}
        /\ reply' = "issued"
     \/ request = "reconnect" /\ reply' \in {"known", "issued"} /\ UNCHANGED spent
     \/ request = "enroll" /\ reply' = "known" /\ UNCHANGED spent
  /\ UNCHANGED <<runtimeVars, disk, mainAt, mode, authVars, loopAt, stopAt, connVars,
                 connMu, writer, loopVars>>

\* The target that the answer is about.
Identity == IF cfg # NoToken THEN cfg ELSE token

\* connect has succeeded; in node mode the token is needed again.
Authenticated ==
  /\ token' = (IF mode = "node" THEN token ELSE NoToken)
  /\ Go("ready")

\* Save fails before it touches the file, or after it has truncated it.
FailSave == saveFailed' = TRUE /\ Disconnect

ReadReply ==
  /\ At("asked") /\ conn = "open" /\ reply # "none"
  /\ reply' = "none"
  /\ \/ /\ reply = "refused"
        /\ Disconnect
        /\ UNCHANGED <<disk, authVars>>
     \/ /\ reply = "known"
        /\ Authenticated
        /\ UNCHANGED <<disk, cfg, saveFailed, conn>>
     \/ /\ reply = "issued"
        /\ cfg' = Identity
        /\ FailSave
        /\ UNCHANGED <<disk, token>>
     \/ /\ reply = "issued"
        /\ cfg' = Identity
        /\ disk' = "torn"
        /\ Go("saving")
        /\ UNCHANGED <<token, saveFailed, conn>>
  /\ UNCHANGED <<runtimeVars, spent, request, mainAt, mode, stopAt, peer, connMu, writer,
                 loopVars>>

\* Mutant of FinishSave: the error of Save is dropped.
FinishSaveAnyway ==
  /\ At("saving")
  /\ disk' \in {cfg, disk}
  /\ Authenticated
  /\ UNCHANGED <<runtimeVars, spent, request, mainAt, mode, cfg, saveFailed, stopAt,
                 connVars, reply, connMu, writer, loopVars>>

FinishSave ==
  /\ At("saving")
  /\ \/ /\ disk' = cfg
        /\ Authenticated
        /\ UNCHANGED <<saveFailed, conn>>
     \/ /\ FailSave
        /\ UNCHANGED <<disk, token>>
  /\ UNCHANGED <<runtimeVars, spent, request, mainAt, mode, cfg, stopAt, peer, reply,
                 connMu, writer, loopVars>>

LoseReply ==
  /\ At("asked") /\ conn # "open"
  /\ Disconnect
  /\ UNCHANGED <<runtimeVars, diskVars, request, mainAt, mode, authVars, stopAt, peer,
                 reply, connMu, writer, loopVars>>

-----------------------------------------------------------------------------
(* Run: messageLoop and what follows it.                                   *)

BeginServing ==
  /\ At("ready")
  /\ connGen' = generation
  /\ writer' = "idle"
  /\ Go("serving")
  /\ UNCHANGED <<runtimeVars, diskVars, request, mainAt, mode, authVars, stopAt, connVars,
                 reply, connMu, heard, children, unread>>

\* The reader looks at t.ctx before each read, and only then.
LookAtContext ==
  /\ At("serving")
  /\ Go(IF stopped THEN "leaving" ELSE "reading")
  /\ UNCHANGED <<runtimeVars, diskVars, request, mainAt, mode, authVars, stopAt, connVars,
                 reply, connMu, writer, loopVars>>

ReadRequest ==
  /\ At("reading") /\ conn = "open" /\ peer = "live"
  /\ heard' = heard \cup {connGen}
  /\ Go("serving")
  /\ UNCHANGED <<runtimeVars, diskVars, request, mainAt, mode, authVars, stopAt, connVars,
                 reply, connMu, writer, connGen, children, unread>>

ReadFails ==
  /\ At("reading") /\ conn # "open"
  /\ Go("leaving")
  /\ UNCHANGED <<runtimeVars, diskVars, request, mainAt, mode, authVars, stopAt, connVars,
                 reply, connMu, writer, loopVars>>

\* The deferred call of messageLoop: heartbeatStop and the socket are closed,
LeaveLoop ==
  /\ At("leaving")
  /\ conn' = "closed"
  /\ Go("joining")
  /\ UNCHANGED <<runtimeVars, diskVars, request, mainAt, mode, authVars, stopAt, peer,
                 reply, connMu, writer, loopVars>>

\* Mutant of JoinWriter: nobody waits.
JoinNobody ==
  /\ At("joining")
  /\ Go("closing")
  /\ UNCHANGED <<runtimeVars, diskVars, request, mainAt, mode, authVars, stopAt, connVars,
                 reply, connMu, writer, loopVars>>

\* and the writer is waited for.
JoinWriter ==
  /\ At("joining") /\ writer = "none"
  /\ Go("closing")
  /\ UNCHANGED <<runtimeVars, diskVars, request, mainAt, mode, authVars, stopAt, connVars,
                 reply, connMu, writer, loopVars>>

DropConn ==
  /\ At("closing") /\ connMu = "free"
  /\ conn' = "none"
  /\ Go("resetting")
  /\ UNCHANGED <<runtimeVars, diskVars, request, mainAt, mode, authVars, stopAt, peer,
                 reply, connMu, writer, loopVars>>

\* KillAll of the multiplexers that t has swapped out.  It gets no further than a
\* session whose stdinMu is held by a write that its process does not read; what
\* it then waits for is in ProcStdin.
KillChildren(t) ==
  /\ retired[t] \notin unread
  /\ children' = children \ {retired[t]}

RunResets ==
  /\ Up
  /\ \/ loopAt = "resetting" /\ SwapRuntime(Run) /\ Go("retiring") /\ UNCHANGED children
     \/ loopAt = "retiring" /\ CancelPrevious(Run) /\ UNCHANGED <<loopAt, children>>
     \/ loopAt = "retiring" /\ EndReset(Run) /\ KillChildren(Run) /\ Go("pausing")
  /\ UNCHANGED <<diskVars, request, mainAt, mode, authVars, stopAt, connVars, reply,
                 connMu, writer, connGen, heard, unread>>

\* The select between the delay and t.ctx.
EndPause ==
  /\ At("pausing")
  /\ Go("top") \/ (stopped /\ Go("returned"))
  /\ UNCHANGED <<runtimeVars, diskVars, request, mainAt, mode, authVars, stopAt, connVars,
                 reply, connMu, writer, loopVars>>

-----------------------------------------------------------------------------
(* The writer, which holds connMu while it writes, and the handlers.       *)

WriterStarts ==
  /\ Up /\ writer = "idle" /\ connMu = "free"
  /\ connMu' = "writer" /\ writer' = "writing"
  /\ UNCHANGED <<runtimeVars, diskVars, request, mainAt, mode, authVars, loopAt, stopAt,
                 connVars, reply, loopVars>>

\* The write ends: it was sent, or fits into a buffer, or fails and the writer
\* returns.
WriterEnds ==
  /\ Up /\ writer = "writing"
  /\ connMu' = "free"
  /\ writer' = IF conn = "open" THEN "idle" ELSE "none"
  /\ UNCHANGED <<runtimeVars, diskVars, request, mainAt, mode, authVars, loopAt, stopAt,
                 connVars, reply, loopVars>>

\* Its select sees t.ctx or heartbeatStop.
WriterLeaves ==
  /\ Up /\ writer = "idle"
  /\ stopped \/ loopAt = "joining"
  /\ writer' = "none"
  /\ UNCHANGED <<runtimeVars, diskVars, request, mainAt, mode, authVars, loopAt, stopAt,
                 connVars, reply, connMu, loopVars>>

\* Mutant of StartChild: a closed multiplexer does not refuse.
StartChildOfAny ==
  /\ Up
  /\ \E g \in heard : children' = children \cup {g}
  /\ UNCHANGED <<runtimeVars, diskVars, request, mainAt, mode, authVars, loopAt, stopAt,
                 connVars, reply, connMu, writer, connGen, heard, unread>>

\* A handler of the current generation creates a session, at any time after
\* its request came in; a closed multiplexer refuses.
StartChild ==
  /\ Up /\ generation \in heard
  /\ children' = children \cup {generation}
  /\ UNCHANGED <<runtimeVars, diskVars, request, mainAt, mode, authVars, loopAt, stopAt,
                 connVars, reply, connMu, writer, connGen, heard, unread>>

\* A write to the stdin of a process fills it.
FillInput ==
  /\ Up
  /\ \E g \in children : unread' = unread \cup {g}
  /\ UNCHANGED <<runtimeVars, diskVars, request, mainAt, mode, authVars, loopAt, stopAt,
                 connVars, reply, connMu, writer, connGen, heard, children>>

\* The process reads it, or ends.
DrainInput ==
  /\ Up
  /\ \E g \in unread : unread' = unread \ {g}
  /\ UNCHANGED <<runtimeVars, diskVars, request, mainAt, mode, authVars, loopAt, stopAt,
                 connVars, reply, connMu, writer, connGen, heard, children>>

-----------------------------------------------------------------------------
(* Stop.                                                                   *)

CallStop ==
  /\ Up /\ stopAt = "idle"
  /\ CancelAll
  /\ stopAt' = "resetting"
  /\ UNCHANGED <<diskVars, request, mainAt, mode, authVars, loopAt, connVars, reply,
                 connMu, writer, loopVars>>

StopResets ==
  /\ Up
  /\ \/ stopAt = "resetting" /\ SwapRuntime(Stop) /\ stopAt' = "retiring" /\ UNCHANGED children
     \/ stopAt = "retiring" /\ CancelPrevious(Stop) /\ UNCHANGED <<stopAt, children>>
     \/ stopAt = "retiring" /\ EndReset(Stop) /\ KillChildren(Stop) /\ stopAt' = "locking"
  /\ UNCHANGED <<diskVars, request, mainAt, mode, authVars, loopAt, connVars, reply,
                 connMu, writer, connGen, heard, unread>>

StopLocks ==
  /\ Up /\ stopAt = "locking" /\ connMu = "free"
  /\ IF conn = "none"
     THEN stopAt' = "done" /\ UNCHANGED connMu
     ELSE stopAt' = "closing" /\ connMu' = "stop"
  /\ UNCHANGED <<runtimeVars, diskVars, request, mainAt, mode, authVars, loopAt, connVars,
                 reply, writer, loopVars>>

\* The close message is written, or fails, and the connection closed.
StopCloses ==
  /\ Up /\ stopAt = "closing"
  /\ conn' = "closed"
  /\ connMu' = "free"
  /\ stopAt' = "done"
  /\ UNCHANGED <<runtimeVars, diskVars, request, mainAt, mode, authVars, loopAt, peer,
                 reply, writer, loopVars>>

-----------------------------------------------------------------------------
(* The network.                                                            *)

BreakConn ==
  /\ Up
  /\ \/ conn = "open" /\ conn' = "broken" /\ UNCHANGED loopAt
     \/ loopAt = "upgrading" /\ Go("pausing") /\ UNCHANGED conn
  /\ UNCHANGED <<runtimeVars, diskVars, request, mainAt, mode, authVars, stopAt, peer,
                 reply, connMu, writer, loopVars>>

StallPeer ==
  /\ Up /\ peer = "live"
  /\ conn = "open" \/ loopAt = "upgrading"
  /\ peer' = "stalled"
  /\ UNCHANGED <<runtimeVars, diskVars, request, mainAt, mode, authVars, loopAt, stopAt,
                 conn, reply, connMu, writer, loopVars>>

LoopStep ==
  \/ LoopTop \/ DialServer \/ UpgradeConn \/ SendAuth \/ ReadReply \/ FinishSave \/ LoseReply
  \/ BeginServing \/ LookAtContext \/ ReadFails \/ LeaveLoop \/ JoinWriter \/ DropConn
  \/ RunResets \/ EndPause

StopStep == StopResets \/ StopLocks \/ StopCloses

NextLifecycle ==
  \/ \E m \in {"connect", "node"}, k \in Tokens \cup {NoToken} : StartRelay(m, k)
  \/ ExitRelay \/ CrashRelay \/ DeleteConfig
  \/ LoopStep \/ ReadRequest \/ StartChild \/ FillInput \/ DrainInput
  \/ WriterStarts \/ WriterEnds \/ WriterLeaves
  \/ CallStop \/ StopStep
  \/ ServerHandles \/ BreakConn \/ StallPeer

SpecLifecycle == InitLifecycle /\ [][NextLifecycle]_<<runtimeVars, lifeVars>>

\* A write ends when the peer reads, or when the connection is gone.
WriteEnds == conn # "open" \/ peer = "live"

\* Goroutines that can run do; a call is taken or fails; a live peer answers and
\* reads.  A stalled one does nothing, and no deadline is set anywhere that would
\* end the wait for it, in the dial or after it.  Nothing makes a process read its
\* input, and KillAll waits for it.
FairLifecycle ==
  /\ WF_<<runtimeVars, lifeVars>>(LoopStep)
  /\ WF_<<runtimeVars, lifeVars>>(WriterLeaves)
  /\ WF_<<runtimeVars, lifeVars>>(WriteEnds /\ WriterEnds)
  /\ WF_<<runtimeVars, lifeVars>>(StopResets)
  /\ SF_<<runtimeVars, lifeVars>>(StopLocks)
  /\ WF_<<runtimeVars, lifeVars>>(WriteEnds /\ StopCloses)
  /\ WF_<<runtimeVars, lifeVars>>(Up /\ ServerHandles)

-----------------------------------------------------------------------------
(* Properties.                                                             *)

\* A registration token is spent only by a relay without credentials, in
\* memory and on disk, whatever failed or crashed before: a relay that has
\* been given a target never becomes another one (websocket.go, line 652).
TokensBuyFirstCredentials ==
  [][spent' # spent => cfg = NoToken /\ disk = NoToken]_<<runtimeVars, lifeVars>>

Serving == At("serving") \/ At("reading")

\* A relay that serves does so as a target that the server registered, and the
\* credentials on disk are those of that target; unless a Save has failed
\* since the start, for the next attempt then succeeds with what HandleAuth-
\* Result left in memory, and nothing writes it any more.
ServesAsSaved ==
  Serving /\ mode = "connect" => cfg \in spent /\ (disk = cfg \/ saveFailed)

\* The writer of a connection is gone before Run resets and dials again: no
\* writer is left to take messages of the next runtime (websocket.go, lines
\* 823 to 825), with Stop resetting underneath and a write blocked.
WriterDiesWithConnection ==
  Up /\ writer # "none" => loopAt \in {"serving", "reading", "leaving", "joining"}

\* When the relay exits after Stop, its sessions have been killed; unless Run
\* has returned, and main with it, while Stop was still in its reset.
LeftoversOnlyIfOvertaken ==
  mainAt = "exited" /\ children # {} => stopAt \in {"resetting", "retiring"}

\* KillAll of t's reset waits behind a write to a stdin (proc.go, line 204).
KillAllWaits(t) == resetting[t] = "cancelled" /\ retired[t] \in unread

\* What can keep Run from returning: a peer that has stalled, before it answered
\* the upgrade, or with a write to it holding connMu, or with Run waiting for its
\* answer when Stop has found no connection to close; and a process that does not
\* read its input, in the way of Run's KillAll, or of Stop's, which then does not
\* come to closing the connection that Run waits on.
Stuck ==
  \/ /\ peer = "stalled"
     /\ connMu # "free" \/ loopAt = "upgrading" \/ (loopAt = "asked" /\ stopAt = "done")
  \/ loopAt = "reading" /\ KillAllWaits(Stop)
  \/ KillAllWaits(Run)

\* Once Stop is called Run returns: a dial, an authentication, a save, a reset,
\* a pause and a blocked write may all be in its way.
StopEndsRun == (Up /\ stopAt # "idle") ~> (loopAt = "returned" \/ ~Up \/ Stuck)
=============================================================================
