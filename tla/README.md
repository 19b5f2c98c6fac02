# Taurus relay in TLA+

The relay keeps one websocket to a server and runs what the server asks for: shells, processes, file operations. This
directory holds TLA+ models of its core, the TLC configurations that check them and the proofs TLAPS checks.

## 1. Inventory

Paths are relative to `src/`.

| Part | State it keeps | Operations | What makes it correct |
|---|---|---|---|
| Output queues (`internal/tunnel/websocket.go` 269-308, 976-1172) | `outputQueues`, `completedOutputSessions`, two active lists, round-robin indices, `outputReady` | enqueue (blocks), dequeue, mark complete, reset | bounded, FIFO per session, nothing lost or stale, no goroutine blocked for ever, queues deleted when their session is over |
| Writer and control queues (807-974, 1067-1105) | two channels, `consecutivePriority` | pick, sleep in select, send, drop stale | never asleep while output waits, normal traffic passes after one burst, nothing of an old runtime on a new connection |
| Lifecycle (478-638, 643-728, 775-915) | `conn`, `ctx`, `runtimeGeneration`, runtime snapshot | Run, connect, authenticate, messageLoop, Stop, resetRuntimeState | a reset retires everything of the old runtime; a writer dies with its connection; a stopped relay ends, with its processes |
| Proc sessions (`internal/proc/proc.go` 110-481) | sessions of a multiplexer, a process and up to two readers each | spawn, stdin, resize, signal, kill, wait, Close, KillAll | exit after all output, session_id reuse only when the old output is gone, no process outlives its runtime, slots are freed, input arrives in one piece |
| proc.run (`proc.go` 238-280, 486-611, `websocket.go` 216-267, 1347-1420) | registry of cancel functions per generation and run id | run, cancel, timeout | a cancel reaches its run and no other; a run that is cancelled ends |
| Shell sessions (`internal/shell/`) | sessions, PTY, global `execBuffers` | create, exec, stdin, kill, readLoop, waitLoop | as for proc sessions, and an exec returns the output of its own command |
| Dispatch (`internal/protocol/`) | handler table (constant after start) | Handle, message types | one reply per request |
| Heartbeat (`internal/health/`) | a ticker | HeartbeatLoop, system figures | stops with its connection |
| Credentials (`internal/auth/`, `internal/config/`) | config file, one-time token | build messages, HandleAuthResult, Load, Save | a token is spent only by a relay without credentials; the relay serves as the target its file names |
| File operations (`internal/fileops/`) | the file system, owner setting | read, write (staging and rename), copy, rename without replace, ensure file, mkdir, remove, stat, glob, grep, owner checks | a reader sees a file's old or new content; ownership before publication; nothing replaced unasked |
| Reconnect delay (`internal/tunnel/reconnect.go`) | none | Backoff | delay within bounds |
| Redaction (`internal/tunnel/redact.go`), CLI (`cmd/`, `main.go`) | flags, environment | parse, start | precedence of settings |

How the parts meet: the reader of `messageLoop` starts a goroutine per request, which carries the generation of the
connection; handlers use the multiplexers of that generation; the goroutines of a session call `onOutput` and
`onExit`, which go through the output queues; replies and heartbeats go through the control queues; one writer
goroutine per connection drains all of them. `resetRuntimeState` (called by `Run` after a lost connection and by
`Stop`) bumps the generation, replaces the multiplexers, then the maps of queues, then kills the old sessions.

What is hard: goroutines blocked on a condition variable that a single `Signal` wakes one at a time; the generation
read outside the lock and used inside it; callbacks of an old runtime that run under the new one; queue deletion that
races with writers of the same queue; the exit of a process against its own output; a kill that waits for a mutex
which a write to an unread pipe holds; a session_id that is free while its old session still has to unregister; a
sentinel that is looked for in whatever a terminal shows; credentials that are in memory, on disk and at the server,
with a crash between any two; `Stop` against `Run` and against a peer that neither reads nor closes.

## 2. Modules

| Module | Models | Extends |
|---|---|---|
| `SessionStreams` | abstract: one bounded FIFO per session, dropped only by a reset | |
| `OutputQueues` | the queues themselves, under their most general client | |
| `ProcSessions` | processes, their readers, `wait`, spawn, kill and reset over the queues | `OutputQueues` |
| `TunnelWriter` | control queues, the writer goroutine, connections and resets over the queues | `OutputQueues` |
| `Runtime` | generations, their contexts, and the three critical parts of a reset | |
| `ProcRuns` | `proc.run`, `proc.cancel` and the registry between them | `Runtime` |
| `ProcStdin` | writes, EOF, kill and `KillAll` behind the stdin of a process | `Runtime` |
| `ShellSessions` | shells from `shell.create` to `shell.exit`, kill, resets | `Runtime` |
| `ShellExec` | `shell.exec` and its sentinel on a terminal | |
| `TunnelLifecycle` | the relay process: Run, connect, authenticate, Stop, credentials, crashes | `Runtime` |
| `FileOps` | the writing file requests, concurrently on one tree, with resets, crashes and failing chowns | |
| `OutputQueuesProofs`, `FileOpsProofs` | inductive invariants and theorems | the module of the name, `TLAPS` |
| `TunnelWriterProofs`, `ProcSessionsProofs` | the same, over the invariant of the queues | the module of the name, `OutputQueuesProofs` |
| `ProcProofs` | the same for `ProcRuns` and `ProcStdin` | both, `RuntimeProofs` |
| `ShellProofs` | the same for `ShellSessions` and `ShellExec` | `MCShell`, `RuntimeProofs` |
| `TunnelLifecycleProofs` | the same for `TunnelLifecycle`, and for the runs beside it | `MCRuntime`, `ProcProofs` |
| `RuntimeProofs` | lemmas about `Runtime` for the modules over it | `Runtime`, `TLAPS` |
| `MC*` | small instances for TLC | |

Two models of the reset live side by side. `OutputQueues` and its extensions need the maps of queues in it; the
modules over `Runtime` need only which generation is current and whose context is over. Both have the same critical
sections in the same order.

### OutputQueues

A Go pointer to a `sessionOutputQueue` is a cell of the set `Queues`; `queue[q]` is the object and `outputQueues[k]`
the map entry. An object that was dropped from the map while goroutines wait on it (`closed`) keeps its cell until the
last of them has left; then the cell is `Blank` again. An action is one critical section of `outputMu` or one step
outside it:

| Action | Code (`websocket.go`) |
|---|---|
| `Begin` | 988-999: the call and the unlocked generation check (a stale callback returns here) |
| `Enter` | 1000-1049: first critical section; creates the queue, sets priority and `drainWhenEmpty`, then appends, waits or gives up |
| `Resume` | 1020-1049 after `q.full.Wait` |
| `Notify` | 1051-1054: the non-blocking send on `outputReady` |
| `Dequeue(p)` | 1107-1172 with `Signal` (any one waiter) and the deletion of a drained queue |
| `MarkComplete` | 269-284 |
| `BumpGeneration`, `ClearQueues` | the `runtimeMu` and the `outputMu` section of `resetRuntimeState` (543-590) |
| `CancelContext`, `TakeReady` | `t.cancel()`, the writer's select |

Choices that need a reason:
- The generation is an atomic read inside the `outputMu` section of a writer; a bump between the lock and that read
  has the effect of a bump just before the lock, so one atomic action per section loses no behaviour.
- `dequeueOutputForPriorityLocked` has a loop that discards list entries without a queue or without items. The model
  has no action for it, because `ActiveEntriesHaveItems` (checked, and proved) says the lists never hold such an
  entry.
- `gen` of an item is a history field: the code does not store it.
- A full queue and a message of its own size class are all that sizes mean: `Sizes` and the bounds are small numbers.

### ProcSessions

A session is one run of `proc.spawn`. `CheckSpawn` is the handler up to its output-state check, `Spawn` the call of
`Multiplexer.Spawn` (one critical section of `m.mu`). `ReadChunk` and `EndOfStream` are `streamOutput`; `Reap`,
`FinishOutput`, `EnqueueExit`, `Unregister` are `wait` and the exit callback, each step where another goroutine can
come between. `Reap` closes the pipes, as `cmd.Wait` does; a pty stays open. The multiplexer of generation `g` is
closed exactly when `g` is no longer current, because `Close` and the bump are in one `runtimeMu` section.
`KillAll(t)` is the last part of a reset, for the multiplexers that this reset took.

`cmd.Wait` returns when the process itself is gone, and a process may leave descendants behind. On pipes they do not
matter, for `cmd.Wait` closes the read ends. On a pty they do: `heldOpen` has the terminals that something left behind
has open; their readers go on reading, there may be more to read, and they see the end only once the last descendant
lets go (`LetGo`) or a kill has closed the pty.

### TunnelWriter

`wpc` walks through `tryDequeueNextMessage` one try at a time (another goroutine can enqueue between two tries), then
to the select, then to the write. Control messages are reduced to the generation they carry. `picked` is the message
between the dequeue and the write. `Dial`, `Connect`, `LoseConnection`, `RunResets`, `SwapQueues`, `Drain` are what
`Run` does around it; `Cancel` and `StopResets` are `Stop`. `burst` stops at `BurstLimit`, since the code only
compares it with the limit. `waited` and `normalUp` are history variables for `NormalWaitsOneBurst`. A session keeps
the priority it was spawned with.

### FileOps

Independent of the other modules: file requests meet the rest of the relay only where a reset cancels their context.
`node` is the tree (who owns an entry, who made it, are its bytes complete), `stage` the staging file of each write or
copy, which moves and disappears with the directory it is in. `pc` names the next system call of the goroutine of a
request: `ListMissing`, `MakeDir`, `HandDir` are `EnsureOwnedDir`; `CreateStaging`, `Fill`, `HandStaged`, `LastCheck`,
`Publish` are `WriteContext` and `copyOneOwned` (a copy looks at its context only between pairs); `OpenExclusive`,
`VerifyOwner`, `HandEnsured` are `EnsureOwnedFile`; then `RemoveContext` and `RenameContext` with `renameat2` or its
fallback. `RemoveTree` removes one entry per step, as `os.RemoveAll` does. A rename moves everything below its source
(`Rebased`), staging files included, and the system refuses to move a directory below itself. Go's `os` calls and the
file system are external and modelled from their use. A chmod is merged into the chown after it. `resetAt` is the
context together with a history for `ResetStopsWrites`: whether the reset came before the last look at it. `strayed`
is a history for `SuccessHandsOver`: the requests that had a directory renamed away between its mkdir and its chown.

### Runtime

The handler of a request knows the generation it came in with; `resetRuntimeState` retires a generation in three
parts: `SwapRuntime` (the `runtimeMu` section, which closes the multiplexers and bumps the generation),
`CancelPrevious` (`prevCancel` and the clearing of the output state), `EndReset` (`KillAll` and draining). Each module
conjoins what these parts do to its own state. `CancelAll` is `Stop` cancelling `t.ctx`, the parent of all of them. A
multiplexer is open exactly while its generation is current, so no variable says so.

### ProcRuns

`runAt` follows `handleProcRun`: arrived, registered (`rememberProcRunCancel`), running, killing (after `ctx.Done`),
returned, answered (after the deferred `forgetProcRunCancel`). `cause` is `context.Cause` of the handler's context,
`expiry` the error of the child context with the timeout: which of two comes first matters to the answer. `HelperOf`
says whether the process leaves a descendant behind that keeps its stdout open, inside its process group (the kill
reaches it) or outside (it does not); with a `bytes.Buffer` as stdout, `cmd.Wait` waits for it. `cancelProcRun` is
`TakeEntry` (locked) and then `Fire` (the call of the cancel function outside the lock); `handleProcCancel` tries the
run id and then the request id.

### ProcStdin

One pipe per session holds `PipeSize` units; `WriteSome` is what the kernel takes of a write, unit by unit, and
`ReadInput` what the process reads, if it ever does. `stdinMu` is held by a write from `LockForWrite` until it
returns. `Kill` closes stdin under the same mutex (`KillCloses`) before it sends the signal, and `KillAll`
(`EmptyMap`, then `NextVictim`, `CloseVictim`, `KillVictim` per session) does so for one session after the other. A
stdin request with data and EOF looks the session up twice.

### ShellSessions

An element of `Shells` is a Session object, and `sessions` has the maps of all multiplexers, by generation and id.
`waitLoop` is `ReapShell`, `MarkShellComplete`, `PublishExit`, `UnregisterShell`; the last deletes by id, whoever has
it now, and `Multiplexer.Kill` takes the entry out long before. `Jobs` are shells that leave a background job on their
terminal: `readLoop` sees the end of the terminal only when nobody has it open (`jobs` are those that still run).
`outputState` is what `shell.create` can see of the output queues of a session_id.

### ShellExec

One session_id and the sessions that have it one after the other. A terminal shows tokens: the echo of a typed line,
output, the sentinel, the number behind it. `ReadScreen` takes a chunk of any length, so a chunk can end between
sentinel and number; `HandleExecOutput` gives it to the buffer that is in `execBuffers` at that moment, and `Parsed`
is the search for the sentinel. `Arm`, `StoreBuffer`, `TypeCommand`, the select, `Disarm`, `Leave` are `Exec`; the
mutex is held from `Arm` to `Leave`. `LongLines` do not fit into the terminal's input while another command runs.

### TunnelLifecycle

`loopAt` walks through `Run`, `connect`, `authenticate`, `messageLoop` and the reset; `stopAt` through `Stop`;
`connMu` is held during each write and during the close of `Stop`. `disk`, `spent` and `request` outlive a crash. A
token stands for the target it registers, so `cfg \in spent` says that the credentials were issued. A Save truncates
the file first, so it is `"torn"` in between. `peer = "stalled"` is a peer that neither reads nor answers while the
connection stays up. A dial is two steps, the TCP connection (`DialServer`) and the answer to the upgrade
(`UpgradeConn`); the peer may stall between them, before `t.conn` is set. `children` are the generations whose
multiplexers have a process, and `unread` those of them where a write waits for a process that does not read its
stdin: `KillAll` (`KillChildren`) waits there for `stdinMu`, as `ProcStdin` shows in detail. `StartRelay` is `connect`
or `node` started by a user or a service manager, again after each crash. It allows a token of another target beside
existing credentials.

### MC modules

An instance that would be too large as a whole is the union of scenarios, chosen by a variable that never changes, so
that all of them share a run: `MCProcScenarios` (one run with both streams; two runs, with the same or with different
ids), `MCTunnelWriter` (traffic on one connection; resets and connections), `MCProcStdin` (a pipe, a terminal, two
sessions), `MCShell` (sessions; exec), `MCRuntime` (runs; the relay process). Fairness is stated per action, and the
scenarios restrict only steps that are not fair or choices among equal ones.

## 3. Runs

All bounds are in the `.cfg` files; `MaxGeneration` bounds resets (`MaxGeneration - 1` of them), `MaxChunks` the
output of a process.

| Run | Question | Bounds and why they are enough |
|---|---|---|
| `queues` | bounds, staleness, wakeups, active lists, deletion, types, refinement of `SessionStreams` | 2 goroutines that change the session's priority, queue of 2 messages or 3 bytes, sizes 1, 2 and 4 (one oversized; items of different size make loss, repetition and order visible), 1 reset: blocked, barging and late writers all occur |
| `proc` | exit last, refinement of `OutputQueues`, dead sessions leave, retired sessions end | 1 run with 2 readers that contend with the exit for a queue of 2, or 2 runs with one id or two, one on a pty that a descendant may keep open, and a cap of 1; 2 chunks, 1 reset |
| `writer` | no sleep on output, no stale message, one burst at most, normal traffic is sent (liveness) | resets: 3 generations, one reset by `Run` and one by `Stop`; traffic: burst of 1, a priority session, a normal session and control messages of both, one connection |
| `file_ops` | no half-made file under its name, success means ownership, a reset stops writes, a rename destroys nothing | 3 requests, two levels of directories with a file below and one beside, renames of a file and of a directory, 3 initial trees (empty, settled, with a file of an older relay), 2 chunks, one fault (reset, crash or refused chown): a third request can undo what two others race for, or remake a directory that one renamed from under another |
| `stdin` | writes arrive whole; only an unread process blocks requests and kills (liveness) | 2 requests, writes of 2 units into a pipe of 1, so that each write blocks once; 2 sessions and a reset, so that one victim can keep `KillAll` from the next |
| `shell` | map of sessions, end of doomed shells, what an exec waits for and collects, every exec returns (liveness) | 2 shells, 2 ids, 1 reset, a job on one shell; 2 execs on 2 terminals, one of which echoes, one long line: each hazard is between two |
| `runtime` | cancels, registry, end of runs; credentials, writer, leftovers, end of `Run` | 2 runs of the same id (one with a descendant in its group, one outside), a cancel by either id, 1 reset; 2 tokens, `MaxGeneration` 4 (2 connections, a reset after each and one by `Stop`), any number of crashes; a peer that stalls in the dial or later, stdin that is not read |
| `proc_reuse`, `proc_drained`, `proc_lost_output`, `proc_leaked`, `exec_echo` | expected violations, section 5 | the smallest instance that shows each |

Symmetry (`MCSymmetry`) is used only for safety. Deadlock is not checked: a stopped relay and an idle one both have
states without a step.

Some properties have an exception in them (`UnreachableOnlyAfterKill`, `OnlyUnreadInputBlocks`, `Occupied`,
`HeldByJob`, `Stuck`, ...). Each
exception is something that the code really does and that section 5 names; the property says that nothing else leads
there.

Fairness:
- `ProcSessions`: a goroutine that asks for `outputMu` gets it; a reset that has begun reaches its second section and
  its `KillAll` (here nothing blocks in between); a goroutine that can run does; a killed process ends; the websocket
  writer drains while no reset is under way (when its connection fails, `Run` resets). A reader sees the end of its
  stream once nobody has it open; nothing makes a descendant of an ended process let go of a terminal.
- `TunnelWriter`: the writer goroutine runs; a write returns, with or without an error.
- `ProcRuns`: handlers run, and a reset that has begun goes on. No process has to end by itself, and no descendant.
- `ProcStdin`: strong fairness for what waits for `stdinMu`, since Go's `sync.Mutex` hands over to a waiter of a
  millisecond. No process has to read, and none to end.
- `ShellSessions`: `waitLoop`, `readLoop` at the end of its terminal, a `Kill` and a reset go on. No shell and no job
  has to end.
- `ShellExec`: the goroutine of a request runs and its timer fires. No command has to end.
- `TunnelLifecycle`: `Run` goes on; a TCP connection is made or fails; a live peer answers the upgrade and all else,
  and reads; a `KillAll` goes on unless a process of its runtime leaves a write to its stdin unread; a write to a
  broken connection ends; strong fairness where `Stop` waits for `connMu`. A stalled peer does nothing, and the code
  sets no deadline on the dial or the connection; and nothing makes a process read. What then waits is excepted
  (`Stuck`) and not assumed away.

Nothing anywhere makes a process write, or the server send a request.

## 4. Proofs

For every number of sessions, goroutines, runs, cancels, ids, tokens, generations, and for every bound:

| Module | Theorem | Property of a run |
|---|---|---|
| `OutputQueuesProofs` | `TypeCorrect`, `BoundedQueues`, `ActiveListsExact` | `TypeOK`, `QueueBounds`, `ActiveEntriesHaveItems` |
| | `NoStaleOutput`, `WakeupsKept`, `DrainedQueuesDeleted` | `NoStaleItems`, `NoLostWakeup`, `DrainedQueueIsDeleted` |
| | `QueuesAreStreams` | `ImplementsStreams`: `Spec` implements `SessionStreams` |
| `TunnelWriterProofs` | `WriterUsesQueues` | none: `SpecWriter` implies `Spec`, so all of the above holds of it |
| | `WriterTypeCorrect`, `WriterNeverOversleeps` | `TypeOKWriter`, `NoSleepWithOutput` |
| | `ConnectionSendsItsOwn`, `BurstsAreBounded` | `OwnMessagesOnly`, `NormalWaitsOneBurst` |
| `ProcSessionsProofs` | `SessionsUseQueues` | `ImplementsOutputQueues`: `SpecSessions` implements `Spec` |
| | `SessionsTypeCorrect`, `ExitComesLast` | `TypeOKSessions`, `ExitIsLast` |
| | `DistinctIdsShareNoQueue` | none: `OneRunPerQueue` as long as no session_id is used twice |
| | `TerminalsLoseNoOutput` | none: `ExitAfterAllOutput` for terminals |
| | `SpawnKeepsSessionsApart` | none: one session per id in a multiplexer, and no more than the cap |
| `ProcProofs` | `RunsTypeCorrect`, `RegistryOfRunsIsRight`, `CancelsReachTheirRuns` | the runs' half of `TypeOKParts`, `RegistryIsRight`, `CancelReachesItsRun` |
| | `StdinTypeCorrect`, `StdinWritesAreWhole` | `TypeOKStdin`, `WritesAreWhole` |
| | `NothingAfterEof` | none: a closed stdin stays closed and takes in nothing more |
| `ShellProofs` | `ShellsTypeCorrect`, `MapOfShellsIsRight` | the sessions' half of `TypeOKParts`, `MapIsRight` |
| | `ExecTypeCorrect`, `UnechoedExecBlocks`, `ExecsKeepApart` | the execs' half of `TypeOKParts`, `BlocksUntilCompleteUnechoed`, `BuffersKeepApart` |
| | `ShellPartsTypeCorrect` | `TypeOKParts` of `MCShell` |
| `TunnelLifecycleProofs` | `LifecycleTypeCorrect`, `ServesWhatItSaved`, `WritersDieWithTheirConnection` | the relay's half of `TypeOKParts`, `ServesAsSaved`, `WriterDiesWithConnection` |
| | `NothingIsLeftBehindUnlessOvertaken`, `TokensAreForTheFirstRegistration` | `LeftoversOnlyIfOvertaken`, `TokensBuyFirstCredentials` |
| | `RuntimePartsTypeCorrect` | `TypeOKParts` of `MCRuntime` |
| `FileOpsProofs` | `FilesTypeCorrect`, `TargetsAreComplete`, `ResetReachesWrites` | `FilesTypeOK`, `PublishedIsComplete`, `ResetStopsWrites` |
| | `RenamesKeepFiles`, `SuccessLeavesNothing` | `RenameDestroysNothing`, `SuccessHandsOver` |

So every safety property that a passing run checks is also proved, each of the specification of its own module;
`ShellPartsTypeCorrect` and `RuntimePartsTypeCorrect` are about the instances that put two modules together (`MCSpec`
of `MCShell` and of `MCRuntime`), with all their constants free. Theorems beside "none" are about no property of a
run. Two of them say how far the claims go that section 5 refutes: `wait` keeps its promises to terminals, and to runs
whose session_ids differ.

The assumptions are those named in the modules. Bounds are naturals, and `MaxMessages`, `ControlCapacity`,
`BurstLimit` and `Chunks` are positive. Sentinels such as `NoQueue`, `NoRun`, `NoTerminal` and `NoToken` are not
elements of the sets they stand beside. `Writers` is finite, since a writer count is a cardinality. Every process has
a stdout. There are two resetters in `TunnelLifecycle`, `Run` and `Stop`. For the files: the paths are closed under
"the directory above"; the tree at the start is a tree, and nobody's request has made any of it; requests have the
shape their handlers accept, and the paths are long enough for what a rename may move (a bound on the model, not on
the code). TLC evaluates all of them in the runs.

None of the properties is inductive. What has to be added:

`OutputQueuesProofs`. `IInv` has five parts:
- `Heap`: each cell is mapped at most once, retired, or blank; a goroutine that waits or has been woken holds a live
  cell;
- `Accounts`: the writer count of a cell is the number of goroutines inside it, its bytes are bounded by its items;
- `Lists`: the active lists are duplicate-free, disjoint and name exactly the cells marked active, which are those
  with items;
- `Fresh`: items in mapped cells carry the current generation, or a reset is between its two sections;
- the wakeup property and the deletion property themselves, which need the four above.

The hard action is the dequeue, which removes a list entry, signals and may delete the queue. For the refinement,
`RInv` adds that the generation stays below its bound; each action then maps to one of `SessionStreams` (`Enter` and
`Resume` to an append or nothing, `Dequeue` to taking the head of one stream, `BumpGeneration` to a new generation,
`ClearQueues` to dropping the streams, all others to nothing). That a dequeue takes the head of the *right* stream
needs `Heap` and `Lists`.

`TunnelWriterProofs`. Each step of the tunnel is a step of the queues or leaves them alone (`WriterUsesQueues`), so
`IInv` holds. `WInv` adds three parts. `Own`: whatever can still be sent, in a channel, in a sender's hands or in a
queue, is of the generation of the connection or older, and the next connection begins with empty queues. `Burst`:
`waited` is at most `burst`, and while normal traffic waits, a full burst leads to a try that cannot come back empty.
`Awake`: output that arrived in a list which the writer has already tried is announced on `outputReady`, or is about
to be.

`ProcSessionsProofs`. The goroutines of a run are the writers of the queues, so `IInv` holds again. `PInv` adds which
goroutines of a run can be inside `enqueueOutputForGeneration` in each phase, and with which message (`Alive`), that a
queued `proc.exit` is of a run that is over (`ExitsAreOver`), and that nothing of the same run is behind it. That the
readers are through when the exit is sent is the `WaitGroup` of `wait`; everything else follows from it. The other
three theorems have an invariant each on top of `PInv`: what is queued or about to be under a session_id is of runs
that were given it (`Addressed`); a terminal that nobody killed is open, and its readers stay until they have read all
(`TerminalsStayOpen`); the sessions map of each multiplexer is finite, within the cap and without a repeated id
(`AllKeepApart`), where the one step that adds to it is `Spawn`.

`ProcProofs`. For the runs, `IInv` adds to the two properties the halves they rest on: each entry names a run in
flight under its own key (`EntriesAreInFlight`), a run that a cancel has taken is in no entry, so that no other can
take it (`CancelsTakeOnce`), and a run whose context was ended by a cancel was taken by one (`CausesAreTaken`). The
theorem about cancels covers two cancels that race for one run by run id and by request id; the run on TLC has only
one cancel. For stdin, `SInv` says that what is in a pipe came from writes that had the mutex (`Entered`), that the
holder of the mutex is the last the pipe took from (`Holder`), that every write is in one piece (`InPieces`), and that
it is all there unless its writer still holds the mutex or the process is dead (`AllThere`). `NothingAfterEof` is an
action property that `Holder` carries: no write is under way on a stdin that is closed.

`ShellProofs`. `UnregisterShell` deletes whatever is at its place in the map. The property speaks of shells that run;
the invariant has to say the same of every session that has not finished its exit (`UnregisteredOnlyAfterKill`), since
it is such a session that deletes the entry of another. For exec, `XInv` follows a token from the command line through
the screen and the reader to a buffer. `Requests` says who has the mutex, whose buffer is in `execBuffers`, and that
only an exec on another session of the same id can take its place there. `Shows` says that each line is typed once,
that everything shown comes from a line that was typed (`Honest`, for screen, reader and buffer), and that the output
of a command is never behind its own sentinel (`Order`, for the same three). `ResultsSeen` says that a result is given
only for a buffer with a sentinel in it.

`TunnelLifecycleProofs`. `LInv` has four parts: `PlacesAgree` (which step of a reset `Run` or `Stop` is at, and that
`Run` returns only once it is stopped), `CredentialsAreIssued` (what is in memory and on disk was issued for a token
the server took; a relay in connect mode without credentials has a token and an empty disk), `RequestsAgree` (an auth
message on its way suits what the relay has, in memory and on disk, and an answer is about a registered target) and
`ChildrenAreKnown` (a generation with processes had a request, and is current or in the middle of being retired; after
the swap of `Stop` no request comes in any more). A reset by the runs of `MCRuntime` would not keep `LInv`, so the
invariant of both together claims it of the relay's own behaviours only (`TypedInEitherPart`).

`FileOpsProofs`. `TreeInv` says what each place of a handler implies for its request, its staging file and its pairs
(`Routed`), that a staging file at the point of publication is filled and handed over (`Filled`), and that the tree is
one: what exists has directories above it, and so has every staging file (`Shape`). `TreeStep` sums up the actions as
five things a step can do to the tree; the lemmas about moves (`MovesLookBack`, `MovesLookAhead`: each entry after a
rename was one before, and the other way round) carry the rest. `FilesInv` adds the two properties and `Late`, that a
write which can still be stopped has made no file. `HandInv` adds that whatever a request made and the relay still
owns is what the request is about to hand over, or the request has failed or died, or a rename took the directory
away before its chown (`HandedOver`). All five theorems hold for every rename, of directories too.

In all modules one lemma per action, or per kind of step, shows that it preserves the invariant, a lemma collects
them, and the temporal step comes last.

Only model-checked is all liveness, since fairness and ENABLED are out of the prover's reach:
`DeadSessionsUnregister`, `RetiredSessionsEnd`, `NormalIsSent`, `OnlyUnreadInputBlocks`, `DoomedShellsEnd`,
`ExecsReturn`, `InterruptedRunsEnd`, `StopEndsRun`.

## 5. Where the code departs from what it says

Each is a run that ends in a violation and a finding with the quoted lines.
1. `proc_drained`: a session that has drained its output before its process is reaped keeps its session_id occupied
   for ever after `proc.exit`: the mark deletes queue and marker, the exit makes a new queue that nothing deletes.
2. `proc_reuse`: the check before `Spawn` is not atomic with it; messages of two runs can share a queue.
3. `proc_lost_output`: `cmd.Wait` before the readers are done loses what is still in the pipe.
4. `proc_leaked`: goroutines of an old runtime leave a completion marker or an empty queue in the maps of the new
   runtime, where the session_id is then refused.
5. `exec_echo`: on a terminal that echoes, the echo of the typed line holds the sentinel, and `shell.exec` answers 0
   before its command has run.

What the passing properties show at their exceptions, without a line that promises otherwise or with one that hedges:
- `OnlyUnreadInputBlocks`: `proc.kill` waits for `stdinMu` (`proc.go` 204), and a write to a process that does not
  read holds it; `KillAll` waits likewise, and with it the reset, all other processes of the old runtime and the next
  connection.
- `UnreachableOnlyAfterKill`: after kill and reuse of a session_id the exit callback of the old shell deletes the
  entry of the new one (`multiplexer.go` 52-62), which then runs on with nobody able to reach it, past `KillAll` too.
- `DoomedShellsEnd` (`HeldByJob`): a shell that ended by itself while a job keeps its terminal open is `closed`, and a
  later kill or reset returns without hanging up; its exit waits for the job (`session.go` 328).
- `DeadSessionsUnregister` (`Occupied`): `wait` closes the pty only after its reader is through (`proc.go` 395-397),
  and the reader goes on while a descendant has the terminal open (376). Such a session has no process and still
  counts under the cap and keeps its session_id, until the descendant is gone or someone kills the session. Here,
  unlike for a shell, a kill or a reset does close the pty, so `RetiredSessionsEnd` needs no exception.
- `UncancellableOnlyAfterReuse`: a run that was cancelled and has its id reused before it answers removes the entry of
  its successor (`websocket.go` 1379-1382).
- `InterruptedRunsEnd`: a descendant that has left the process group keeps a cancelled or timed-out `proc.run` waiting
  for the pipe.
- `ServesAsSaved`: when Save fails the connection is given up, but the credentials stay in memory; the next attempt
  succeeds with them and nothing writes the file again.
- `Stuck`: with a peer that neither reads nor closes, `Stop` waits for `connMu` behind a blocked write, and a `Run`
  that gets its connection after `Stop` is over waits for the answer to its authentication without a limit. The dialer
  has neither a handshake timeout nor a context (`websocket.go` 617-620): a peer that accepts and never answers the
  upgrade keeps `Run` while `t.conn` is nil, so that `Stop` has nothing to close. And a `KillAll` that waits for a
  write to an unread stdin keeps `Run` in its own reset, or `Stop` in its reset, before it closes the connection.
- `LeftoversOnlyIfOvertaken`: `Run` may return, and the process exit, while `Stop` is still before its `KillAll`;
  processes of the last runtime are then left.
- `BuffersKeepApart`: an exec on a killed session deletes or replaces the buffer of its successor, which then waits
  for its timeout; output of a command that timed out is taken for output of the next one.
- `ExecsReturn`: the command is written before the timer starts; a line that does not fit blocks, and every later exec
  behind it.
- `SuccessHandsOver`: a directory whose chown failed, or whose maker was killed, stays with the relay, and every later
  recursive `file.mkdir` through it answers success. So does a directory that is renamed between its mkdir and its
  chown, which goes by path (`owner.go` 304-309): it stays with the relay, and when the path has been made again
  meanwhile the request even answers success. The property says that a request that answered success leaves no such
  directory itself, other than one that was renamed away from it (`strayed`); a later
  success over what another request left is outside it.
- `RenameDestroysNothing` is about filesystems that have `RENAME_NOREPLACE`. The fallback looks and then renames
  (`rename_noreplace_linux.go` 30-37), and what is published in between is replaced; the model has the race, and no
  property forbids it.
- `TokensBuyFirstCredentials` says when a token may be spent, not that the relay gets the answer: when the answer to a
  registration is lost, or the relay dies before its Save, it has neither credentials nor a token that is good.
- `DrainedQueueIsDeleted` is about queues whose session is marked complete. The queue that `proc.exit` makes after the
  mark is not one of them, and stays (`proc_drained`).
- The round-robin by index is not fair among three sessions of one priority: a session that is drained leaves the list
  and comes back at its end, and the index stays, so that two sessions of one message each can keep the one before the
  index waiting. `NormalIsSent` therefore speaks of one session per priority.

## 6. Not modelled

`PROJECT.json` lists every component.
- Message dispatch is a constant table; the bytes of messages, base64 and JSON are abstracted away.
- The heartbeat is a sender of `TunnelWriter`; system figures are reads.
- File reading, glob and grep change nothing and are about text. Of the writing operations, symbolic links, exact
  modes, connect mode and the check at start-up are left out.
- The reconnect delay only takes time (`Run` never gives up); its arithmetic is floating point with a random jitter.
- Log redaction, flag parsing and the install scripts have no state worth a model.
- `proc.resize`, `shell.resize` and `shell.stdin` act on the terminal only; `proc.signal` may end a process, which
  processes do anyway.

## 7. Plan

1. Proofs: that `ProcStdin` implements one atomic write per request.
2. The heartbeat, which reads the multiplexers while a reset replaces them.
3. Sessions of both priorities in the instance of `ProcSessions`.
4. Pure algorithms: matching of `**`, the capture buffer.
