# agent-rover: a TLA+ model of the Windows agent and its driver

agent-rover lets a TypeScript driver operate Windows desktops: it opens TCP
connections to an agent, which runs the requested operations in isolated worker
processes and is itself watched by a supervisor. This directory models the
concurrent core of the agent and most of the driver and its tools in TLA+, checks
them with TLC and proves the central safety properties with TLAPS. Paths below are relative to the
repository; line numbers refer to the modelled commit.

    tlc -workers 2 -config RecoveryRegistry_crash.cfg MCRecoveryRegistry.tla
    tlapm RecoveryRegistry_proofs.tla

Modules that hold proofs end in `_proofs` or `_refinement`.

`PROJECT.json` lists every run with its properties, for each property a mutant
of a modelled definition that TLC must refute, the source lines of every
definition, the hazards the properties are aimed at, the findings and the
theorems.

## 1. The system

| Component | State | Operations | Hard behaviour | What makes it correct |
|---|---|---|---|---|
| Supervisor (`agents/windows/supervisor.cpp`) | generation, current host, exit decision, start times | start a host, watch its exit and its pulses, stop it, stop its orphans, retire its generation, restart or end | host dies or hangs at any moment; exit request races the expiry | one generation at a time; Exit ends both; restarts are bounded |
| Recovery registry (`recovery_registry.cpp`) | a mapping shared by monitor and hosts: 8 worker slots, 64 capture records, an exit request | register and release a worker; reserve, commit and release a record; retire; recover | writes are interlocked one by one and a crash may separate any two; PIDs are recycled | ownership of workers and captures survives every crash; no slot leaks |
| Operation workers (`operation_worker.cpp`) | pipes, process and Job handles, capture root, reserved slots, owned applications | start, initialise, command, capture handshake, launch, stop, clean up | worker dies, hangs, cannot be confirmed dead | no command before registration; nothing is removed before a confirmed exit |
| TCP server (`tcp_server.cpp`) | sessions, request and output queues with byte budgets, worker count, desktop permit and its waiters, quarantine, recovery queue | accept, receive, queue, execute, respond, close, reap | coroutines interleave at each `co_await`; cancellation races grants and completions | one process drives the desktop; budgets and slots are conserved; nobody is forgotten |
| Async I/O (`async_io.cpp`) | single-consumer signals, sockets | wait, notify, read, write, close, drain | a notification without a waiter is lost | no lost wakeup; no handle is closed under a wait |
| Managed applications (`managed_launch.cpp`, `win32_process.cpp`) | Job handles, launch records | launch, release, kill, collect output | launcher, worker and application die in any order | a tree is killed or kept as asked; captured output outlives its writers |
| Agent protocol (`json_protocol.cpp`, `binary_transfer.cpp`, `frame.cpp`, `auth.cpp`) | per-worker transfers and recordings | dispatch a request, accept chunks | chunk order, limits | no transfer exceeds its limit |
| File logger (`file_logger.cpp`, `log_queue.cpp`, `log_storage.cpp`) | bounded queue, five rotated files | enqueue, write, rotate | full queue, failing worker | loss is counted, order kept |
| Driver connection (`agent-rover/src/driver/connection.ts`, `transport.ts`) | pending requests, binary transfers, sessions, closed flag | connect, authenticate, request, receive, time out, disconnect | responses, timeouts and close in any order | each request settles once; a timeout closes the connection |
| Frames and transfers (`tcp-frame.ts`, `protocol.ts`) | decoder buffer, open transfers | encode, decode, validate, reassemble | reads end anywhere; faults on any frame | a payload arrives whole or not at all |
| Driver calls (`connection.ts`) | held keys and buttons, borrowed clipboard text, managed processes, directory manifests | interaction sessions, clipboard, window waits, managed launches, directory upload | calls overlap, the desktop changes between two requests, any request fails | what was pressed is lifted, what was borrowed is put back, what was released is gone, what is reported was seen |
| Retries and waits (`wait.ts`, `resource-operation.ts`) | deadlines, one per wait | poll, nest, retry | an inner wait meets the outer deadline; the retry of what was half done | deadlines are shared; stages are done once |
| Selection (`configuration.ts`, `selection.ts`) | candidates, round | resolve a section, try, delay, give up | shuffled candidates failing in different ways | one section, never merged; no candidate left out |
| arctl (`arctl.ts`, `cli/`) | session, interruption, exit code | windows, launch, put, get, screenshot, record | Ctrl+C at any moment; other programs writing the same files | transfers merge; the exit code tells |
| Capture testing (`capture-testing.ts`) | artifact counter, OCR worker and its queue | compare images, read and find text | concurrent assertions share a counter and a worker | the verdict is about the pixels asked for; evidence is kept |
| Diagnostics (`diagnostics.ts`) | recent requests, bundle | wrap an operation, capture, save | failures while a failure is being reported | the manifest is true |

The monitor process starts a host (`--agent-server`) and passes it a duplicate
of the mapping. The host starts one operation worker per connection when its
first request runs and talks to it over two pipes. Worker and host share
nothing else. The monitor reads the mapping only to stop orphans and to recover
records of dead generations, beside the next host.

## 2. What is modelled

### RecoveryRegistry: supervisor, registry and worker ownership

`RecoveryRegistry.tla` is the whole capture-recovery protocol: the monitor's
loop (`Supervise`), the host's life, registration of a worker
(`RegisterRecoveryWorker`, claim and publication being two actions), the
capture handshake of `RunOperationWorker` with `HandleWorkerOwnership`
(reserve, create the directory, commit, acknowledge, write), the stop of a
worker, quarantine, the cleanup queue of the host (`RecoverFiles`) and of the
monitor (`RecoverRetiredRoots`), and Windows, which ends processes and recycles
identifiers.

* `workers` and `records` are the arrays of `SharedRecovery`; `phase`, `slot`,
  `rec` and `root` are the fields of `OperationWorker` in the host's memory,
  which `HostEnds` erases. `proc` is the worker process and its stage in the
  handshake, `occupant` says who runs under a PID, `doomed` which processes
  have been told to end. `dir` is the capture directory on disk.
* A recorded creation time is modelled as the identity `who` of the process: the
  comparison in `StopOrphanWorkers` is `occupant[pid] = who`. A recycled PID belongs to
  a `Stranger`, or to a process the agent may not open or time (`Sealed`: elevated, or
  another user's), at which `StopOrphanWorkers` returns false
  (`recovery_registry.cpp:142-147`): `SweepBlocked`.
* A host section without a `co_await` is split where it writes to the mapping.
  `HostIdle` keeps the host's other coroutines out of such a section; a crash
  may still fall into it. Between the two, the monitor and Windows act freely.
* The cleanup helper is folded into `CleanupRemoves` and `AttemptRemoves`, which
  may happen or not before the attempt's answer.

`CaptureOwnership.tla` is what the protocol promises of each directory: it is
acknowledged once, inherited by the monitor, and given up only when removed.
`RecoveryRegistry` implements it under the mapping `OwnerOf`.

### DesktopPermit: sessions, executors, desktop

`DesktopPermit.tla` models `Serve`'s admission, `ExecuteRequests`,
`AcquireDesktop`/`ReleaseDesktop`, the failure path that keeps the permit until
the worker has been stopped, quarantine, the end of `ServeClient` and
`ReapSessions`. An action runs from one `co_await` to the next. A resolved
promise (`"granted"`) or a cancelled one (`"cancelled"`) resumes in a later
action, so grant and cancellation can race in both orders. `native` is the set
of workers that were sent a desktop command and may still execute it: it
shrinks only when the worker answers or its process ends, never because the
host cancelled its pipe I/O. `multiple` is the connection mode the server was
started in; a behaviour keeps it.

### RequestBudget and OutputBudget: flow control

`ServerLimits.tla` holds the sessions and the limits of the server, and
`FlowControl.tla` what both directions of a session share: whether it is `open` and
when it is `gone`. `RequestBudget.tla` models `ReceiveFrame`, the receive loop of `ServeClient`,
`HasRequestSpace`, `ReleaseRequestBytes` and what `ExecuteRequests` does with
the reservations. `OutputBudget.tla` models `EnqueueOutput`, `SendResponses`
and the response loop. In both, `AsyncSignal` is modelled as it is: a waiter is
moved from `"waiting"` to `"woken"` by a notification and re-tests its
condition in a later action; a notification without a waiter has no effect.
Payloads are sizes.

### DriverConnection: one connection of the driver

`DriverConnection.tla` models `connectRemoteAgentOnce` with its transport and its
two receivers, from the first connection attempt to the end of the session.
Each callback of the event loop is an action (`Quiet` says when the next may
start): a timer, a socket event, a call of the program, or one frame of the
data event in `batch`. A frame that needs the file system leaves the loop at
`accepting`, whose `step` names the operation awaited; the socket stays paused,
but everything else may run meanwhile. Continuations of settled promises
(`"resolved"`, `"delivered"`, a settled `ready`) run before the next callback.

* `socket`, `closing` are the socket and `transport.close`; `greeted` is the
  transport's `ready`, `ready` the promise the attempt awaits, `disconnected`
  and `aborted` the two flags that end a session.
* `call` follows a request through `requestJson` and the reading of the result it
  names: `"answered"` means the response came before its own frame was
  written, `"reading"` that its reader waits for the transfer.
* `received` and `buffers` belong to the memory receiver; `receiving`,
  `completed`, `dir` and `removing` to the one that stores videos. `sweep` is the
  progress of `cleanupFileBinaryTransfers`, which four callers start independently;
  a call made while an earlier one of the same caller runs is merged with it.
* A transfer has a first and a last chunk. A chunk with a wrong sequence,
  size or checksum is a failing outcome of its action; `FrameTransfer` looks inside. An agent may send any
  frame of its set at any time, each once, or stay silent.
* An outbound queue beyond 32 MiB has the effect of `Call` followed by
  `WriteTimeout`. An unreadable token challenge is an outcome of
  `AcceptChallenge`. A failed write of the answer to a challenge or a ping is a
  `SocketFails`.

### RestartPolicy: the monitor's clocks

`RestartPolicy.tla` models `ReserveSupervisorStart`, `Supervise` and
`WatchProgress` with a clock: the start times kept, the delay before a
replacement, the allowance of a new host and the shorter one after each pulse,
and the auto-reset event, which outlives the host that set it. `Tick` may fall
between any two steps, so that every timer may be late; a pulse, an exit and the
end of the allowance may be seen in any order the code allows. `started`,
`pulsed` are histories. What the monitor does to the workers between two hosts
is `RecoveryRegistry`'s.

### The driver's calls

Seven components of `connection.ts`, `protocol.ts` and `wait.ts` sit above the
connection: each is a caller that makes several requests and awaits them one by
one, while the desktop, other callers and failures move in between.

* `InteractionSession.tla` is `createInteractionSession` with
  `withInteractionSession`. Requests of one connection are performed and answered
  in order (`requests`, `answers`), but a caller may make the next call before the
  last was answered; `heldIds` and `heldInputs` are the two records of the code,
  which `releaseOwnedInputs` works from.
* `ClipboardText.tla` is `withClipboardText` and `pasteClipboardText`: calls nest
  when an operation makes another; `disturbed` marks the two things the code
  cannot repair, calls that cross and a failed write.
* `ManagedProcess.tla` is `launchManagedProcess` and `createManagedProcessProxy`,
  for an agent that owns the process tree and for one that does not, in which case
  the driver tracks it by listings. `Stages` and the `…Released` flags are those of
  `releaseAsync`, with its deadline and its retries; `Spawn` and `Exit` belong to the
  application and may happen anywhere.
* `WaitRetry.tla` is `waitForResult` with `resolveWaitDeadlineMs`: waits nest up to
  `Level`; a clock is abstracted to the moment its deadline passes.
* `WindowProbe.tla` holds the probes those waits repeat: `waitForPlacement`,
  `waitForStableBounds`, `waitForVisible`, `waitForHidden`, `waitForClosed`, and the
  two waits by query. `Change` is the desktop between two requests; `truth` and
  `streak` record what it did show.
* `DirectorySync.tla` is `syncDirectory`: both manifests are taken once
  (`localManifest`, `remoteEntries`) and determine what the five loops of the call go
  through (`EntriesOf`) and request for an entry (`StepsOf`). What `options.include` and
  `options.exclude` match, directories, files and the temporary files
  `<file>.agent-rover-<time>-<index>.tmp`, is a set of the constant `Filters`;
  `included` and `excluded` are the two functions of `createDirectoryFilter`. They are
  applied as the code does: an excluded local directory is not entered, one that is only
  not included is; the remote list is filtered entry by entry; and only what is excluded
  protects the directories above it. A loop takes its entries
  in any order that keeps the order of depths (`InTurn`). A failure leaves the work half
  done and a later call starts from there. `RemoveEntry` to `RenameTemporary` are the
  agent's file system; `temporaries` are the temporary files in it, of failed calls
  (`<<p, call>>`) and of earlier ones (`<<p, 0>>`).
* `FrameTransfer.tla` is `createTransferChunks`, `encodeTcpFrame`,
  `createTcpFrameDecoder`, `parseProtocolMessage`, the two receivers and the loop of
  `acceptSocketData`. The stream may be cut into reads anywhere; a faulty sender spoils
  one frame in any of the ways the validators name; a reader may give up, which ends
  the session. `readLoop` follows one read: `decoding` takes the complete frames of the
  buffer one by one before any of them is looked at, `accepting` goes through them, and
  `awaiting` is the `await` of `onBinaryChunk` between two of them, where the socket is
  paused and senders, deadlines and the close of the socket may come in.

### The tools

* `ConnectionSelection.tla` is `loadConnectionSection` with its parser,
  `selectConnection` and `selectExplicitConnection`; an attempt has any outcome.
* `ArctlCommand.tla` is `main` of `arctl.ts` with `transferArctlFiles` and the capture
  commands. A source and a destination tree are any trees; `OtherCreates` is
  another program.
* `ImageComparison.tla` is `createLookSimilarAssertion` and
  `createSimilarityAssertion`: the flat-array arithmetic of regions and masks, and
  the artifacts of concurrent assertions, which share one counter.
* `OcrReading.tla` is `createOcrWorkerController` with its queue, shared worker and
  release, and `findText` among the words of the attempts. What a search looks for is a
  member of the constant `Expectation`, which says which candidates match: a candidate
  is the texts of words in a row, joined, and `candidateMatchesExpectedText` is a
  function of it alone. A string matches the candidates that include it, with white
  space and case folded as the options say, a `RegExp` those that pass its test; an
  empty text matches none and is refused (`SearchThrows`), as is a confidence out of
  range.
* `DiagnosticsBundle.tla` is `withDiagnostics`, `saveDiagnostics` and
  `captureDiagnostics`. `bundleFiles` is the local directory, each file with whoever
  wrote it last: an attachment, the bundle itself (0), or an earlier bundle (`Before`).
  `SafeSegment` is what `safePathSegment` makes of a name. Two names may become one
  segment, and `".."` stays what it is, so that an attachment may be saved beside the
  bundle's own files. A `remoteDirectory` lists everything below its
  local directory, whoever wrote it (`listLocalArtifactFiles`). An attachment that
  fails leaves some of its files.

### Several components in one instance

`MCAgentSafety`, `MCAgentLive`, `MCDriverCalls` and `MCDriverTools` hold
several small components that share no state in the code. Each behaviour
chooses one of them (`part`) and runs it alone; the variables of the others keep
one value. The state space is the sum, not the product, of theirs, and each
disjunct of the next-state relation is some component's. They EXTEND
their components, which therefore name their definitions apart (`IncomingInit`,
`InteractionNext`, `ManagedSpec`), so that a run checks the very property that a
theorem states. A component that does not run rests in one of its initial states.
`ImageComparison`
and `OcrReading` have two parts each in `MCDriverTools`: `AnyInput` and `AnyWords`
let one assertion or read see everything, `WholeInput` and `AWord` let two overlap.

## 3. What the runs show

| Run | Instance | Shows |
|---|---|---|
| `registry_crash` | 2 workers, 2 PIDs, 2 slots, 2 records, 2 generations | no old worker beside a new host, no stranger terminated, output always owned by one record, nothing removed under a live writer, the refinement of `CaptureOwnership` |
| `registry_capacity` | 1 slot, 1 record, 3 generations | no entry leaks or is shared at the limit; a worker the server admits always finds a slot |
| `registry_live` | 1 slot, 1 record, 1 PID, 2 generations | a stopped host is settled, unless a process that cannot be opened holds a recorded PID; a dead host's record is recovered |
| `registry_exit` | 1 worker, 2 generations | counterexample, finding 1 |
| `agent_safety` | 3 connections with frames of 1 and 3 bytes against budgets of 6 and 8; 3 sessions for the desktop over 2 workers; 3 starts in 4 ticks, clock up to 7 | budgets, balance, no lost wakeup; one desktop driver, permit and worker count conserved; starts are limited and a host is given up only after its allowance |
| `agent_live` | 3 sessions, in multiple and in single mode; 2 connections with responses of 1 and 2 bytes against 3 and 5 | every waiter for the desktop is served or cancelled, closed sessions leave, one process at a time in single mode, output balances and its executors wake |
| `driver_session` | 2 requests, a video, an image, one frame per data event | a rejected attempt is closed before it is reported, a failed request ends its session, nobody waits on a closed connection |
| `driver_live` | 1 request, a video, two frames per data event | no temporary file outlives its session, every request settles, every ended session closes |
| `driver_calls` | 2 inputs and 3 calls; 3 clipboard calls; 4 processes and 2 readers; 3 nested waits; 4 changes of the desktop; 4 paths, two of them spellings of one name, 11 filters, and 2 mirror calls; payloads of 3 and 0 units in chunks of 2, 1 message | what is held is tracked and lifted, the clipboard's text is restored, reads keep their output, a released tree is gone, deadlines are shared, waits report what was shown, a mirror is exact, transfers arrive whole or not at all |
| `driver_calls_release` | the same | counterexample, finding 2 |
| `driver_tools` | 2 endpoints and 2 sections in files of 3 lines, 1 retry; trees over 4 paths; any images of 2×2 pixels with a mask, and two assertions about whole ones; two reads and two releases, and searches for 4 expectations among 2 words of 3 boxes in 2 attempts; 4 windows, three of them in a chain, 4 attachments in 2 directories, which are new or hold an earlier bundle | selection is complete, transfers merge and exit codes tell, comparisons are exact and keep their evidence, OCR workers are kept and matches exact, bundles are true |
| `driver_tools_attachments` | the same | counterexample, finding 3 |

Bounds, and why they are enough. Two workers are needed for two claims to meet
and for one worker's slot, record or PID to be reused by another; two PIDs for
a recycled one next to a fresh one. Three generations let an entry left by the
first host be met by the monitor while the second dies and the third starts.
One slot and one record put every claim at the limit. Three sessions over two
workers let one drive the desktop, one wait and one fail or be refused. The byte
budgets are chosen so that two frames fit a connection and three do not fit the
server. A clock up to 7 with a window of 4 lets a fourth start fall on both sides
of the window's end. Sessions are not reused: the code keeps no state of a
finished one. No action of `DesktopPermit` tells the sessions apart, so that
`agent_live` states its liveness of one of them (`watched`). A driver's requests
meet only through the end of their session, for which two suffice: one fails or
waits while the other reads. Two frames in a data event let one be handled after
the event that ended the session; the agents of the driver's runs (`MCSent`)
either work or only greet, since frames of the handshake after it change
nothing but the number of states. Three calls let a session's down, a second down and a
failure overlap its release; three levels of waits have one that is neither the
outermost nor the innermost; a root, its child and grandchild and one process
more let a listing miss what another finds. Two mirror calls let the second meet
what the first left half done. Two lines of a section and one of another, over two
files, tell a merge from a choice. The filters of a mirror include and exclude a
directory with and without what is below it, a file, and temporary files only. Of the
four attachments, two share a directory that may hold files of an earlier bundle, one of
them where the second wants a directory; two are saved beside the
bundle's own files, one of which has the name of one of these. `MaxGeneration`, `MaxTime`, `MaxRequests`,
`MaxCalls`, `MaxChanges`, `MaxMessages`, `MaxLines`, `MaxRetries`, `MaxAttempts` and
`MaxWords` bound what otherwise only grows.
`CHECK_DEADLOCK FALSE` stands in every configuration but the registry's: a
server whose sessions are all gone, a closed connection and a finished call have
nothing left to do.

Fairness. `registry_live` assumes that the monitor's coroutines are scheduled,
that Windows ends a process that was told to terminate, and, as strong
fairness, that a cleanup retried every second meets its files unused
eventually: the code relies on each, and says of the last only that it retries. A sweep is not
assumed to pass a slot whose PID belongs to a process that cannot be opened.
The host is assumed to do nothing. `agent_live` assumes that executors and
teardown are scheduled, which `cardio`'s dispatcher does, that an operation
ends in one of its ways, which its timeout guarantees (`tcp_server.cpp:301`), and
that a write ends, which `kFrameMs` bounds; nothing of the peer. A queued wait is
cut short only by a closed session, so that `WaitersAreServed` does not hold
merely because waiters give up.
`driver_live` assumes that Node runs continuations and the frames it has read,
that file operations complete, that timers expire, and that a destroyed socket
reports its close. It assumes nothing of the agent, of the network or of the
program. The other runs state safety only and no fairness.

### Findings

1. `ExitIsFinal` (`registry_exit`): `Supervise` reads the exit request at
   `supervisor.cpp:142`, before it stops the host. When the progress deadline of a
   host has expired and the user chooses Exit while it is being stopped, the request
   is recorded and never read: a replacement is started, although
   `README.md:354` says "Choosing “Exit” stops both the host and its supervisor".
   The host need not hang for this: a quarantined worker or an overdue session
   also withholds the pulse, while the tray still works.
2. `NothingLeftPressed` (`driver_calls_release`): a `down` enters `heldInputs` only
   when it has been answered. An operation that starts two downs at once and
   rejects when the first fails is released while the second is on its way;
   nothing is lifted, the release succeeds, and the key stays pressed, although
   `README.md:984` says that `interaction.with` "releases session-owned input state
   afterward". What the session held when the release began is always lifted
   (`ReleaseLiftsOwned`).
3. `RequiredAttachmentsThrow` (`driver_tools_attachments`): `saveDiagnostics` records
   the failure of every attachment (`diagnostics.ts:277-289`) and reads `optional`
   nowhere; `index.ts:1150` says of it "Whether attachment failures should be recorded
   instead of thrown".

Met while modelling, and stated in the models as the code behaves rather than
as runs of their own:

* `waitForClosed` and `waitForHidden` of a child window resolve when the windows
  it belongs to could not be searched, because `collectWindows` passes over a
  failed `window.children` (`connection.ts:2702`); `AnswerWasTrue` excepts it.
* A mirror with names that differ only in case uploads a file and then deletes
  it: the manifests compare case, the agent's file system does not
  (`connection.ts:3289`). `MirrorIsExact` is
  about trees whose names are apart (`NamesAreApart`); the instance of `driver_calls`
  has such trees and others.
* A remote directory that a local file replaces is removed with what is not included
  below it. A mirror deletes an included directory with the entries below it that are
  merely not included; only excluded entries keep it
  (`hasExcludedDescendant`, `connection.ts:3443`). `OthersAreKept` excepts both
  (`Replaced`, `Swept`). A pattern that names a directory skips
  everything below it in the local tree but only itself in the remote one.
* The temporary files of interrupted calls are removed by a mirror only if the filters
  include their names (`connection.ts:3377`, `3428`, `3449`): with `include: ['*.txt']`
  or `exclude: ['**/*.tmp']` a mirror that succeeds leaves them. `Synchronized` says so
  (`included(_, "temporary")`).
* When the PID of a dead host's worker has passed to a process that the monitor cannot
  open or time, `StopOrphanWorkers` returns false at it, and `Supervise` sweeps every
  second without a replacement for as long as that process lives
  (`recovery_registry.cpp:142-147`, `supervisor.cpp:149-152`). `StoppedHostIsSettled`
  excepts it (`SweepBlocked`); once the process has gone the stop is settled.
* The agent answers `window.children` with `EnumChildWindows`
  (`agents/windows/win32_windows.cpp:254-270`), which lists the windows below a window
  at any depth, with the given window as parent of each; `agents/README.md:772` says
  "Return direct child windows for the supplied window id." A capture of diagnostics
  with descendants, `descendants` and a query that includes descendants therefore meet
  a window once for each chain of windows that leads to it: `VisitWindow` has them
  repeated, and a strict query for a nested window finds it more than once
  (`connection.ts:2686-2730`).
* The manifest of a bundle lists under a `remoteDirectory` whatever its local directory
  holds: the files of an earlier attachment, even a failed one, whose name gives the
  same segment, or of an earlier bundle (`diagnostics.ts:58-75`, `162-171`). An attachment
  called `..` lists or overwrites files beside the bundle's own, which are written after
  it. When `saveDiagnostics` rejects, the manifest of an earlier bundle stays beside new
  files. `ManifestIsTrue` says what holds all the same.
* A shared OCR worker that could not be made stays the shared one, and every
  later read fails. Two calls of `releaseAsync` that overlap may take the same worker;
  a read that resumes between them makes another one, which the second call forgets
  without terminating it (`capture-testing.ts:1612`). `WorkersAreKept` excepts such
  releases (`Overlapped`).

## 4. What is proved

Eight modules prove, for every value of the constants, what follows: all of the
safety properties that the passing runs check: the agent's, and those of the driver's
connection, its calls and its tools. The assumptions on the constants are:

* `NoneAssumption`: `None`, `Stranger` and `Sealed` are distinct from every worker, and
  the latter two from `None`;
* `BoundAssumption`: the bound on generations is a number;
* `FiniteAssumption`: for the counting argument, there are finitely many workers and
  slots;
* `PolicyAssumption`: windows and limits of the restart policy are natural numbers,
  with an allowance no longer than the startup's;
* `LimitAssumption`: the sessions of one server are finitely many, its limits natural
  numbers, its queue not of length zero, and a connection's budget no more than the
  server's;
* `BudgetAssumption`, `SizeAssumption`: the sizes of frames are natural numbers that
  `ReceiveFrame` accepts, those of responses such that `EnqueueOutput` accepts them;
* `KindAssumption`: a request uses the desktop or does not;
* `ReferenceAssumption`, `SentAssumption`: a request refers to at most one transfer,
  none is both video and image, and an agent's frames are frames;
* `LevelAssumption`, `StableAssumption`, `RootAssumption`, `CallsAssumption`: waits nest
  at least once, the number of stable iterations is natural, the root is a process, and
  `"none"` and `"cursor"`, which stand in a request for no key, are not keys;
* `SyncAssumption`, `CanonAssumption`, `FilterAssumption`: the paths of a mirror are
  sequences of names, the root not among them; a path is not another spelling of one
  below it; a pattern that matches the name of a file matches a directory of that name;
* `TransferAssumption`: payloads are sequences of numbers, a chunk is not empty and
  leaves room for its metadata in the largest frame;
* of the tools: paths are sequences closed under their parents (`PathAssumption`),
  there is an endpoint, windows are finitely many, a capture and a scale are not empty,
  boxes are pairs of naturals, an empty text matches nothing, what is below a window
  that is below another is below that one, too, the files of an
  attachment have names, and every bound is a natural number
  (`EndpointAssumption`, `WindowAssumption`, `BoxAssumption`, `ScaleAssumption`,
  `LinesAssumption`, `BoundsAssumption`, ...).

None of the properties is inductive alone. Each proof adds to it what links the
places a fact lives in; TLC checked each of these inductive invariants on the
instance of its run before it was proved (of `FrameInv`, with the frames on their way
computed from the decoder's buffer and the wire instead of quantified).

### The agent

`RecoveryRegistry_proofs.tla` proves `TypeCorrect` and `Invariance`, that is
`Spec => []TypeOK` and `Spec => []IInv`, and from these
`NoOldWorkerBesideNewHostHolds`, `StrangersAreSparedHolds`,
`RemovedAfterExitHolds`, `OutputIsOwnedHolds`, `HandlesAreOwnedHolds`,
`CleanStartHolds`, and the action property `OwnedUntilRemovedHolds`. The parts of
`IInv` link the four places a fact lives in:

* `HostPart`: a dead host remembers nothing, and a host exists only while the
  monitor watches or stops it;
* `ProcessPart`: a worker runs under the one PID recorded for it;
* `SlotPart`, `MemPart`: a published slot belongs to the current generation, and
  what the host remembers of a worker is what its slot says;
* `CommandedIsRegistered`: a live worker that got a command stands in a
  published slot. This is what lets `StopOrphanWorkers` find it, and hence
  why `Retire` never leaves one behind;
* `RecordPart`, `ReservationPart`, `CapturePart`: who owns a record, that no two
  records own one directory, that a directory with output has an owner until it
  is removed, and that a monitored record's writer is dead.

`InvStep` has one step per action and under it one per part the action can disturb.

The end of the module proves `RegistrationFitsHolds`: the execution
slots the server counts in its own memory and the worker slots in the shared
mapping never disagree. While a host lives every slot in use is held by a worker
it remembers (`SlotsHeld`), so that, by the pigeonhole principle, a full mapping
would mean a full count, and nothing would have been spawned (`SpawnFits`).
`RegisterRecoveryWorker` therefore fails only when Windows refuses the process
times, never for want of a slot.

`RecoveryRegistry_refinement.tla` proves `ImplementsOwnershipHolds`: `Spec`
implies `CaptureOwnership` under the mapping of `RecoveryRegistry`. It adds to
`IInv` that only an acknowledged capture is ever removed (`RemovedPart`), and has one
lemma per abstract step: `Acknowledges` (`CommitRecord`), `Inherits` (`Retire`),
`Removes` and `Discharges` (a cleanup of the host or an attempt of the
monitor). Every other step leaves owners and removed captures alone.

`RestartPolicy_proofs.tla` proves `RestartsArePacedHolds` for every window, limit,
allowance and delay: no window holds more than `MaxStarts` starts, and a host is
given up for stuck only after its allowance. The first part rests on what the
kept start times are: the last ones of all starts (`KeptAreLast`), those dropped
being a window old (`DroppedAreOld`); so the start `MaxStarts` before a new one has
left the window. The second rests on `Watched`: a set event is the current host's,
since it is reset before the host gets its handle, and the deadline of a watched
host leaves the allowance it has earned.

`DesktopPermit_proofs.tla` proves `DesktopExclusiveHolds`, `PermitAccountedHolds` and
`OneSessionHolds` from `DesktopInvariance`. That no two workers drive the desktop
does not follow from the permit, because the host gives an operation up while its
worker may still execute it. Its `IInv` says therefore

* that whoever may drive the desktop, by the permit or because it was sent a command,
  is one session at most, that it holds the permit or stands in the quarantine, which
  keeps the permit, and that the permit is busy meanwhile (`NativeOwned`);
* of every executor, which stage it is in, what it waits for, and whether it has a
  worker (`ExecutorConsistent`, `SessionConsistent`);
* that `workerCount` is the number of workers that are running, stopping or
  quarantined (`WorkersAccounted`), each once;
* that in single mode a session that is served has no other with a process
  (`OneServed`), which admission tests before and `ReapSessions` frees after.

`FlowControl_proofs.tla` proves `BudgetsBalanceHolds` and `NoLostWakeupHolds` from
`IncomingInv`, and `OutputBalancesHolds` from `OutgoingInv`. To the balance of the
budgets `IncomingInv` adds that a frame has its place before it is queued
(`PlaceReserved`), so that the reservation made before an `await` is the one used after it,
and that a session torn down has nothing left (`GoneIsDone`). `NoLostWakeup` is proved
along with it: every release wakes all receivers, and the one step that makes room in a
queue without a release, an executor taking a request, leaves that executor with a
reservation to return. `OutgoingInv` adds
that a sender at work has something at the front of its queue (`FrontIsQueued`), and
that no response is larger than a connection's budget (`ResponseFits`), so that an executor
sleeps only before a queue that is not empty. The totals are sums over sessions and
over queues; what the proofs need of sums (one term changes, a term joins or
leaves, a part is no more than the whole) is proved first, by descent along finite
subsets (`WFMin`), since the induction theorems of the library cannot be used.

### The driver's connection

`DriverConnection_proofs.tla` proves `FailedAttemptIsClosedHolds`,
`FailureEndsSessionHolds` and `WaitersAreSettledHolds` from `EndInv`, and
`FilesAreCollectedHolds` from `FilesInv`. `EndInv` says what is over stays over
(`OverIsOver`): a socket that has closed has seen its listeners run, which settle the
requests, the writes and the readers of both receivers, and a connection still being
made has none (`NothingYet`). `FilesInv` follows each video through its stages, `New`,
`Partial`, `Complete`, `Handed` and `Removed`: in each it is in one place, with
the receiver, with the continuation that stores it, with its reader, or in a removal
under way. `SweepsFinish` says what a sweep that has passed its wait knows, and that
the one of a closed socket has still to come to whatever the receiver keeps.

### The driver's calls

`DriverCalls_proofs.tla` proves eight theorems about seven components.

* `DeadlineIsSharedHolds`, for every depth of nesting. `WaitInv` adds `Underway`: once
  the outermost deadline has passed, so has that of every wait inside (which
  `resolveWaitDeadlineMs` sees to when one begins and the earlier deadline when one
  expires), so that the next failing probe ends them all.
* `WaitsAreTrueHolds`, for every number of stable iterations. Two facts are kept
  between the requests of a probe: the count of a placement never exceeds the
  snapshots in a row that did show it, with the one not judged yet (`CountIsCovered`),
  and an answer about to be judged was true when it was formed (`StateWasSeen`).
* `InteractionIsSafeHolds`, for any keys and any number of calls. `InteractionInv`
  is about the requests under way, performed or not, as one sequence. A key that is
  down is recorded, or a down of it is among the answers, with no lift after
  (`Tracked`). For a key that is recorded downs come before lifts, for one that is not
  lifts come before downs (`Ordered`), so that applying the answers one by one keeps
  the record true. What a release owned and has not lifted stands in its plan or has
  its lift under way (`Planned`), and once it is lifted no down of it follows.
* `TextIsRestoredHolds`, for any number of nested calls. Until a write fails or calls
  cross, the calls that have not settled are exactly the open ones, each once, and each
  keeps the text of the one around it, the outermost the original (`OpenNest`).
* `ReadsKeepOutputHolds` and `ReleasedTreeIsGoneHolds`, for any processes. `ReadsInv`
  relates reads, the release's stages and the proxy: no stage beyond the wait for reads
  is under way with one. `TreeInv` says that what the driver knows is the root and
  children of what it knows (`KnownIsTree`), that a tree is killed before it counts as
  released and its files are removed (`StagesInOrder`), and that a released tree is
  gone for good, because a process is spawned only by one that runs.
* `MirrorIsAlwaysExact`, for any trees whose names are apart, any filters and any
  number of calls. Both parts of it need what the work half done looks like.
  `LocalIsMade` says, loop by loop, which local entries are as they have to be and
  which are still as they were listed; that no removal undoes a directory already made
  rests on the order of depths (`StepsInOrder`), and that none of the last loops does,
  on every directory above a local entry being a local one, if only one that is not
  included and that the upload makes on its way (`ManifestIs`).
  `OthersAreLeft` says that everything else is as it was listed or gone and that what is
  extraneous goes when its turn comes; `RestIsKept`, that what is not included goes only
  where a file replaces a directory above it or a mirror deletes one (`Lost`), whichever
  call did so.
  `TemporariesPass` says that a temporary file of this call is about to be renamed, that
  those of others go in the fourth loop if they are included, and stay if they are
  excluded, so that what was listed below a directory still keeps it at the end. With
  names that are apart each request changes its own entry and what is below it
  (`RequestIs`), because what is above it has been made (`AboveIsMade`).
* `TransfersAlwaysArrive`, for any payloads, chunk size and frame limit, and any number
  of messages. `FrameInv` is about the frames on their way (`InFlight`): those decoded,
  and those whose units lie in the buffer and on the wire one behind the other, however
  the reads have cut them (`Spells`: a sequence of suffixes, each a frame followed by the
  next suffix, which needs no recursion). The numbers of their messages are those
  between what was handed over and what was sent, each once and in order (`Counted`),
  whatever the sender did. As long as it was faultless the same is true of the sequences
  of each transfer's chunks, no frame of it is refused, and what a receiver keeps of an
  open transfer is the beginning of its payload (`Assembled`). A decoder that stops has
  less than a frame in its buffer; with nothing on the wire, no frame is on its way, and
  a transfer sent to its end has been accepted to its end (`FramesHaveArrived`). That a
  payload handed over is the right one rests on the checksum alone (`HandedOver`).

### The tools

`DriverTools_proofs.tla` proves one theorem about each of the five tools.

* `CommandIsAlwaysHonest`, for any trees. `CommandInvariant` says what each step of a run
  presupposes of those before it (`StepsInOrder`), that what was copied is as in the
  source and nothing else has changed (`CopiesAreMade`), and that what is neither copied
  nor still to come is below something still to come (`NothingIsForgotten`). That an
  exit with 0 leaves nothing out is then shown by the shortest path that would be
  missing (`WholeSourceIsCopied`).
* `BundleIsAlwaysTrue`, for any windows, attachments, names and files that were there
  before. The files are kept with whoever wrote them last. `ListIsTrue` relates them to
  the list and the errors after each attachment: what is listed is there and old enough
  only for a reason (`OldEnough`), and what an attachment that did not fail has written
  and nobody has written since is listed, since what is written for a directory lies
  below it (`FilesAreBelow`). `BundleIsKept` adds the bundle's own files. The trace is
  the end of the requests sent (`TraceIsRecent`), and every window waiting to be visited
  is a root or below one captured before (`WindowsAreReached`).
* `ReadingIsAlwaysSound`, for any reads and releases, any words and whatever is looked
  for. In `WorkersInvariant`
  the reads with a worker are at the front of the queue, one at a time, a release takes
  the worker only when those before it have left the queue (`QueueInOrder`), and a
  living worker is the shared one or belongs to a read (`SharedWorker`,
  `OwnWorkers`). `SearchesAreTrue` keeps what was found equal to what the search yields.
  `MatchingIsRuns` and `FirstIsShortest` show that the search tries exactly the words in
  a row and that none that match are fewer, and `BoundsAreOfPixels`, by the arithmetic
  of quotients, that the union
  of the converted boxes begins and ends with a pixel of one of them.
* `SelectionIsAlwaysComplete`, for files of any length. `Followed` is what the parser
  knows after n lines, kept by each line (`LineFollowed`); it makes the endpoints of one
  search those of one section (`SectionIsOne`). `RoundsInOrder` says which candidates
  have been tried once more than the rounds completed, and how the code of a round
  depends on its failures.
* `ComparisonIsAlwaysExact`, for captures of any size. `CountIsExact` maps the indices
  of a region's flat data to its pixels, one to one, masks included (`MaskIsExact`).
  `OwnNumbers` says that the files under the number of an assertion are those its phase
  has written.

Three recursive functions are evaluated in these proofs: the parser's, the one that
drops empty boxes, and the folds they stand for. That such a function exists is
`RecursionExists`, and what holds of it at every index is shown by the least index at
which it would fail (`FirstExists`), since the induction theorems of the library cannot
be used.

### What is only model-checked

All liveness properties (section 3) and ENABLED, which are out of the prover's reach.

## 5. Not modelled, and abstractions to know of

* Time, but in `RestartPolicy`. A timeout is an action that may happen at any
  moment the code waits under it; lengths of deadlines are not compared. In
  particular it is not stated how long a frame may wait for request space within its
  30 seconds (`tcp_server.cpp:203`).
* Owned applications of the agent: `StopOperationWorker` and `RecoverOperationWorker`
  also wait for Jobs of launched applications; here a stop is confirmed or not, a
  cleanup succeeds or not. `ManagedProcess` models the driver's side only.
* A cleanup helper that outlives the crash of its host: its Job is closed with
  the host's handles, which Windows is trusted to do.
* A directory created by a worker whose host dies before the commit stays on
  disk, empty and without an owner; the code accepts this
  (`recovery_registry.cpp:165`).
* The driver's pings, the first of the two requests of a recording
  and the wait between them, and what `persistCapturedVideo` and the stream do
  with a file they own. `rm` with `force` is taken to succeed.
* `downloadDirectory`, and the plain wrappers that make one request and parse
  its result; the syntax and the choice of arctl's options (`cli/arguments.ts`), and
  everything printed.
* PNG coding, pixelmatch, SSIM and Tesseract: a pixel is a number, two pixels
  differ or not, a recognition yields any words. The adapters to test frameworks.
  Normalization of white space, folding of case and regular expressions: an
  `Expectation` says what they come to. `toContainText`, which tests the whole text of
  an attempt (`capture-testing.ts:1829`). A confidence is one of two values.
* Evidence of an earlier run in the directory of an image assertion that is used again
  (`capture-testing.ts:1014`): the files of `ImageComparison` are those of this process.
* Another program that changes the type of a path between arctl's check and its write
  (`cli/files.ts:135-142`), and files that are written half.
* The error path of the monitor's exit watch (`supervisor.cpp:73-74`), a failing wait or
  `GetExitCodeProcess`: the host is then given up at once, as if its allowance had
  passed. The limit of starts does not depend on it.
* Local file names that differ in case only: the driver's own file system compares names
  as they are spelled.
* The agent's own receivers of transfers, its request dispatch, Win32
  operations, video pipeline and file logger: sequential per worker, mostly calls
  of the operating system, or of no consequence for a session.
* How `cardio` (an empty submodule here) orders continuations: the models let
  any ready coroutine run next, which covers every order. The driver is a Node
  program: its actions run from one `await` to the next.

## 6. Plan

1. Done: the agent's registry, supervisor, sessions and flow control; the
   driver's connection, calls, waits, frames and tools.
2. Done: the proofs of every safety property that a passing run checks (section 4).
3. Models next: owned applications in the agent (launch broker, worker, launcher,
   Job and captured output) composed with `RecoveryRegistry`; both ends of a
   connection with their handshakes composed; the deadline of a frame against its
   wait for space, with a clock; `FileLog`.
