--------------------------- MODULE DesktopPermit ---------------------------
(***************************************************************************)
(* The sessions of the TCP server and the one desktop they share           *)
(* (agents/windows/tcp_server.cpp): admission, the executor coroutine of   *)
(* each session, its isolated worker process, the desktop permit with its  *)
(* queue of waiters, the quarantine of workers whose exit is unconfirmed,  *)
(* and the teardown of a session.                                          *)
(*                                                                         *)
(* The server is single-threaded: an action runs from one co_await to the  *)
(* next, and a resolved promise resumes its waiter in a later action.      *)
(***************************************************************************)
EXTENDS ServerLimits, Sequences, SequencesExt

CONSTANT Kind  \* the requests clients send: "desktop" (UsesDesktop) or "plain"

ASSUME KindAssumption == Kind \subseteq {"desktop", "plain"}

VARIABLES
  multiple,    \* --connection-mode multiple, as the host was started
  stopping,    \* StopServer has run
  status,      \* life of each session in server->sessions
  exec,        \* where its ExecuteRequests coroutine is
  op,          \* the request being executed: "none", "desktop" or "plain"
  worker,      \* session->worker is set
  alive,       \* that process, or its quarantined one, still exists
  native,      \* sessions whose worker was sent a desktop command it may be executing
  busy,        \* desktop_busy
  waiters,     \* desktop_waiters
  count,       \* server->workers
  quarantine   \* sessions whose worker is in server->quarantine

coroutine == <<status, exec, op>>
process == <<worker, alive, native>>
permit == <<busy, waiters>>
vars == <<multiple, stopping, coroutine, process, permit, count, quarantine>>

Listed == {s \in Session : status[s] \in {"open", "closed", "joined", "finished"}}
Closed(s) == status[s] # "open"

Init ==
  /\ multiple \in BOOLEAN /\ stopping = FALSE
  /\ status = [s \in Session |-> "new"]
  /\ exec = [s \in Session |-> "idle"] /\ op = [s \in Session |-> "none"]
  /\ worker = [s \in Session |-> FALSE] /\ alive = [s \in Session |-> FALSE]
  /\ native = {} /\ busy = FALSE /\ waiters = <<>>
  /\ count = 0 /\ quarantine = {}

(* Mutated: a quarantined worker does not prevent a new session. *)
RefusedIgnoringQuarantine == ~multiple /\ Listed # {}

-----------------------------------------------------------------------------
(* Admission and closing. *)

Refused == ~multiple /\ (Listed # {} \/ quarantine # {})

Accept(s) ==
  /\ status[s] = "new" /\ ~stopping
  /\ ~Refused /\ Cardinality(Listed) < MaxConnections
  /\ status' = [status EXCEPT ![s] = "open"]
  /\ UNCHANGED <<stopping, exec, op, process, permit, count, quarantine>>

(* AGENT_BUSY, or the connection limit. *)
Reject(s) ==
  /\ status[s] = "new" /\ ~stopping
  /\ Refused \/ Cardinality(Listed) >= MaxConnections
  /\ status' = [status EXCEPT ![s] = "gone"]
  /\ UNCHANGED <<stopping, exec, op, process, permit, count, quarantine>>

(* CloseSession is idempotent: a later state of the session is kept. *)
ClosedStatus(s) == IF status[s] = "open" THEN "closed" ELSE status[s]

(* The peer closes, a socket fails, authentication or a send times out. *)
Disconnect(s) ==
  /\ status[s] = "open"
  /\ status' = [status EXCEPT ![s] = "closed"]
  /\ UNCHANGED <<stopping, exec, op, process, permit, count, quarantine>>

StopServer ==
  /\ ~stopping
  /\ stopping' = TRUE
  /\ status' = [s \in Session |-> ClosedStatus(s)]
  /\ UNCHANGED <<exec, op, process, permit, count, quarantine>>

-----------------------------------------------------------------------------
(* The permit. *)

(* Position of the first waiter whose promise is still pending, or 0: those *)
(* before it were cancelled and try_resolve fails on them.                  *)
Pending == {i \in DOMAIN waiters : exec[waiters[i]] = "queued"}
FirstPending == IF Pending = {} THEN 0 ELSE CHOOSE i \in Pending : \A j \in Pending : i <= j

(* Mutated: only the first waiter is tried, even when it was cancelled. *)
ReleaseDesktopToFirst(s, next) ==
  IF waiters # <<>> /\ exec[Head(waiters)] = "queued"
  THEN /\ exec' = [exec EXCEPT ![s] = next, ![Head(waiters)] = "granted"]
       /\ waiters' = Tail(waiters) /\ UNCHANGED busy
  ELSE /\ exec' = [exec EXCEPT ![s] = next]
       /\ waiters' = IF waiters = <<>> THEN <<>> ELSE Tail(waiters)
       /\ busy' = FALSE

(* ReleaseDesktop; the executor of s moves on to next. *)
ReleaseDesktop(s, next) ==
  LET i == FirstPending IN
  IF i = 0
  THEN /\ busy' = FALSE /\ waiters' = <<>>
       /\ exec' = [exec EXCEPT ![s] = next]
  ELSE /\ waiters' = SubSeq(waiters, i + 1, Len(waiters))
       /\ exec' = [exec EXCEPT ![s] = next, ![waiters[i]] = "granted"]
       /\ UNCHANGED busy

-----------------------------------------------------------------------------
(* ExecuteRequests.  An operation may be cancelled at any await by its own  *)
(* timeout or by the close of its session.                                  *)

(* Mutated: a close does not notify an executor awaiting its first request. *)
EndStartedExecutor(s) ==
  /\ exec[s] = "idle" /\ status[s] = "closed" /\ worker[s]
  /\ exec' = [exec EXCEPT ![s] = "done"]
  /\ UNCHANGED <<stopping, status, op, process, permit, count, quarantine>>

EndExecutor(s) ==
  /\ exec[s] = "idle" /\ status[s] = "closed"
  /\ exec' = [exec EXCEPT ![s] = "done"]
  /\ UNCHANGED <<stopping, status, op, process, permit, count, quarantine>>

(* A failure without the permit: the worker is left to the teardown. *)
Abandon(s) ==
  /\ exec' = [exec EXCEPT ![s] = "done"]
  /\ op' = [op EXCEPT ![s] = "none"]
  /\ status' = [status EXCEPT ![s] = ClosedStatus(s)]

(* A request is taken; its worker is started when the session has none. *)
TakeRequest(s, kind) ==
  /\ exec[s] = "idle" /\ ~Closed(s)
  /\ op' = [op EXCEPT ![s] = kind]
  /\ \/ worker[s] /\ exec' = [exec EXCEPT ![s] = "ready"] /\ UNCHANGED <<process, count>>
     \/ /\ ~worker[s] /\ count < MaxWorkers
        /\ exec' = [exec EXCEPT ![s] = "starting"]
        /\ worker' = [worker EXCEPT ![s] = TRUE]
        /\ alive' = [alive EXCEPT ![s] = TRUE]
        /\ count' = count + 1
        /\ UNCHANGED native
  /\ UNCHANGED <<stopping, status, permit, quarantine>>

(* "Operation worker limit reached." *)
TakeRequestFails(s) ==
  /\ exec[s] = "idle" /\ ~Closed(s) /\ ~worker[s] /\ count >= MaxWorkers
  /\ Abandon(s)
  /\ UNCHANGED <<stopping, process, permit, count, quarantine>>

InitializeWorker(s) ==
  /\ exec[s] = "starting" /\ alive[s]
  /\ exec' = [exec EXCEPT ![s] = "ready"]
  /\ UNCHANGED <<stopping, status, op, process, permit, count, quarantine>>

InitializeWorkerFails(s) ==
  /\ exec[s] = "starting"
  /\ Abandon(s)
  /\ UNCHANGED <<stopping, process, permit, count, quarantine>>

BeginPlain(s) ==
  /\ exec[s] = "ready" /\ op[s] = "plain" /\ ~Closed(s)
  /\ exec' = [exec EXCEPT ![s] = "running"]
  /\ UNCHANGED <<stopping, status, op, process, permit, count, quarantine>>

(* AcquireDesktop: the permit at once, or a place in the queue. *)
AcquireDesktop(s) ==
  /\ exec[s] = "ready" /\ op[s] = "desktop" /\ ~Closed(s)
  /\ IF busy
     THEN /\ waiters' = Append(waiters, s) /\ UNCHANGED busy
          /\ exec' = [exec EXCEPT ![s] = "queued"]
     ELSE /\ busy' = TRUE /\ UNCHANGED waiters
          /\ exec' = [exec EXCEPT ![s] = "running"]
  /\ UNCHANGED <<stopping, status, op, process, count, quarantine>>

(* Cancelled before a permit was asked for. *)
CancelReady(s) ==
  /\ exec[s] = "ready"
  /\ Abandon(s)
  /\ UNCHANGED <<stopping, process, permit, count, quarantine>>

(* The cancellation reaches the promise first: try_cancel wins. *)
CancelWait(s) ==
  /\ exec[s] = "queued"
  /\ exec' = [exec EXCEPT ![s] = "cancelled"]
  /\ UNCHANGED <<stopping, status, op, process, permit, count, quarantine>>

(* The cancelled waiter resumes and erases its entry, which a release may   *)
(* have popped.                                                             *)
LeaveQueue(s) ==
  /\ exec[s] = "cancelled"
  /\ waiters' = RemoveFirst(waiters, s)
  /\ Abandon(s)
  /\ UNCHANGED <<stopping, process, busy, count, quarantine>>

(* Mutated: a grant that lost against a cancellation is dropped. *)
ResumeGrantedDropping(s) ==
  /\ exec[s] = "granted"
  /\ \/ ~Closed(s) /\ exec' = [exec EXCEPT ![s] = "running"] /\ UNCHANGED <<op, status>>
     \/ Abandon(s)
  /\ UNCHANGED <<stopping, process, permit, count, quarantine>>

(* The granted waiter resumes; the permit is its own even when cancelled. *)
ResumeGranted(s) ==
  /\ exec[s] = "granted"
  /\ \/ ~Closed(s) /\ exec' = [exec EXCEPT ![s] = "running"]
     \/ exec' = [exec EXCEPT ![s] = "reaping"]
  /\ UNCHANGED <<stopping, status, op, process, permit, count, quarantine>>

(* WriteWorker: from here on the native call cannot be called back. *)
SendDesktopCommand(s) ==
  /\ exec[s] = "running" /\ op[s] = "desktop"
  /\ alive[s] /\ s \notin native
  /\ native' = native \cup {s}
  /\ UNCHANGED <<stopping, coroutine, worker, alive, permit, count, quarantine>>

(* WorkerMessageKind::Complete. *)
CompletePlain(s) ==
  /\ exec[s] = "running" /\ op[s] = "plain" /\ alive[s]
  /\ exec' = [exec EXCEPT ![s] = "idle"]
  /\ op' = [op EXCEPT ![s] = "none"]
  /\ UNCHANGED <<stopping, status, process, permit, count, quarantine>>

CompleteDesktop(s) ==
  /\ exec[s] = "running" /\ op[s] = "desktop" /\ s \in native
  /\ native' = native \ {s}
  /\ op' = [op EXCEPT ![s] = "none"]
  /\ ReleaseDesktop(s, "idle")
  /\ UNCHANGED <<stopping, status, worker, alive, count, quarantine>>

(* Timeout, disconnect, dead worker, unexpected response, full output. *)
FailPlain(s) ==
  /\ exec[s] = "running" /\ op[s] = "plain"
  /\ Abandon(s)
  /\ UNCHANGED <<stopping, process, permit, count, quarantine>>

(* Mutated: the failed operation gives the permit back before the stop. *)
FailDesktopReleasing(s) ==
  /\ exec[s] = "running" /\ op[s] = "desktop"
  /\ ReleaseDesktop(s, "done")
  /\ op' = [op EXCEPT ![s] = "none"]
  /\ status' = [status EXCEPT ![s] = ClosedStatus(s)]
  /\ UNCHANGED <<stopping, process, count, quarantine>>

(* "Keep desktop ownership until the old worker really has stopped." *)
FailDesktop(s) ==
  /\ exec[s] = "running" /\ op[s] = "desktop"
  /\ exec' = [exec EXCEPT ![s] = "reaping"]
  /\ UNCHANGED <<stopping, status, op, process, permit, count, quarantine>>

(* StopOperationWorker confirmed the exit. *)
ReapDesktop(s) ==
  /\ exec[s] = "reaping" /\ ~alive[s]
  /\ count' = count - 1
  /\ ReleaseDesktop(s, "done")
  /\ worker' = [worker EXCEPT ![s] = FALSE]
  /\ op' = [op EXCEPT ![s] = "none"]
  /\ status' = [status EXCEPT ![s] = ClosedStatus(s)]
  /\ UNCHANGED <<stopping, alive, native, quarantine>>

(* It did not: the desktop stays busy and the slot stays counted. *)
QuarantineDesktop(s) ==
  /\ exec[s] = "reaping"
  /\ quarantine' = quarantine \cup {s}
  /\ worker' = [worker EXCEPT ![s] = FALSE]
  /\ Abandon(s)
  /\ UNCHANGED <<stopping, alive, native, permit, count>>

-----------------------------------------------------------------------------
(* ServeClient after its receive loop, and ReapSessions. *)

JoinExecutor(s) ==
  /\ status[s] = "closed" /\ exec[s] = "done"
  /\ status' = [status EXCEPT ![s] = IF worker[s] THEN "joined" ELSE "finished"]
  /\ UNCHANGED <<stopping, exec, op, process, permit, count, quarantine>>

ReapWorker(s) ==
  /\ status[s] = "joined" /\ ~alive[s]
  /\ count' = count - 1
  /\ worker' = [worker EXCEPT ![s] = FALSE]
  /\ status' = [status EXCEPT ![s] = "finished"]
  /\ UNCHANGED <<stopping, exec, op, alive, native, permit, quarantine>>

QuarantineWorker(s) ==
  /\ status[s] = "joined"
  /\ quarantine' = quarantine \cup {s}
  /\ worker' = [worker EXCEPT ![s] = FALSE]
  /\ status' = [status EXCEPT ![s] = "finished"]
  /\ UNCHANGED <<stopping, exec, op, alive, native, permit, count>>

(* The session leaves server->sessions: the single slot is free again. *)
ReapSession(s) ==
  /\ status[s] = "finished"
  /\ status' = [status EXCEPT ![s] = "gone"]
  /\ UNCHANGED <<stopping, exec, op, process, permit, count, quarantine>>

(* The process ends: on its own, or because it was terminated. *)
WorkerExits(s) ==
  /\ alive[s]
  /\ alive' = [alive EXCEPT ![s] = FALSE]
  /\ native' = native \ {s}
  /\ UNCHANGED <<stopping, coroutine, worker, permit, count, quarantine>>

-----------------------------------------------------------------------------
Executor(s) ==
  \/ EndExecutor(s) \/ \E kind \in Kind : TakeRequest(s, kind)
  \/ TakeRequestFails(s) \/ InitializeWorker(s) \/ InitializeWorkerFails(s)
  \/ BeginPlain(s) \/ AcquireDesktop(s) \/ CancelReady(s) \/ CancelWait(s) \/ LeaveQueue(s)
  \/ ResumeGranted(s) \/ CompletePlain(s) \/ CompleteDesktop(s) \/ FailPlain(s) \/ FailDesktop(s)
  \/ ReapDesktop(s) \/ QuarantineDesktop(s)

Serving(s) ==
  \/ Accept(s) \/ Reject(s) \/ Disconnect(s) \/ JoinExecutor(s)
  \/ ReapWorker(s) \/ QuarantineWorker(s) \/ ReapSession(s)

Next ==
  /\ UNCHANGED multiple
  /\ \/ StopServer
     \/ \E s \in Session : Executor(s) \/ Serving(s) \/ SendDesktopCommand(s) \/ WorkerExits(s)

Spec == Init /\ [][Next]_vars

(* Scheduling: coroutines run, every await of an operation is bounded by    *)
(* its timeout, and so is each StopOperationWorker.  Nothing makes a peer   *)
(* connect, send a request or close, and a queued wait is not cut short.    *)
ExecutorProgress(s) ==
  /\ UNCHANGED multiple
  /\ \/ EndExecutor(s) \/ InitializeWorker(s) \/ InitializeWorkerFails(s)
     \/ BeginPlain(s) \/ AcquireDesktop(s) \/ CancelReady(s)
     \/ Closed(s) /\ CancelWait(s)
     \/ LeaveQueue(s) \/ ResumeGranted(s) \/ CompletePlain(s) \/ FailPlain(s)
     \/ CompleteDesktop(s) \/ FailDesktop(s) \/ ReapDesktop(s) \/ QuarantineDesktop(s)

TeardownProgress(s) ==
  /\ UNCHANGED multiple
  /\ JoinExecutor(s) \/ ReapWorker(s) \/ QuarantineWorker(s) \/ ReapSession(s)

Fairness == \A s \in Session : WF_vars(ExecutorProgress(s)) /\ WF_vars(TeardownProgress(s))

FairSpec == Spec /\ Fairness

-----------------------------------------------------------------------------
(* Properties. *)

(* Every variable keeps its type. *)
TypeOK ==
  /\ multiple \in BOOLEAN /\ stopping \in BOOLEAN /\ busy \in BOOLEAN
  /\ status \in [Session -> {"new", "open", "closed", "joined", "finished", "gone"}]
  /\ exec \in [Session -> {"idle", "starting", "ready", "queued", "cancelled", "granted",
                           "running", "reaping", "done"}]
  /\ op \in [Session -> {"none", "desktop", "plain"}]
  /\ worker \in [Session -> BOOLEAN] /\ alive \in [Session -> BOOLEAN]
  /\ native \subseteq Session /\ quarantine \subseteq Session
  /\ waiters \in Seq(Session) /\ count \in Nat

(* No two processes ever drive the desktop at once, also when the request   *)
(* of the first was cancelled, its peer is gone and its exit is unconfirmed *)
(* ("Cancellation of IPC is not cancellation of the remote Win32 call").    *)
DesktopExclusive == \A s, t \in native : s = t

Holders == {s \in Session : \/ exec[s] = "granted"
                            \/ exec[s] \in {"running", "reaping"} /\ op[s] = "desktop"}

(* The permit is never duplicated and never lost: while it is taken either  *)
(* one session holds it or a quarantined worker makes the host unhealthy,   *)
(* which is what lets the supervisor replace it.                            *)
PermitIsHeld ==
  /\ \A s, t \in Holders : s = t
  /\ Holders # {} => busy
  /\ busy => Holders # {} \/ quarantine # {}

(* Every live worker process is counted exactly once, by its session or by  *)
(* the quarantine, and never more than kMaxWorkers of them exist.           *)
WorkersAccounted ==
  /\ \A s \in Session : alive[s] => worker[s] \/ s \in quarantine
  /\ count = Cardinality({s \in Session : worker[s]}) + Cardinality(quarantine)
  /\ count <= MaxWorkers

(* The permit and the worker slots are neither duplicated nor lost: each    *)
(* has one holder or is retained by the quarantine (ExecuteRequests,        *)
(* ServeClient).                                                            *)
PermitAccounted == TypeOK /\ PermitIsHeld /\ WorkersAccounted

(* In single mode a session is served only while no process of another one  *)
(* exists ("An unconfirmed worker exit must also prevent a new session from *)
(* operating").                                                             *)
OneSession ==
  ~multiple => \A s, t \in Session : s # t /\ status[s] = "open" => ~alive[t] /\ status[t] # "open"

(* A waiter is not left behind: it is granted the permit, or cancelled, or  *)
(* the permit is retained by a quarantined worker.                          *)
WaiterIsServed(s) == exec[s] = "queued" ~> exec[s] # "queued" \/ quarantine # {}

(* A closed session always leaves server->sessions, wherever its executor   *)
(* was: the single slot is not held for ever.                               *)
SessionDrains(s) == status[s] = "closed" ~> status[s] = "gone"
=============================================================================
