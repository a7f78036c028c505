-------------------------- MODULE RecoveryRegistry --------------------------
(***************************************************************************)
(* The capture-recovery protocol of the Windows agent: the supervisor      *)
(* (monitor) process, the host it starts and restarts, the operation       *)
(* workers the host starts, and the shared mapping through which worker    *)
(* and capture ownership survive a dead host                               *)
(* (agents/windows/recovery_registry.cpp, supervisor.cpp and the ownership *)
(* parts of operation_worker.cpp and tcp_server.cpp).                      *)
(*                                                                         *)
(* A host may die between any two actions: every interlocked write to the  *)
(* mapping is an action of its own.  A host section without a co_await     *)
(* excludes the host's other actions through HostIdle, never a crash.      *)
(***************************************************************************)
EXTENDS Naturals, FiniteSets

CONSTANTS
  Worker,        \* operation worker processes (a PID plus its creation time)
  Pid,           \* process identifiers, which Windows recycles
  WorkerSlot,    \* SharedRecovery.workers[8]
  Record,        \* SharedRecovery.records[64]
  MaxGeneration, \* bound on the host instances the monitor starts
  None,          \* no worker, slot, record or PID
  Stranger,      \* a process the agent never started
  Sealed         \* one of those that cannot be opened, or timed, by the agent

ASSUME NoneAssumption ==
  /\ None \notin Worker /\ None \notin Pid
  /\ None \notin WorkerSlot /\ None \notin Record
  /\ Stranger \notin Worker /\ Stranger # None
  /\ Sealed \notin Worker /\ Sealed # None

ASSUME BoundAssumption == MaxGeneration \in Nat

ASSUME FiniteAssumption == IsFiniteSet(Worker) /\ IsFiniteSet(WorkerSlot)

VARIABLES
  generation,     \* the monitor's counter; the current host carries it
  host,           \* "up" while the host process exists
  exitCode,       \* how the last host ended: "none", "clean" (0) or "killed"
  requestedExit,  \* SharedRecovery.requested_exit: a generation, or 0
  serverStopping, \* host: StopServer has run
  monitor,        \* phase of Supervise
  exitAgreed,     \* the decision Supervise takes before it stops the host
  retired,        \* RecoveryRegistry.retired of the monitor
  workers,        \* shared worker slots
  records,        \* shared capture records
  phase,          \* host memory, lost with the host: how far it is with a worker,
  slot,           \*   the worker slot it registered it in,
  rec,            \*   the record it reserved for it (recovery_slot),
  root,           \*   and the capture_root it was told, or None
  cleaning,       \* the worker RecoverFiles is awaiting, or None
  attempt,        \* the record RecoverRetiredRoots is awaiting, or None
  proc,           \* each worker process: generation, PID and progress
  occupant,       \* who runs under each PID
  doomed,         \* PIDs whose occupant has been told to terminate
  dir             \* the capture directory of each worker

registry == <<workers, records>>
memory == <<phase, slot, rec, root>>
monitorVars == <<monitor, exitAgreed, retired, attempt>>
hostVars == <<host, exitCode, serverStopping, memory, cleaning>>
processVars == <<proc, occupant, doomed>>
vars == <<generation, requestedExit, registry, monitorVars, hostVars, processVars, dir>>

Free == 0        \* record.state 0
Claimed == 1     \* being committed
Committed == 2
Monitored == 3   \* monitor recovery

Phase == {"none", "spawned", "claimed", "ready", "reserving", "stopping",
          "unregistered", "stopped", "quarantined"}
Stage == {"waiting", "operating", "asking", "granted", "announcing",
          "committed", "capturing"}

(* SharedWorker and SharedRecord, and a worker process. *)
WorkerEntry == [state : {Free, Claimed, Committed}, gen : Nat,
                pid : Pid \cup {None}, who : Worker \cup {None}]
RecordEntry == [state : {Free, Claimed, Committed, Monitored}, gen : Nat, dir : Worker \cup {None}]
Process == [born : Nat, pid : Pid \cup {None}, stage : Stage]

Alive(w) == \E p \in Pid : occupant[p] = w

(* Terminating a process one has a handle of. *)
Terminate(w) == doomed' = doomed \cup {p \in Pid : occupant[p] = w}

(* No other host code runs while one of these sections is in progress. *)
HostIdle ==
  /\ host = "up"
  /\ \A w \in Worker : phase[w] \notin {"spawned", "claimed", "reserving", "unregistered"}

(* A PID is not recycled while the host holds a handle of its process. *)
PidFree(p) ==
  /\ occupant[p] = None
  /\ \A w \in Worker : phase[w] # "none" => proc[w].pid # p

Init ==
  /\ generation = 0 /\ requestedExit = 0
  /\ workers = [s \in WorkerSlot |-> [state |-> Free, gen |-> 0, pid |-> None, who |-> None]]
  /\ records = [r \in Record |-> [state |-> Free, gen |-> 0, dir |-> None]]
  /\ monitor = "start" /\ exitAgreed = FALSE /\ retired = 0 /\ attempt = None
  /\ host = "down" /\ exitCode = "none" /\ serverStopping = FALSE
  /\ phase = [w \in Worker |-> "none"] /\ slot = [w \in Worker |-> None]
  /\ rec = [w \in Worker |-> None] /\ root = [w \in Worker |-> None] /\ cleaning = None
  /\ proc = [w \in Worker |-> [born |-> 0, pid |-> None, stage |-> "waiting"]]
  /\ occupant = [p \in Pid |-> None] /\ doomed = {}
  /\ dir = [w \in Worker |-> "none"]

-----------------------------------------------------------------------------
(* A new host, or a dead one, remembers no worker. *)
NoMemory ==
  /\ phase' = [w \in Worker |-> "none"] /\ slot' = [w \in Worker |-> None]
  /\ rec' = [w \in Worker |-> None] /\ root' = [w \in Worker |-> None]
  /\ cleaning' = None

(* The host drops its last reference to the worker. *)
Forget(w) ==
  /\ phase' = [phase EXCEPT ![w] = "none"] /\ slot' = [slot EXCEPT ![w] = None]
  /\ rec' = [rec EXCEPT ![w] = None] /\ root' = [root EXCEPT ![w] = None]

-----------------------------------------------------------------------------
(* The monitor: Supervise. *)

StartHost ==
  /\ monitor = "start" /\ generation < MaxGeneration
  /\ generation' = generation + 1
  /\ host' = "up" /\ exitCode' = "none" /\ serverStopping' = FALSE
  /\ NoMemory
  /\ monitor' = "watch"
  /\ UNCHANGED <<requestedExit, registry, exitAgreed, retired, attempt, processVars, dir>>

(* StartOperationWorker, DuplicateHandle or the configuration write failed. *)
StartHostFails ==
  /\ monitor = "start" /\ generation < MaxGeneration
  /\ generation' = generation + 1
  /\ exitCode' = "killed" /\ monitor' = "stop" /\ exitAgreed' = FALSE
  /\ UNCHANGED <<requestedExit, registry, retired, attempt, host, serverStopping,
                 memory, cleaning, processVars, dir>>

ObserveHostExit ==
  /\ monitor = "watch" /\ host = "down"
  /\ exitAgreed' = (requestedExit = generation \/ exitCode = "clean")
  /\ monitor' = "stop"
  /\ UNCHANGED <<generation, requestedExit, registry, retired, attempt, hostVars, processVars, dir>>

(* The pulse deadline passed: the exit request is read now, before the stop. *)
ExpireHost ==
  /\ monitor = "watch" /\ host = "up"
  /\ exitAgreed' = (requestedExit = generation)
  /\ monitor' = "stop"
  /\ UNCHANGED <<generation, requestedExit, registry, retired, attempt, hostVars, processVars, dir>>

HostEnds(code) ==
  /\ host = "up"
  /\ host' = "down" /\ exitCode' = code
  /\ NoMemory
  /\ UNCHANGED <<generation, requestedExit, registry, monitorVars, serverStopping, processVars, dir>>

KillHost == monitor = "stop" /\ HostEnds("killed")

ConfirmHostStopped ==
  /\ monitor = "stop" /\ host = "down"
  /\ monitor' = "orphans"
  /\ UNCHANGED <<generation, requestedExit, registry, exitAgreed, retired, attempt,
                 hostVars, processVars, dir>>

(* StopOrphanWorkers visits the committed slots of the dead generation. *)
Orphaned(s) == workers[s].state = Committed /\ workers[s].gen = generation

(* OpenProcess or GetProcessTimes fails on the process that now runs under  *)
(* a slot's PID: every sweep ends there, whatever slots come after it.      *)
SweepBlocked == \E s \in WorkerSlot : Orphaned(s) /\ occupant[workers[s].pid] = Sealed

(* Mutated: the creation time is not compared with the recorded one. *)
TerminateOrphanByPid(s) ==
  /\ monitor = "orphans" /\ Orphaned(s)
  /\ doomed' = doomed \cup {p \in Pid : p = workers[s].pid /\ occupant[p] # None}
  /\ UNCHANGED <<generation, requestedExit, registry, monitorVars, hostVars, proc, occupant, dir>>

(* OpenProcess by PID, and a creation time that is the recorded one. *)
TerminateOrphan(s) ==
  /\ monitor = "orphans" /\ Orphaned(s)
  /\ occupant[workers[s].pid] = workers[s].who
  /\ Terminate(workers[s].who)
  /\ UNCHANGED <<generation, requestedExit, registry, monitorVars, hostVars, proc, occupant, dir>>

(* Mutated: a slot is cleared only when its PID is unused. *)
ClearVacantOrphan(s) ==
  /\ monitor = "orphans" /\ Orphaned(s)
  /\ occupant[workers[s].pid] = None
  /\ workers' = [workers EXCEPT ![s].state = Free]
  /\ UNCHANGED <<generation, requestedExit, records, monitorVars, hostVars, processVars, dir>>

(* No process has the PID, or one that was created at another time.         *)
ClearOrphan(s) ==
  /\ monitor = "orphans" /\ Orphaned(s)
  /\ occupant[workers[s].pid] \notin {workers[s].who, Sealed}
  /\ workers' = [workers EXCEPT ![s].state = Free]
  /\ UNCHANGED <<generation, requestedExit, records, monitorVars, hostVars, processVars, dir>>

(* Mutated: every record the dead host wrote is taken for an interrupted commit. *)
RetiredRecordFreed(record) ==
  IF record.state \in {Claimed, Committed} THEN [record EXCEPT !.state = Free] ELSE record

(* Mutated: an interrupted commit keeps its slot. *)
RetiredRecordKept(record) ==
  IF record.state = Committed /\ record.gen <= generation THEN [record EXCEPT !.state = Monitored] ELSE record

RetiredRecord(record) ==
  IF record.state = Claimed THEN [record EXCEPT !.state = Free]
  ELSE IF record.state = Committed /\ record.gen <= generation
       THEN [record EXCEPT !.state = Monitored]
       ELSE record

(* Mutated: StopOrphanWorkers is not awaited. *)
RetireAtOnce ==
  /\ monitor = "orphans"
  /\ retired' = generation
  /\ workers' = [s \in WorkerSlot |-> [workers[s] EXCEPT !.state = Free]]
  /\ records' = [r \in Record |-> RetiredRecord(records[r])]
  /\ monitor' = IF exitAgreed THEN "finished" ELSE "start"
  /\ UNCHANGED <<generation, requestedExit, exitAgreed, attempt, hostVars, processVars, dir>>

(* RetireRecoveryGeneration and the decision to end or restart. *)
Retire ==
  /\ monitor = "orphans"
  /\ \A s \in WorkerSlot : ~Orphaned(s)
  /\ retired' = generation
  /\ workers' = [s \in WorkerSlot |->
       IF workers[s].state = Claimed THEN [workers[s] EXCEPT !.state = Free] ELSE workers[s]]
  /\ records' = [r \in Record |-> RetiredRecord(records[r])]
  /\ monitor' = IF exitAgreed THEN "finished" ELSE "start"
  /\ UNCHANGED <<generation, requestedExit, exitAgreed, attempt, hostVars, processVars, dir>>

(* Mutated: the last retired generation is left out. *)
BeginOldAttempt(r) ==
  /\ attempt = None /\ monitor # "finished"
  /\ records[r].state = Monitored /\ records[r].gen < retired
  /\ attempt' = r
  /\ UNCHANGED <<generation, requestedExit, registry, monitor, exitAgreed, retired,
                 hostVars, processVars, dir>>

(* RecoverRetiredRoots, which runs beside the replacement host. *)
BeginAttempt(r) ==
  /\ attempt = None /\ monitor # "finished"
  /\ records[r].state = Monitored /\ records[r].gen <= retired
  /\ attempt' = r
  /\ UNCHANGED <<generation, requestedExit, registry, monitor, exitAgreed, retired,
                 hostVars, processVars, dir>>

AttemptRemoves(r) ==
  /\ attempt = r
  /\ dir' = [dir EXCEPT ![records[r].dir] = "removed"]
  /\ UNCHANGED <<generation, requestedExit, registry, monitorVars, hostVars, processVars>>

AttemptSucceeds(r) ==
  /\ attempt = r /\ dir[records[r].dir] = "removed"
  /\ records' = [records EXCEPT ![r].state = Free]
  /\ attempt' = None
  /\ UNCHANGED <<generation, requestedExit, workers, monitor, exitAgreed, retired,
                 hostVars, processVars, dir>>

AttemptFails(r) ==
  /\ attempt = r
  /\ attempt' = None
  /\ UNCHANGED <<generation, requestedExit, registry, monitor, exitAgreed, retired,
                 hostVars, processVars, dir>>

-----------------------------------------------------------------------------
(* The host's life. *)

HostCrash == HostEnds("killed")

TrayExit ==
  /\ host = "up"
  /\ requestedExit' = generation /\ serverStopping' = TRUE
  /\ UNCHANGED <<generation, registry, monitorVars, host, exitCode, memory, cleaning, processVars, dir>>

(* Serve has joined every session and RecoverFiles. *)
HostExits ==
  /\ serverStopping /\ cleaning = None
  /\ \A w \in Worker : phase[w] \in {"none", "stopped", "quarantined"}
  /\ HostEnds("clean")

-----------------------------------------------------------------------------
(* The host starts a worker and registers it before any command. *)

(* Mutated: an unconfirmed stop gives the execution slot back. *)
InServiceBeforeReaping == {w \in Worker : phase[w] \in {"ready", "reserving", "stopping", "unregistered"}}

(* Only a reaped worker gives its execution slot back; 8 workers, 8 slots. *)
InService == {w \in Worker : phase[w] \in {"ready", "reserving", "stopping", "unregistered", "quarantined"}}
ServiceLimitReached == Cardinality(InService) >= Cardinality(WorkerSlot)

SpawnWorker(w, p) ==
  /\ HostIdle /\ ~serverStopping /\ ~ServiceLimitReached
  /\ proc[w].born = 0 /\ PidFree(p)
  /\ proc' = [proc EXCEPT ![w] = [born |-> generation, pid |-> p, stage |-> "waiting"]]
  /\ occupant' = [occupant EXCEPT ![p] = w]
  /\ phase' = [phase EXCEPT ![w] = "spawned"] /\ UNCHANGED <<slot, rec, root>>
  /\ UNCHANGED <<generation, requestedExit, registry, monitorVars, host, exitCode,
                 serverStopping, cleaning, doomed, dir>>

ClaimWorkerSlot(w, s) ==
  /\ host = "up" /\ phase[w] = "spawned"
  /\ workers[s].state = Free
  /\ workers' = [workers EXCEPT ![s].state = Claimed]
  /\ phase' = [phase EXCEPT ![w] = "claimed"] /\ slot' = [slot EXCEPT ![w] = s]
  /\ UNCHANGED <<rec, root>>
  /\ UNCHANGED <<generation, requestedExit, records, monitorVars, host, exitCode,
                 serverStopping, cleaning, processVars, dir>>

PublishWorker(w) ==
  /\ host = "up" /\ phase[w] = "claimed"
  /\ workers' = [workers EXCEPT ![slot[w]] =
       [state |-> Committed, gen |-> generation, pid |-> proc[w].pid, who |-> w]]
  /\ phase' = [phase EXCEPT ![w] = "ready"] /\ UNCHANGED <<slot, rec, root>>
  /\ UNCHANGED <<generation, requestedExit, records, monitorVars, host, exitCode,
                 serverStopping, cleaning, processVars, dir>>

(* GetProcessTimes failed, or no slot was free: the last Job handle is closed. *)
RegistrationFails(w) ==
  /\ host = "up" /\ phase[w] = "spawned"
  /\ Terminate(w)
  /\ Forget(w)
  /\ UNCHANGED <<generation, requestedExit, registry, monitorVars, host, exitCode,
                 serverStopping, cleaning, proc, occupant, dir>>

-----------------------------------------------------------------------------
(* Operations and the capture handshake between a worker and the host. *)

HostSends(w, from, to) ==
  /\ HostIdle /\ phase[w] = "ready"
  /\ proc[w].stage = from
  /\ proc' = [proc EXCEPT ![w].stage = to]
  /\ UNCHANGED <<generation, requestedExit, registry, monitorVars, hostVars, occupant, doomed, dir>>

WorkerAdvances(w, from, to) ==
  /\ Alive(w) /\ proc[w].stage = from
  /\ proc' = [proc EXCEPT ![w].stage = to]
  /\ UNCHANGED <<generation, requestedExit, registry, monitorVars, hostVars, occupant, doomed>>

SendCommand(w) == HostSends(w, "waiting", "operating")

AskReservation(w) == WorkerAdvances(w, "operating", "asking") /\ UNCHANGED dir

(* Mutated: a record in monitor recovery is taken for a free one. *)
ClaimRetiredRecord(w, r) ==
  /\ HostIdle /\ phase[w] = "ready" /\ rec[w] = None
  /\ proc[w].stage = "asking"
  /\ records[r].state \in {Free, Monitored}
  /\ records' = [records EXCEPT ![r].state = Claimed]
  /\ phase' = [phase EXCEPT ![w] = "reserving"] /\ rec' = [rec EXCEPT ![w] = r]
  /\ UNCHANGED <<slot, root>>
  /\ UNCHANGED <<generation, requestedExit, workers, monitorVars, host, exitCode,
                 serverStopping, cleaning, processVars, dir>>

(* ReserveRecoveryRoot: the interlocked claim, then the fields and the reply. *)
ClaimRecord(w, r) ==
  /\ HostIdle /\ phase[w] = "ready" /\ rec[w] = None
  /\ proc[w].stage = "asking"
  /\ records[r].state = Free
  /\ records' = [records EXCEPT ![r].state = Claimed]
  /\ phase' = [phase EXCEPT ![w] = "reserving"] /\ rec' = [rec EXCEPT ![w] = r]
  /\ UNCHANGED <<slot, root>>
  /\ UNCHANGED <<generation, requestedExit, workers, monitorVars, host, exitCode,
                 serverStopping, cleaning, processVars, dir>>

GrantReservation(w) ==
  /\ host = "up" /\ phase[w] = "reserving"
  /\ records' = [records EXCEPT ![rec[w]] = [state |-> @.state, gen |-> generation, dir |-> None]]
  /\ phase' = [phase EXCEPT ![w] = "ready"] /\ UNCHANGED <<slot, rec, root>>
  /\ proc' = [proc EXCEPT ![w].stage = "granted"]
  /\ UNCHANGED <<generation, requestedExit, workers, monitorVars, host, exitCode,
                 serverStopping, cleaning, occupant, doomed, dir>>

CreateDirectory(w) ==
  WorkerAdvances(w, "granted", "announcing") /\ dir' = [dir EXCEPT ![w] = "empty"]

(* ReadWorker keeps capture_root; CommitRecoveryRoot publishes the record. *)
CommitRecord(w) ==
  /\ HostIdle /\ phase[w] = "ready"
  /\ proc[w].stage = "announcing"
  /\ records[rec[w]].state = Claimed /\ records[rec[w]].gen = generation
  /\ records' = [records EXCEPT ![rec[w]] = [state |-> Committed, gen |-> generation, dir |-> w]]
  /\ root' = [root EXCEPT ![w] = w] /\ UNCHANGED <<phase, slot, rec>>
  /\ proc' = [proc EXCEPT ![w].stage = "committed"]
  /\ UNCHANGED <<generation, requestedExit, workers, monitorVars, host, exitCode,
                 serverStopping, cleaning, occupant, doomed, dir>>

AcknowledgeCapture(w) == HostSends(w, "committed", "capturing")

WriteOutput(w) ==
  /\ dir[w] = "empty"
  /\ WorkerAdvances(w, "capturing", "capturing") /\ dir' = [dir EXCEPT ![w] = "output"]

-----------------------------------------------------------------------------
(* StopOperationWorker in the host, and the recovery of the files it leaves. *)

StopWorker(w) ==
  /\ HostIdle /\ phase[w] = "ready"
  /\ phase' = [phase EXCEPT ![w] = "stopping"] /\ UNCHANGED <<slot, rec, root>>
  /\ Terminate(w)
  /\ UNCHANGED <<generation, requestedExit, registry, monitorVars, host, exitCode,
                 serverStopping, cleaning, proc, occupant, dir>>

(* Exit confirmed: ReleaseRecoveryWorker. *)
UnregisterWorker(w) ==
  /\ HostIdle /\ phase[w] = "stopping" /\ ~Alive(w)
  /\ workers[slot[w]].state = Committed /\ workers[slot[w]].gen = generation
  /\ workers' = [workers EXCEPT ![slot[w]].state = Free]
  /\ phase' = [phase EXCEPT ![w] = "unregistered"] /\ slot' = [slot EXCEPT ![w] = None]
  /\ UNCHANGED <<rec, root>>
  /\ UNCHANGED <<generation, requestedExit, records, monitorVars, host, exitCode,
                 serverStopping, cleaning, processVars, dir>>

(* Mutated: the reservation is returned whether or not it was committed. *)
SettleWorkerReleasing(w) ==
  /\ host = "up" /\ phase[w] = "unregistered"
  /\ Forget(w)
  /\ records' = IF rec[w] = None THEN records
                ELSE [records EXCEPT ![rec[w]].state = Free]
  /\ UNCHANGED <<generation, requestedExit, workers, monitorVars, host, exitCode,
                 serverStopping, cleaning, processVars, dir>>

(* Without a capture root a reservation is returned; with one it is queued. *)
SettleWorker(w) ==
  /\ host = "up" /\ phase[w] = "unregistered"
  /\ \/ /\ root[w] # None
        /\ phase' = [phase EXCEPT ![w] = "stopped"] /\ UNCHANGED <<slot, rec, root>>
        /\ UNCHANGED records
     \/ /\ root[w] = None
        /\ Forget(w)
        /\ records' = IF rec[w] = None THEN records
                      ELSE [records EXCEPT ![rec[w]].state = Free]
  /\ UNCHANGED <<generation, requestedExit, workers, monitorVars, host, exitCode,
                 serverStopping, cleaning, processVars, dir>>

(* Mutated: its capture is queued for recovery all the same. *)
QuarantineAndRecover(w) ==
  /\ HostIdle /\ phase[w] = "stopping"
  /\ phase' = [phase EXCEPT ![w] = IF root[w] # None THEN "stopped" ELSE "quarantined"]
  /\ UNCHANGED <<slot, rec, root>>
  /\ UNCHANGED <<generation, requestedExit, registry, monitorVars, host, exitCode,
                 serverStopping, cleaning, processVars, dir>>

(* Its exit, or that of an application it owns, could not be confirmed. *)
QuarantineWorker(w) ==
  /\ HostIdle /\ phase[w] = "stopping"
  /\ phase' = [phase EXCEPT ![w] = "quarantined"] /\ UNCHANGED <<slot, rec, root>>
  /\ UNCHANGED <<generation, requestedExit, registry, monitorVars, host, exitCode,
                 serverStopping, cleaning, processVars, dir>>

BeginCleanup(w) ==
  /\ HostIdle /\ cleaning = None /\ phase[w] = "stopped"
  /\ cleaning' = w
  /\ UNCHANGED <<generation, requestedExit, registry, monitorVars, host, exitCode,
                 serverStopping, memory, processVars, dir>>

CleanupRemoves(w) ==
  /\ cleaning = w
  /\ dir' = [dir EXCEPT ![w] = "removed"]
  /\ UNCHANGED <<generation, requestedExit, registry, monitorVars, hostVars, processVars>>

(* Mutated: the record is released whatever the helper answered. *)
CleanupEnds(w) ==
  /\ HostIdle /\ cleaning = w
  /\ records' = [records EXCEPT ![rec[w]].state = Free]
  /\ Forget(w)
  /\ cleaning' = None
  /\ UNCHANGED <<generation, requestedExit, workers, monitorVars, host, exitCode,
                 serverStopping, processVars, dir>>

CleanupSucceeds(w) ==
  /\ HostIdle /\ cleaning = w /\ dir[w] = "removed"
  /\ records' = [records EXCEPT ![rec[w]].state = Free]
  /\ Forget(w)
  /\ cleaning' = None
  /\ UNCHANGED <<generation, requestedExit, workers, monitorVars, host, exitCode,
                 serverStopping, processVars, dir>>

CleanupFails(w) ==
  /\ HostIdle /\ cleaning = w
  /\ cleaning' = None
  /\ UNCHANGED <<generation, requestedExit, registry, monitorVars, host, exitCode,
                 serverStopping, memory, processVars, dir>>

-----------------------------------------------------------------------------
(* Windows: processes end, and their identifiers are recycled. *)

ProcessExits(p) ==
  /\ occupant[p] # None
  /\ occupant' = [occupant EXCEPT ![p] = None]
  /\ doomed' = doomed \ {p}
  /\ UNCHANGED <<generation, requestedExit, registry, monitorVars, hostVars, proc, dir>>

StrangerStarts(p) ==
  /\ PidFree(p)
  /\ \E who \in {Stranger, Sealed} : occupant' = [occupant EXCEPT ![p] = who]
  /\ UNCHANGED <<generation, requestedExit, registry, monitorVars, hostVars, proc, doomed, dir>>

-----------------------------------------------------------------------------
MonitorNext ==
  \/ StartHost \/ StartHostFails \/ ObserveHostExit \/ ExpireHost \/ KillHost
  \/ ConfirmHostStopped \/ Retire
  \/ \E s \in WorkerSlot : TerminateOrphan(s) \/ ClearOrphan(s)
  \/ \E r \in Record : BeginAttempt(r) \/ AttemptRemoves(r) \/ AttemptSucceeds(r) \/ AttemptFails(r)

HostNext ==
  \/ HostCrash \/ TrayExit \/ HostExits
  \/ \E w \in Worker :
       \/ \E p \in Pid : SpawnWorker(w, p)
       \/ \E s \in WorkerSlot : ClaimWorkerSlot(w, s)
       \/ \E r \in Record : ClaimRecord(w, r)
       \/ PublishWorker(w) \/ RegistrationFails(w)
       \/ SendCommand(w) \/ GrantReservation(w) \/ CommitRecord(w) \/ AcknowledgeCapture(w)
       \/ StopWorker(w) \/ UnregisterWorker(w) \/ SettleWorker(w) \/ QuarantineWorker(w)
       \/ BeginCleanup(w) \/ CleanupRemoves(w) \/ CleanupSucceeds(w) \/ CleanupFails(w)

WorkerNext == \E w \in Worker : AskReservation(w) \/ CreateDirectory(w) \/ WriteOutput(w)

SystemNext == \E p \in Pid : ProcessExits(p) \/ StrangerStarts(p)

Next == MonitorNext \/ HostNext \/ WorkerNext \/ SystemNext

Spec == Init /\ [][Next]_vars

(* Scheduling: the monitor's coroutines run, Windows ends a process that    *)
(* has been told to terminate, and a cleanup that is retried for ever       *)
(* eventually finds its files unused.  A sweep gets past a slot only while  *)
(* none stops it: StopOrphanWorkers returns at the first process it cannot  *)
(* open.                                                                    *)
Fairness ==
  /\ WF_vars(ObserveHostExit) /\ WF_vars(KillHost) /\ WF_vars(ConfirmHostStopped)
  /\ WF_vars(Retire)
  /\ \A s \in WorkerSlot : /\ WF_vars(~SweepBlocked /\ TerminateOrphan(s))
                           /\ WF_vars(~SweepBlocked /\ ClearOrphan(s))
  /\ \A p \in Pid : WF_vars(p \in doomed /\ ProcessExits(p))
  /\ \A r \in Record : /\ SF_vars(BeginAttempt(r)) /\ SF_vars(AttemptRemoves(r))
                       /\ SF_vars(AttemptSucceeds(r)) /\ WF_vars(AttemptFails(r))

FairSpec == Spec /\ Fairness

-----------------------------------------------------------------------------
(* Properties. *)

(* Every variable keeps its type; a slot's state is one of the documented    *)
(* values of SharedWorker.state and SharedRecord.state.                     *)
TypeOK ==
  /\ generation \in Nat /\ requestedExit \in Nat /\ retired \in Nat
  /\ host \in {"up", "down"} /\ exitCode \in {"none", "clean", "killed"}
  /\ serverStopping \in BOOLEAN /\ exitAgreed \in BOOLEAN
  /\ monitor \in {"start", "watch", "stop", "orphans", "finished"}
  /\ workers \in [WorkerSlot -> WorkerEntry] /\ records \in [Record -> RecordEntry]
  /\ phase \in [Worker -> Phase] /\ slot \in [Worker -> WorkerSlot \cup {None}]
  /\ rec \in [Worker -> Record \cup {None}] /\ root \in [Worker -> Worker \cup {None}]
  /\ proc \in [Worker -> Process]
  /\ cleaning \in Worker \cup {None} /\ attempt \in Record \cup {None}
  /\ occupant \in [Pid -> Worker \cup {None, Stranger, Sealed}] /\ doomed \subseteq Pid
  /\ dir \in [Worker -> {"none", "empty", "output", "removed"}]

(* A replacement host never runs beside a worker of an earlier generation   *)
(* that was ever given a command: such a worker is registered before its    *)
(* first command and StopOrphanWorkers confirms its exit ("Never place a    *)
(* replacement alongside an unconfirmed old instance", supervisor.cpp:143). *)
NoOldWorkerBesideNewHost ==
  host = "up" => \A w \in Worker :
    Alive(w) /\ proc[w].born < generation => proc[w].stage = "waiting"

(* Captured output on disk is always owned by exactly one committed or      *)
(* monitored record, whatever died in between: no crash leaks it.           *)
OutputIsOwned ==
  \A w \in Worker : dir[w] = "output" =>
    /\ \E r \in Record : records[r].state \in {Committed, Monitored} /\ records[r].dir = w
    /\ \A r, q \in Record :
         /\ records[r].state \in {Committed, Monitored} /\ records[r].dir = w
         /\ records[q].state \in {Committed, Monitored} /\ records[q].dir = w
         => r = q

(* No directory is removed under a process that may still write into it.    *)
RemovedAfterExit == \A w \in Worker : dir[w] = "removed" => ~Alive(w)

(* A live host's slot and record handles are its own: distinct workers hold *)
(* distinct entries, of its generation, never one in monitor recovery, so   *)
(* that no ReleaseRecoveryWorker or ReleaseRecoveryRoot meets a mismatch    *)
(* (the throw in the latter would end RecoverFiles).                        *)
HandlesAreOwned ==
  host = "up" =>
    /\ \A w \in Worker : rec[w] # None =>
         /\ records[rec[w]].state \in {Claimed, Committed}
         /\ phase[w] # "reserving" => records[rec[w]].gen = generation
    /\ \A w \in Worker : slot[w] # None /\ phase[w] # "claimed" =>
         workers[slot[w]] = [state |-> Committed, gen |-> generation, pid |-> proc[w].pid, who |-> w]
    /\ \A v, w \in Worker : v # w =>
         /\ slot[v] = slot[w] => slot[v] = None
         /\ rec[v] = rec[w] => rec[v] = None

(* The execution slots tcp_server.cpp counts and the shared worker slots    *)
(* agree after every crash: a worker admitted by the one fits the other.    *)
RegistrationFits ==
  \A w \in Worker : host = "up" /\ phase[w] = "spawned" =>
    \E s \in WorkerSlot : workers[s].state = Free

(* A recycled PID never makes the agent terminate somebody else's process.  *)
StrangersAreSpared == \A p \in doomed : occupant[p] \in Worker

(* A committed capture directory stays owned until it has been removed.     *)
OwnedUntilRemoved ==
  [][\A r \in Record :
       records[r].state \in {Committed, Monitored} /\ records'[r].state \in {Free, Claimed}
       => dir'[records[r].dir] = "removed"]_vars

(* An abandoned claim never consumes a slot across restarts: when the next  *)
(* host starts, every worker slot and every record that is not being        *)
(* recovered is free.                                                       *)
CleanStart ==
  monitor = "start" =>
    /\ \A s \in WorkerSlot : workers[s].state = Free
    /\ \A r \in Record : records[r].state \in {Free, Monitored}

(* "an explicit tray Exit so shutdown failures never cause a restart"       *)
(* (recovery_registry.h:43): no host follows one whose exit was requested.  *)
ExitIsFinal ==
  [][generation' # generation /\ generation > 0 => requestedExit # generation]_vars

(* The registry implements CaptureOwnership: a capture belongs to the host  *)
(* while a committed record names it, to the monitor while a monitored one  *)
(* does.                                                                    *)
OwnerOf(w) ==
  IF \E r \in Record : records[r].state = Committed /\ records[r].dir = w THEN "host"
  ELSE IF \E r \in Record : records[r].state = Monitored /\ records[r].dir = w THEN "monitor"
  ELSE "nobody"

Ownership == INSTANCE CaptureOwnership WITH
  Capture <- Worker,
  owner <- [w \in Worker |-> OwnerOf(w)],
  removed <- {w \in Worker : dir[w] = "removed"}

(* Every step of host, monitor or Windows is a step of CaptureOwnership.    *)
ImplementsOwnership == Ownership!Spec

(* A stopped host is followed by its replacement or by the monitor's end -- *)
(* unless the PID of a worker of its generation has passed to a process     *)
(* that cannot be opened or timed: Supervise then sweeps every second and   *)
(* starts nothing for as long as that process lives                         *)
(* (recovery_registry.cpp:142-147, supervisor.cpp:149-152).  Once no such   *)
(* process is left the stop is settled, or it meets another one.            *)
StoppedHostIsSettled ==
  monitor \in {"stop", "orphans"} ~> monitor \in {"start", "finished"} \/ SweepBlocked

(* A record left by a dead host is eventually free for the hosts to come.   *)
RecordsAreRecovered ==
  \A r \in Record : records[r].state = Monitored ~> records[r].state = Free \/ monitor = "finished"
=============================================================================
