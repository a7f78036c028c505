---------------------- MODULE RecoveryRegistry_proofs ----------------------
(***************************************************************************)
(* The safety properties of RecoveryRegistry hold for every number of      *)
(* workers, PIDs, slots, records and host instances.  The argument is one  *)
(* inductive invariant, IInv, preserved action by action.                  *)
(***************************************************************************)
EXTENDS RecoveryRegistry, FiniteSetTheorems, TLAPS

(* A mapping just created and a monitor just started have their types.      *)
LEMMA TypeInit == Init => TypeOK
<1> SUFFICES ASSUME Init PROVE TypeOK
  OBVIOUS
<1> USE DEF Init
<1>1. workers \in [WorkerSlot -> WorkerEntry] /\ records \in [Record -> RecordEntry]
  BY DEF WorkerEntry, RecordEntry, Free
<1>2. proc \in [Worker -> Process] /\ phase \in [Worker -> Phase]
  BY DEF Process, Stage, Phase
<1> QED BY <1>1, <1>2 DEF TypeOK

(* Writing a slot's state word keeps the slots' type.                       *)
LEMMA SlotStateTyped ==
  ASSUME TypeOK, NEW s, NEW new \in {Free, Claimed, Committed}
  PROVE  [workers EXCEPT ![s].state = new] \in [WorkerSlot -> WorkerEntry]
<1>1. ASSUME NEW q \in WorkerSlot PROVE [workers[q] EXCEPT !.state = new] \in WorkerEntry
  <2>1. workers[q] \in WorkerEntry
    BY DEF TypeOK
  <2> QED BY <2>1 DEF WorkerEntry
<1> QED BY <1>1 DEF TypeOK

(* Writing a record's state word keeps the records' type.                   *)
LEMMA RecordStateTyped ==
  ASSUME TypeOK, NEW r, NEW new \in {Free, Claimed, Committed, Monitored}
  PROVE  [records EXCEPT ![r].state = new] \in [Record -> RecordEntry]
<1>1. ASSUME NEW q \in Record PROVE [records[q] EXCEPT !.state = new] \in RecordEntry
  BY DEF TypeOK, RecordEntry
<1> QED BY <1>1 DEF TypeOK

(* Moving a worker process to another stage keeps the processes' type.      *)
LEMMA StageTyped ==
  ASSUME proc \in [Worker -> Process], NEW w \in Worker, NEW to \in Stage
  PROVE  [proc EXCEPT ![w].stage = to] \in [Worker -> Process]
<1>1. [proc[w] EXCEPT !.stage = to] \in Process
  BY DEF Process
<1> QED BY <1>1

(* Every step of monitor, host, workers and Windows keeps the types.        *)
LEMMA TypeStep == TypeOK /\ [Next]_vars => TypeOK'
<1> SUFFICES ASSUME TypeOK, [Next]_vars PROVE TypeOK'
  OBVIOUS
<1> USE DEF TypeOK, registry, memory, monitorVars, hostVars, processVars
<1>1. CASE StartHost
  <2>1. generation' \in Nat
    BY <1>1 DEF StartHost
  <2>2. serverStopping' \in BOOLEAN
    BY <1>1 DEF StartHost
  <2>3. phase' \in [Worker -> Phase]
    BY <1>1 DEF StartHost, NoMemory, Phase
  <2> QED BY <1>1, <2>1, <2>2, <2>3 DEF StartHost, NoMemory
<1>2. CASE StartHostFails
  <2>1. generation' \in Nat
    BY <1>2 DEF StartHostFails
  <2>2. exitAgreed' \in BOOLEAN
    BY <1>2 DEF StartHostFails
  <2> QED BY <1>2, <2>1, <2>2 DEF StartHostFails
<1>3. CASE ObserveHostExit
  BY <1>3 DEF ObserveHostExit
<1>4. CASE ExpireHost
  BY <1>4 DEF ExpireHost
<1>5. CASE ConfirmHostStopped
  BY <1>5 DEF ConfirmHostStopped
<1>6. CASE TrayExit
  BY <1>6 DEF TrayExit
<1>7. ASSUME NEW code \in {"clean", "killed"}, HostEnds(code) PROVE TypeOK'
  <2>1. phase' \in [Worker -> Phase]
    BY <1>7 DEF HostEnds, NoMemory, Phase
  <2> QED BY <1>7, <2>1 DEF HostEnds, NoMemory
<1>8. CASE Retire
  <2>1. workers' \in [WorkerSlot -> WorkerEntry]
    BY <1>8 DEF Retire, WorkerEntry, Free, Claimed, Committed
  <2>2. records' \in [Record -> RecordEntry]
    BY <1>8 DEF Retire, RetiredRecord, RecordEntry, Free, Claimed, Committed, Monitored
  <2>3. monitor' \in {"start", "finished"}
    BY <1>8 DEF Retire
  <2> QED BY <1>8, <2>1, <2>2, <2>3 DEF Retire
<1>9. ASSUME NEW s \in WorkerSlot, TerminateOrphan(s) PROVE TypeOK'
  BY <1>9 DEF TerminateOrphan, Terminate
<1>10. ASSUME NEW s \in WorkerSlot, ClearOrphan(s) PROVE TypeOK'
  <2>1. workers' \in [WorkerSlot -> WorkerEntry]
    BY <1>10, SlotStateTyped DEF ClearOrphan
  <2> QED BY <1>10, <2>1 DEF ClearOrphan
<1>11. ASSUME NEW r \in Record, BeginAttempt(r) PROVE TypeOK'
  BY <1>11 DEF BeginAttempt
<1>12. ASSUME NEW r \in Record, AttemptRemoves(r) PROVE TypeOK'
  BY <1>12 DEF AttemptRemoves
<1>13. ASSUME NEW r \in Record, AttemptSucceeds(r) PROVE TypeOK'
  <2>1. records' \in [Record -> RecordEntry]
    BY <1>13, RecordStateTyped DEF AttemptSucceeds
  <2> QED BY <1>13, <2>1 DEF AttemptSucceeds
<1>14. ASSUME NEW r \in Record, AttemptFails(r) PROVE TypeOK'
  BY <1>14 DEF AttemptFails
<1>15. ASSUME NEW w \in Worker, NEW p \in Pid, SpawnWorker(w, p) PROVE TypeOK'
  <2>1. phase' \in [Worker -> Phase]
    BY <1>15 DEF SpawnWorker, Phase
  <2>2. proc' \in [Worker -> Process]
    BY <1>15 DEF SpawnWorker, Process, Stage
  <2> QED BY <1>15, <2>1, <2>2 DEF SpawnWorker
<1>16. ASSUME NEW w \in Worker, NEW s \in WorkerSlot, ClaimWorkerSlot(w, s) PROVE TypeOK'
  <2>1. phase' \in [Worker -> Phase]
    BY <1>16 DEF ClaimWorkerSlot, Phase
  <2>2. workers' \in [WorkerSlot -> WorkerEntry]
    BY <1>16, SlotStateTyped DEF ClaimWorkerSlot
  <2> QED BY <1>16, <2>1, <2>2 DEF ClaimWorkerSlot
<1>17. ASSUME NEW w \in Worker, NEW r \in Record, ClaimRecord(w, r) PROVE TypeOK'
  <2>1. phase' \in [Worker -> Phase]
    BY <1>17 DEF ClaimRecord, Phase
  <2>2. records' \in [Record -> RecordEntry]
    BY <1>17, RecordStateTyped DEF ClaimRecord
  <2> QED BY <1>17, <2>1, <2>2 DEF ClaimRecord
<1>18. ASSUME NEW w \in Worker, PublishWorker(w) PROVE TypeOK'
  <2>1. phase' \in [Worker -> Phase]
    BY <1>18 DEF PublishWorker, Phase
  <2>2. workers' \in [WorkerSlot -> WorkerEntry]
    <3>1. [state |-> Committed, gen |-> generation, pid |-> proc[w].pid, who |-> w] \in
         WorkerEntry
      BY DEF WorkerEntry, Process, Committed
    <3> QED BY <1>18, <3>1 DEF PublishWorker
  <2> QED BY <1>18, <2>1, <2>2 DEF PublishWorker
<1>19. ASSUME NEW w \in Worker, RegistrationFails(w) PROVE TypeOK'
  <2>1. phase' \in [Worker -> Phase]
    BY <1>19 DEF RegistrationFails, Forget, Phase
  <2> QED BY <1>19, <2>1 DEF RegistrationFails, Terminate, Forget
<1>20. ASSUME NEW w \in Worker, NEW from \in Stage, NEW to \in Stage, HostSends(w, from, to)
     PROVE TypeOK'
  <2>1. proc' \in [Worker -> Process]
    <3>1. to \in Stage
      BY <1>20 DEF Stage
    <3> QED BY <1>20, <3>1, StageTyped DEF HostSends
  <2> QED BY <1>20, <2>1 DEF HostSends
<1>21. ASSUME NEW w \in Worker, AskReservation(w) PROVE TypeOK'
  <2>1. proc' \in [Worker -> Process]
    <3>1. "asking" \in Stage
      BY <1>21 DEF Stage
    <3> QED BY <1>21, <3>1, StageTyped DEF AskReservation, WorkerAdvances
  <2> QED BY <1>21, <2>1 DEF AskReservation, WorkerAdvances
<1>22. ASSUME NEW w \in Worker, CreateDirectory(w) PROVE TypeOK'
  <2>1. proc' \in [Worker -> Process]
    <3>1. "announcing" \in Stage
      BY <1>22 DEF Stage
    <3> QED BY <1>22, <3>1, StageTyped DEF CreateDirectory, WorkerAdvances
  <2> QED BY <1>22, <2>1 DEF CreateDirectory, WorkerAdvances
<1>23. ASSUME NEW w \in Worker, WriteOutput(w) PROVE TypeOK'
  <2>1. proc' \in [Worker -> Process]
    <3>1. "capturing" \in Stage
      BY <1>23 DEF Stage
    <3> QED BY <1>23, <3>1, StageTyped DEF WriteOutput, WorkerAdvances
  <2> QED BY <1>23, <2>1 DEF WriteOutput, WorkerAdvances
<1>24. ASSUME NEW w \in Worker, GrantReservation(w) PROVE TypeOK'
  <2>1. phase' \in [Worker -> Phase]
    BY <1>24 DEF GrantReservation, Phase
  <2>2. records' \in [Record -> RecordEntry]
    <3>1. ASSUME NEW r \in Record
          PROVE  [state |-> records[r].state, gen |-> generation, dir |-> None] \in RecordEntry
      BY DEF RecordEntry
    <3> QED BY <1>24, <3>1 DEF GrantReservation
  <2>3. proc' \in [Worker -> Process]
    <3>1. "granted" \in Stage
      BY <1>24 DEF Stage
    <3> QED BY <1>24, <3>1, StageTyped DEF GrantReservation
  <2> QED BY <1>24, <2>1, <2>2, <2>3 DEF GrantReservation
<1>25. ASSUME NEW w \in Worker, CommitRecord(w) PROVE TypeOK'
  <2>1. records' \in [Record -> RecordEntry]
    <3>1. [state |-> Committed, gen |-> generation, dir |-> w] \in RecordEntry
      BY DEF RecordEntry, Committed
    <3> QED BY <1>25, <3>1 DEF CommitRecord
  <2>2. proc' \in [Worker -> Process]
    <3>1. "committed" \in Stage
      BY <1>25 DEF Stage
    <3> QED BY <1>25, <3>1, StageTyped DEF CommitRecord
  <2> QED BY <1>25, <2>1, <2>2 DEF CommitRecord
<1>26. ASSUME NEW w \in Worker, StopWorker(w) PROVE TypeOK'
  <2>1. phase' \in [Worker -> Phase]
    BY <1>26 DEF StopWorker, Phase
  <2> QED BY <1>26, <2>1 DEF StopWorker, Terminate
<1>27. ASSUME NEW w \in Worker, UnregisterWorker(w) PROVE TypeOK'
  <2>1. phase' \in [Worker -> Phase]
    BY <1>27 DEF UnregisterWorker, Phase
  <2>2. workers' \in [WorkerSlot -> WorkerEntry]
    BY <1>27, SlotStateTyped DEF UnregisterWorker
  <2> QED BY <1>27, <2>1, <2>2 DEF UnregisterWorker
<1>28. ASSUME NEW w \in Worker, SettleWorker(w) PROVE TypeOK'
  <2>1. phase' \in [Worker -> Phase]
    BY <1>28 DEF SettleWorker, Forget, Phase
  <2>2. records' \in [Record -> RecordEntry]
    <3>1. [records EXCEPT ![rec[w]].state = Free] \in [Record -> RecordEntry]
      BY RecordStateTyped
    <3> QED BY <1>28, <3>1 DEF SettleWorker
  <2> QED BY <1>28, <2>1, <2>2 DEF SettleWorker, Forget
<1>29. ASSUME NEW w \in Worker, QuarantineWorker(w) PROVE TypeOK'
  <2>1. phase' \in [Worker -> Phase]
    BY <1>29 DEF QuarantineWorker, Phase
  <2> QED BY <1>29, <2>1 DEF QuarantineWorker
<1>30. ASSUME NEW w \in Worker, BeginCleanup(w) PROVE TypeOK'
  BY <1>30 DEF BeginCleanup
<1>31. ASSUME NEW w \in Worker, CleanupRemoves(w) PROVE TypeOK'
  BY <1>31 DEF CleanupRemoves
<1>32. ASSUME NEW w \in Worker, CleanupSucceeds(w) PROVE TypeOK'
  <2>1. phase' \in [Worker -> Phase]
    BY <1>32 DEF CleanupSucceeds, Forget, Phase
  <2>2. records' \in [Record -> RecordEntry]
    BY <1>32, RecordStateTyped DEF CleanupSucceeds
  <2> QED BY <1>32, <2>1, <2>2 DEF CleanupSucceeds, Forget
<1>33. ASSUME NEW w \in Worker, CleanupFails(w) PROVE TypeOK'
  BY <1>33 DEF CleanupFails
<1>34. ASSUME NEW p \in Pid, ProcessExits(p) PROVE TypeOK'
  BY <1>34 DEF ProcessExits
<1>35. ASSUME NEW p \in Pid, StrangerStarts(p) PROVE TypeOK'
  BY <1>35 DEF StrangerStarts
<1>36. CASE UNCHANGED vars
  BY <1>36 DEF vars
<1> QED
  BY <1>1, <1>2, <1>3, <1>4, <1>5, <1>6, <1>7, <1>8, <1>9, <1>10, <1>11, <1>12, <1>13,
       <1>14, <1>15, <1>16, <1>17, <1>18, <1>19, <1>20, <1>21, <1>22, <1>23, <1>24, <1>25,
       <1>26, <1>27, <1>28, <1>29, <1>30, <1>31, <1>32, <1>33, <1>34, <1>35, <1>36 DEF Next,
       MonitorNext, HostNext, WorkerNext, SystemNext, KillHost, HostCrash, HostExits,
       SendCommand, AcknowledgeCapture, Stage

-----------------------------------------------------------------------------
(* Slot s names the process w, by its PID and creation time.                *)
Registered(w, s) ==
  /\ workers[s].state = Committed /\ workers[s].gen = generation
  /\ workers[s].pid = proc[w].pid /\ workers[s].who = w

(* The record names a capture directory somebody has to remove.             *)
Owned(r) == records[r].state \in {Committed, Monitored}

(* The monitor supervises a host, or is clearing up after one.              *)
Watched == monitor \in {"watch", "stop", "orphans"}

(* A host exists only between its start and its confirmed stop; with it     *)
(* dies all it remembered.                                                  *)
HostPart ==
  /\ host = "up" => monitor \in {"watch", "stop"} /\ generation > 0
  /\ host = "down" => (\A w \in Worker : phase[w] = "none") /\ cleaning = None
  /\ retired <= generation

(* A process belongs to the generation that spawned it and runs under its   *)
(* own PID.                                                                 *)
ProcessPart ==
  \A w \in Worker :
    /\ proc[w].born <= generation
    /\ proc[w].born = 0 => proc[w].stage = "waiting" /\ dir[w] = "none"
    /\ \A p \in Pid : occupant[p] = w => proc[w].pid = p /\ proc[w].born > 0

(* Worker slots are written only while a host is supervised, and a committed *)
(* one always carries its generation.                                       *)
SlotPart ==
  \A s \in WorkerSlot :
    /\ workers[s].state # Free => Watched
    /\ workers[s].state = Committed =>
         workers[s].gen = generation /\ workers[s].who \in Worker /\ workers[s].pid \in Pid

(* What the host remembers of a worker agrees with the shared slot it       *)
(* registered it in; no two workers share a slot.                           *)
MemPart ==
  \A w \in Worker :
    /\ phase[w] = "none" => slot[w] = None /\ rec[w] = None /\ root[w] = None
    /\ phase[w] # "none" => proc[w].born = generation /\ proc[w].pid \in Pid
    /\ phase[w] \in {"spawned", "unregistered", "stopped"} => slot[w] = None
    /\ phase[w] = "claimed" => slot[w] \in WorkerSlot /\ workers[slot[w]].state = Claimed
    /\ phase[w] \in {"ready", "reserving", "stopping", "quarantined"} =>
         slot[w] \in WorkerSlot /\ Registered(w, slot[w])
    /\ phase[w] = "reserving" => proc[w].stage = "asking" /\ rec[w] # None
    /\ \A v \in Worker \ {w} : slot[v] = slot[w] => slot[w] = None

(* A live worker that was ever given a command is of the current generation *)
(* and registered: the fact StopOrphanWorkers relies on.                    *)
CommandedIsRegistered ==
  \A w \in Worker : Alive(w) /\ proc[w].stage # "waiting" =>
    proc[w].born = generation /\ \E s \in WorkerSlot : Registered(w, s)

(* A record's state tells whose it is, and two records never name the same  *)
(* capture; one in monitor recovery names a directory without a writer.     *)
RecordPart ==
  /\ \A r \in Record :
       /\ records[r].state = Committed => records[r].gen = generation /\ Watched
       /\ records[r].state = Claimed => Watched
       /\ records[r].state = Monitored => records[r].gen <= retired /\ ~Alive(records[r].dir)
       /\ Owned(r) => /\ records[r].dir \in Worker
                      /\ proc[records[r].dir].stage \in {"committed", "capturing"}
                      /\ proc[records[r].dir].born > 0
  /\ \A r, q \in Record : Owned(r) /\ Owned(q) /\ records[r].dir = records[q].dir => r = q

(* What the host remembers of a reservation agrees with the shared record,  *)
(* whoever is being cleaned up or recovered.                                *)
ReservationPart ==
  /\ \A w \in Worker :
       /\ rec[w] # None => 
            IF root[w] # None THEN records[rec[w]].state = Committed /\ records[rec[w]].dir = w
                              ELSE records[rec[w]].state = Claimed
       /\ root[w] # None => rec[w] # None
       /\ rec[w] # None /\ phase[w] # "reserving" => records[rec[w]].gen = generation
       /\ rec[w] # None /\ root[w] = None => proc[w].stage \in {"asking", "granted", "announcing"}
       /\ phase[w] # "none" /\ proc[w].stage \in {"granted", "announcing"} => rec[w] # None
       /\ phase[w] \in {"unregistered", "stopped"} => ~Alive(w)
       /\ phase[w] = "stopped" => root[w] # None
       /\ \A v \in Worker \ {w} : rec[v] = rec[w] => rec[w] = None
  /\ cleaning # None => phase[cleaning] = "stopped"
  /\ attempt # None => records[attempt].state = Monitored

(* An acknowledged capture stays owned until its directory is removed, and  *)
(* it is removed only after its worker has ended.                           *)
CapturePart ==
  \A w \in Worker :
    /\ proc[w].stage \in {"committed", "capturing"} /\ dir[w] # "removed"
         => \E r \in Record : Owned(r) /\ records[r].dir = w
    /\ dir[w] = "output" => proc[w].stage = "capturing"
    /\ dir[w] = "removed" => ~Alive(w)

(* The inductive invariant: what makes the properties hold across a crash   *)
(* is the agreement of shared entries, host memory and processes.           *)
IInv ==
  /\ HostPart /\ ProcessPart /\ SlotPart /\ MemPart /\ CommandedIsRegistered
  /\ RecordPart /\ ReservationPart /\ CapturePart /\ StrangersAreSpared

(* Every step of monitor, host, workers and Windows keeps the agreement.    *)
LEMMA InvStep == TypeOK /\ TypeOK' /\ IInv /\ [Next]_vars => IInv'
<1> SUFFICES ASSUME TypeOK, TypeOK', IInv, [Next]_vars PROVE IInv'
  OBVIOUS
<1> USE DEF IInv, registry, memory, monitorVars, hostVars, processVars,
            Free, Claimed, Committed, Monitored
<1>1. CASE StartHost
  <2>1. StrangersAreSpared'
    BY <1>1 DEF StartHost, StrangersAreSpared
  <2>2. HostPart'
    BY <1>1 DEF StartHost, NoMemory, HostPart, TypeOK
  <2>3. ProcessPart'
    BY <1>1 DEF StartHost, NoMemory, TypeOK, Process, ProcessPart
  <2>4. SlotPart'
    BY <1>1 DEF StartHost, NoMemory, SlotPart, Watched
  <2>5. MemPart'
    BY <1>1 DEF StartHost, NoMemory, MemPart
  <2>6. CommandedIsRegistered'
    <3>1. \A s \in WorkerSlot : workers[s].state = Free
      BY <1>1 DEF StartHost, SlotPart, Watched
    <3>2. \A v \in Worker : ~(Alive(v) /\ proc[v].stage # "waiting")
      BY <3>1 DEF CommandedIsRegistered, Registered
    <3> QED BY <1>1, <3>2 DEF StartHost, CommandedIsRegistered, Alive
  <2>7. RecordPart'
    BY <1>1 DEF StartHost, NoMemory, RecordPart, Owned, Watched, Alive
  <2>8. ReservationPart'
    BY <1>1 DEF StartHost, NoMemory, ReservationPart
  <2>9. CapturePart'
    BY <1>1 DEF StartHost, NoMemory, CapturePart, Owned, Alive
  <2> QED BY <2>1, <2>2, <2>3, <2>4, <2>5, <2>6, <2>7, <2>8, <2>9 DEF IInv
<1>2. CASE StartHostFails
  <2>1. StrangersAreSpared'
    BY <1>2 DEF StartHostFails, StrangersAreSpared
  <2>2. HostPart'
    BY <1>2 DEF StartHostFails, NoMemory, HostPart, TypeOK
  <2>3. ProcessPart'
    BY <1>2 DEF StartHostFails, NoMemory, TypeOK, Process, ProcessPart
  <2>4. SlotPart'
    BY <1>2 DEF StartHostFails, NoMemory, SlotPart, Watched
  <2>5. MemPart'
    BY <1>2 DEF StartHostFails, NoMemory, TypeOK, HostPart, MemPart
  <2>6. CommandedIsRegistered'
    <3>1. \A s \in WorkerSlot : workers[s].state = Free
      BY <1>2 DEF StartHostFails, SlotPart, Watched
    <3>2. \A v \in Worker : ~(Alive(v) /\ proc[v].stage # "waiting")
      BY <3>1 DEF CommandedIsRegistered, Registered
    <3> QED BY <1>2, <3>2 DEF StartHostFails, CommandedIsRegistered, Alive
  <2>7. RecordPart'
    BY <1>2 DEF StartHostFails, NoMemory, RecordPart, Owned, Watched, Alive
  <2>8. ReservationPart'
    BY <1>2 DEF StartHostFails, NoMemory, TypeOK, RecordPart, ReservationPart, Watched, Alive
  <2>9. CapturePart'
    BY <1>2 DEF StartHostFails, NoMemory, CapturePart, Owned, Alive
  <2> QED BY <2>1, <2>2, <2>3, <2>4, <2>5, <2>6, <2>7, <2>8, <2>9 DEF IInv
<1>3. CASE ObserveHostExit
  <2>1. ProcessPart' /\ SlotPart' /\ MemPart' /\ CommandedIsRegistered' /\ RecordPart' /\
       ReservationPart' /\ CapturePart' /\ StrangersAreSpared'
    BY <1>3 DEF ObserveHostExit, ProcessPart, SlotPart, MemPart, CommandedIsRegistered,
         RecordPart, ReservationPart, CapturePart, StrangersAreSpared, Alive, Owned, Registered,
         Watched
  <2>2. HostPart'
    BY <1>3 DEF ObserveHostExit, HostPart
  <2> QED BY <2>1, <2>2 DEF IInv
<1>4. CASE ExpireHost
  <2>1. ProcessPart' /\ SlotPart' /\ MemPart' /\ CommandedIsRegistered' /\ RecordPart' /\
       ReservationPart' /\ CapturePart' /\ StrangersAreSpared'
    BY <1>4 DEF ExpireHost, ProcessPart, SlotPart, MemPart, CommandedIsRegistered,
         RecordPart, ReservationPart, CapturePart, StrangersAreSpared, Alive, Owned, Registered,
         Watched
  <2>2. HostPart'
    BY <1>4 DEF ExpireHost, HostPart
  <2> QED BY <2>1, <2>2 DEF IInv
<1>5. ASSUME NEW code \in {"clean", "killed"}, HostEnds(code) PROVE IInv'
  <2>1. ProcessPart' /\ SlotPart' /\ CommandedIsRegistered' /\ RecordPart' /\ CapturePart'
       /\ StrangersAreSpared'
    BY <1>5 DEF HostEnds, ProcessPart, SlotPart, CommandedIsRegistered, RecordPart,
         CapturePart, StrangersAreSpared, Alive, Owned, Registered, Watched
  <2>2. HostPart'
    BY <1>5 DEF HostEnds, NoMemory, HostPart
  <2>3. MemPart'
    BY <1>5 DEF HostEnds, NoMemory, MemPart
  <2>4. ReservationPart'
    BY <1>5 DEF HostEnds, NoMemory, ReservationPart
  <2> QED BY <2>1, <2>2, <2>3, <2>4 DEF IInv
<1>6. CASE ConfirmHostStopped
  <2>1. ProcessPart' /\ SlotPart' /\ MemPart' /\ CommandedIsRegistered' /\ RecordPart' /\
       ReservationPart' /\ CapturePart' /\ StrangersAreSpared'
    BY <1>6 DEF ConfirmHostStopped, ProcessPart, SlotPart, MemPart, CommandedIsRegistered,
         RecordPart, ReservationPart, CapturePart, StrangersAreSpared, Alive, Owned, Registered,
         Watched
  <2>2. HostPart'
    BY <1>6 DEF ConfirmHostStopped, HostPart
  <2> QED BY <2>1, <2>2 DEF IInv
<1>7. CASE Retire
  <2>1. ProcessPart' /\ StrangersAreSpared'
    BY <1>7 DEF Retire, ProcessPart, StrangersAreSpared
  <2>2. HostPart'
    BY <1>7 DEF Retire, Orphaned, RetiredRecord, HostPart, TypeOK
  <2>3. SlotPart'
    BY <1>7 DEF Retire, Orphaned, RetiredRecord, TypeOK, WorkerEntry, SlotPart
  <2>4. MemPart'
    BY <1>7 DEF Retire, Orphaned, RetiredRecord, TypeOK, HostPart, MemPart
  <2>5. CommandedIsRegistered'
    BY <1>7 DEF Retire, Orphaned, RetiredRecord, CommandedIsRegistered, Registered, Alive
  <2>6. RecordPart'
    <3>1. \A q \in Record : records'[q] = RetiredRecord(records[q])
      BY <1>7 DEF Retire
    <3>2. \A v \in Worker : Alive(v) => proc[v].stage = "waiting"
      BY <1>7 DEF Retire, Orphaned, CommandedIsRegistered, Registered
    <3>3. ASSUME NEW q \in Record
          PROVE  /\ Owned(q) => /\ records'[q].state = Monitored
                                /\ records'[q].gen = records[q].gen
                                /\ records'[q].dir = records[q].dir
                 /\ ~Owned(q) => records'[q].state = Free
      BY <3>1 DEF RetiredRecord, RecordPart, Owned, TypeOK, RecordEntry
    <3>4. retired' = generation /\ generation' = generation /\ proc' = proc /\ occupant' = occupant
      BY <1>7 DEF Retire
    <3>5. \A q \in Record : Owned(q) => records[q].gen <= generation
      BY DEF RecordPart, HostPart, Owned, TypeOK, RecordEntry
    <3> QED BY <3>2, <3>3, <3>4, <3>5 DEF RecordPart, Owned, Watched, Alive
  <2>7. ReservationPart'
    BY <1>7 DEF Retire, Orphaned, RetiredRecord, TypeOK, HostPart, MemPart, ReservationPart
  <2>8. CapturePart'
    <3>1. \A q \in Record : records'[q] = RetiredRecord(records[q])
      BY <1>7 DEF Retire
    <3>2. ASSUME NEW q \in Record, Owned(q) PROVE Owned(q)' /\ records'[q].dir = records[q].dir
      BY <3>1, <3>2 DEF RetiredRecord, RecordPart, Owned, TypeOK, RecordEntry
    <3> QED BY <1>7, <3>2 DEF Retire, CapturePart, Alive
  <2> QED BY <2>1, <2>2, <2>3, <2>4, <2>5, <2>6, <2>7, <2>8 DEF IInv
<1>8. ASSUME NEW s \in WorkerSlot, TerminateOrphan(s) PROVE IInv'
  <2>1. HostPart' /\ ProcessPart' /\ SlotPart' /\ MemPart' /\ CommandedIsRegistered' /\
       RecordPart' /\ ReservationPart' /\ CapturePart'
    BY <1>8 DEF TerminateOrphan, HostPart, ProcessPart, SlotPart, MemPart,
         CommandedIsRegistered, RecordPart, ReservationPart, CapturePart, Alive, Owned,
         Registered, Watched
  <2>2. StrangersAreSpared'
    BY <1>8 DEF TerminateOrphan, Terminate, Orphaned, SlotPart, StrangersAreSpared
  <2> QED BY <2>1, <2>2 DEF IInv
<1>9. ASSUME NEW s \in WorkerSlot, ClearOrphan(s) PROVE IInv'
  <2>1. HostPart' /\ ProcessPart' /\ RecordPart' /\ ReservationPart' /\ CapturePart' /\
       StrangersAreSpared'
    BY <1>9 DEF ClearOrphan, HostPart, ProcessPart, RecordPart, ReservationPart,
         CapturePart, StrangersAreSpared, Alive, Owned, Watched
  <2>2. SlotPart'
    BY <1>9 DEF ClearOrphan, Orphaned, SlotPart, Watched
  <2>3. MemPart'
    BY <1>9 DEF ClearOrphan, Orphaned, TypeOK, HostPart, MemPart
  <2>4. CommandedIsRegistered'
    BY <1>9 DEF ClearOrphan, Orphaned, Process, HostPart, ProcessPart,
         CommandedIsRegistered, ReservationPart, CapturePart, StrangersAreSpared, Registered,
         Owned, Alive
  <2> QED BY <2>1, <2>2, <2>3, <2>4 DEF IInv
<1>10. ASSUME NEW r \in Record, BeginAttempt(r) PROVE IInv'
  <2>1. HostPart' /\ ProcessPart' /\ SlotPart' /\ MemPart' /\ CommandedIsRegistered' /\
       RecordPart' /\ CapturePart' /\ StrangersAreSpared'
    BY <1>10 DEF BeginAttempt, HostPart, ProcessPart, SlotPart, MemPart,
         CommandedIsRegistered, RecordPart, CapturePart, StrangersAreSpared, Alive, Owned,
         Registered, Watched
  <2>2. ReservationPart'
    BY <1>10 DEF BeginAttempt, ReservationPart, Alive
  <2> QED BY <2>1, <2>2 DEF IInv
<1>11. ASSUME NEW r \in Record, AttemptRemoves(r) PROVE IInv'
  <2>1. HostPart' /\ SlotPart' /\ MemPart' /\ CommandedIsRegistered' /\ RecordPart' /\
       ReservationPart' /\ StrangersAreSpared'
    BY <1>11 DEF AttemptRemoves, HostPart, SlotPart, MemPart, CommandedIsRegistered,
         RecordPart, ReservationPart, StrangersAreSpared, Alive, Owned, Registered, Watched
  <2>2. ProcessPart'
    BY <1>11, NoneAssumption DEF AttemptRemoves, ProcessPart, RecordPart, ReservationPart, Owned
  <2>3. CapturePart'
    BY <1>11, NoneAssumption DEF AttemptRemoves, RecordPart, ReservationPart, CapturePart,
         Owned, Alive
  <2> QED BY <2>1, <2>2, <2>3 DEF IInv
<1>12. ASSUME NEW r \in Record, AttemptSucceeds(r) PROVE IInv'
  <2>1. HostPart' /\ ProcessPart' /\ SlotPart' /\ MemPart' /\ CommandedIsRegistered' /\
       StrangersAreSpared'
    BY <1>12 DEF AttemptSucceeds, HostPart, ProcessPart, SlotPart, MemPart,
         CommandedIsRegistered, StrangersAreSpared, Alive, Registered, Watched
  <2>2. RecordPart'
    BY <1>12 DEF AttemptSucceeds, RecordPart, Owned, Watched, Alive
  <2>3. ReservationPart'
    BY <1>12 DEF AttemptSucceeds, ReservationPart, Alive
  <2>4. CapturePart'
    BY <1>12 DEF AttemptSucceeds, CapturePart, Owned, Alive
  <2> QED BY <2>1, <2>2, <2>3, <2>4 DEF IInv
<1>13. ASSUME NEW r \in Record, AttemptFails(r) PROVE IInv'
  <2>1. HostPart' /\ ProcessPart' /\ SlotPart' /\ MemPart' /\ CommandedIsRegistered' /\
       RecordPart' /\ CapturePart' /\ StrangersAreSpared'
    BY <1>13 DEF AttemptFails, HostPart, ProcessPart, SlotPart, MemPart,
         CommandedIsRegistered, RecordPart, CapturePart, StrangersAreSpared, Alive, Owned,
         Registered, Watched
  <2>2. ReservationPart'
    BY <1>13 DEF AttemptFails, ReservationPart, Alive
  <2> QED BY <2>1, <2>2 DEF IInv
<1>14. CASE TrayExit
  <2>1. HostPart' /\ ProcessPart' /\ SlotPart' /\ MemPart' /\ CommandedIsRegistered' /\
       RecordPart' /\ ReservationPart' /\ CapturePart' /\ StrangersAreSpared'
    BY <1>14 DEF TrayExit, HostPart, ProcessPart, SlotPart, MemPart, CommandedIsRegistered,
         RecordPart, ReservationPart, CapturePart, StrangersAreSpared, Alive, Owned, Registered,
         Watched
  <2> QED BY <2>1 DEF IInv
<1>15. ASSUME NEW w \in Worker, NEW p \in Pid, SpawnWorker(w, p) PROVE IInv'
  <2>1. SlotPart'
    BY <1>15 DEF SpawnWorker, SlotPart, Watched
  <2>2. HostPart'
    BY <1>15 DEF SpawnWorker, HostIdle, PidFree, HostPart
  <2>3. ProcessPart'
    BY <1>15 DEF SpawnWorker, HostIdle, PidFree, TypeOK, HostPart, ProcessPart
  <2>4. MemPart'
    BY <1>15 DEF SpawnWorker, HostIdle, PidFree, TypeOK, HostPart, MemPart, Registered
  <2>5. CommandedIsRegistered'
    BY <1>15 DEF SpawnWorker, HostIdle, PidFree, CommandedIsRegistered, Registered, Alive,
         TypeOK
  <2>6. RecordPart'
    BY <1>15 DEF SpawnWorker, HostIdle, PidFree, RecordPart, Owned, Watched, Alive
  <2>7. ReservationPart'
    BY <1>15 DEF SpawnWorker, HostIdle, PidFree, TypeOK, ProcessPart, RecordPart,
         ReservationPart, Owned, Alive
  <2>8. CapturePart'
    BY <1>15 DEF SpawnWorker, HostIdle, PidFree, ProcessPart, CapturePart, Owned, Alive
  <2>9. StrangersAreSpared'
    BY <1>15 DEF SpawnWorker, HostIdle, PidFree, StrangersAreSpared
  <2> QED BY <2>1, <2>2, <2>3, <2>4, <2>5, <2>6, <2>7, <2>8, <2>9 DEF IInv
<1>16. ASSUME NEW w \in Worker, NEW s \in WorkerSlot, ClaimWorkerSlot(w, s) PROVE IInv'
  <2>1. ProcessPart' /\ RecordPart' /\ CapturePart' /\ StrangersAreSpared'
    BY <1>16 DEF ClaimWorkerSlot, ProcessPart, RecordPart, CapturePart, StrangersAreSpared,
         Alive, Owned, Watched
  <2>2. HostPart'
    BY <1>16 DEF ClaimWorkerSlot, HostPart
  <2>3. SlotPart'
    BY <1>16 DEF ClaimWorkerSlot, HostPart, SlotPart, Watched
  <2>4. MemPart'
    <3>1. \A u \in WorkerSlot : u # s => workers'[u] = workers[u]
      BY <1>16 DEF ClaimWorkerSlot, TypeOK
    <3>2. workers'[s].state = Claimed
      BY <1>16 DEF ClaimWorkerSlot, TypeOK, WorkerEntry
    <3>3. \A v \in Worker : slot[v] # s
      BY <1>16, NoneAssumption DEF ClaimWorkerSlot, MemPart, Registered, TypeOK, Phase
    <3> QED BY <1>16, <3>1, <3>2, <3>3, NoneAssumption DEF ClaimWorkerSlot, MemPart,
         Registered, TypeOK
  <2>5. CommandedIsRegistered'
    <3>1. \A u \in WorkerSlot : u # s => workers'[u] = workers[u]
      BY <1>16 DEF ClaimWorkerSlot, TypeOK
    <3>2. workers[s].state # Committed
      BY <1>16 DEF ClaimWorkerSlot
    <3> QED BY <1>16, <3>1, <3>2 DEF ClaimWorkerSlot, CommandedIsRegistered, Registered, Alive
  <2>6. ReservationPart'
    BY <1>16 DEF ClaimWorkerSlot, ReservationPart, Alive
  <2> QED BY <2>1, <2>2, <2>3, <2>4, <2>5, <2>6 DEF IInv
<1>17. ASSUME NEW w \in Worker, NEW r \in Record, ClaimRecord(w, r) PROVE IInv'
  <2>1. ProcessPart' /\ SlotPart' /\ CommandedIsRegistered' /\ StrangersAreSpared'
    BY <1>17 DEF ClaimRecord, ProcessPart, SlotPart, CommandedIsRegistered,
         StrangersAreSpared, Alive, Registered, Watched
  <2>2. HostPart'
    BY <1>17 DEF ClaimRecord, HostIdle, HostPart
  <2>3. MemPart'
    BY <1>17, NoneAssumption DEF ClaimRecord, HostIdle, MemPart, Registered, TypeOK
  <2>4. RecordPart'
    BY <1>17 DEF ClaimRecord, HostIdle, SlotPart, MemPart, RecordPart, Registered, Owned,
         Watched, Alive
  <2>5. ReservationPart'
    BY <1>17 DEF ClaimRecord, HostIdle, ReservationPart, Alive, TypeOK
  <2>6. CapturePart'
    BY <1>17 DEF ClaimRecord, HostIdle, CapturePart, Owned, Alive
  <2> QED BY <2>1, <2>2, <2>3, <2>4, <2>5, <2>6 DEF IInv
<1>18. ASSUME NEW w \in Worker, PublishWorker(w) PROVE IInv'
  <2>1. ProcessPart' /\ RecordPart' /\ CapturePart' /\ StrangersAreSpared'
    BY <1>18 DEF PublishWorker, ProcessPart, RecordPart, CapturePart, StrangersAreSpared,
         Alive, Owned, Watched
  <2>2. HostPart'
    BY <1>18 DEF PublishWorker, HostPart
  <2>3. SlotPart'
    BY <1>18 DEF PublishWorker, SlotPart, MemPart, Watched
  <2>4. MemPart'
    BY <1>18, NoneAssumption DEF PublishWorker, MemPart, Registered, TypeOK
  <2>5. CommandedIsRegistered'
    <3>1. \A u \in WorkerSlot : workers[u].state = Committed => workers'[u] = workers[u]
      BY <1>18 DEF PublishWorker, MemPart, TypeOK
    <3> QED BY <1>18, <3>1 DEF PublishWorker, CommandedIsRegistered, Registered, Alive
  <2>6. ReservationPart'
    BY <1>18 DEF PublishWorker, ReservationPart, Alive
  <2> QED BY <2>1, <2>2, <2>3, <2>4, <2>5, <2>6 DEF IInv
<1>19. ASSUME NEW w \in Worker, RegistrationFails(w) PROVE IInv'
  <2>1. ProcessPart' /\ SlotPart' /\ CommandedIsRegistered' /\ RecordPart' /\ CapturePart'
    BY <1>19 DEF RegistrationFails, ProcessPart, SlotPart, CommandedIsRegistered,
         RecordPart, CapturePart, Alive, Owned, Registered, Watched
  <2>2. HostPart'
    BY <1>19 DEF RegistrationFails, Terminate, Forget, HostPart
  <2>3. MemPart'
    BY <1>19 DEF RegistrationFails, Terminate, Forget, MemPart, Registered, TypeOK
  <2>4. ReservationPart'
    BY <1>19 DEF RegistrationFails, Terminate, Forget, ReservationPart, Alive, TypeOK
  <2>5. StrangersAreSpared'
    BY <1>19 DEF RegistrationFails, Terminate, Forget, StrangersAreSpared
  <2> QED BY <2>1, <2>2, <2>3, <2>4, <2>5 DEF IInv
<1>20. ASSUME NEW w \in Worker, NEW from \in Stage, NEW to \in Stage,
               (from = "waiting" /\ to = "operating") \/ (from = "committed" /\ to = "capturing"),
               HostSends(w, from, to)
        PROVE IInv'
  <2>1. HostPart' /\ SlotPart' /\ StrangersAreSpared'
    BY <1>20 DEF HostSends, HostPart, SlotPart, StrangersAreSpared, Watched
  <2>2. ProcessPart'
    BY <1>20 DEF HostSends, HostIdle, HostPart, ProcessPart, MemPart
  <2>3. MemPart'
    BY <1>20 DEF HostSends, HostIdle, MemPart, Registered
  <2>4. CommandedIsRegistered'
    BY <1>20 DEF HostSends, HostIdle, MemPart, CommandedIsRegistered, Registered, Alive
  <2>5. RecordPart'
    BY <1>20 DEF HostSends, HostIdle, RecordPart, Owned, Watched, Alive
  <2>6. ReservationPart'
    BY <1>20 DEF HostSends, HostIdle, ReservationPart, Alive
  <2>7. CapturePart'
    BY <1>20 DEF HostSends, HostIdle, CapturePart, Owned, Alive
  <2> QED BY <2>1, <2>2, <2>3, <2>4, <2>5, <2>6, <2>7 DEF IInv
<1>21. ASSUME NEW w \in Worker, AskReservation(w) PROVE IInv'
  <2>1. HostPart' /\ SlotPart' /\ StrangersAreSpared'
    BY <1>21 DEF AskReservation, WorkerAdvances, HostPart, SlotPart, StrangersAreSpared, Watched
  <2>2. ProcessPart'
    BY <1>21 DEF AskReservation, WorkerAdvances, ProcessPart
  <2>3. MemPart'
    BY <1>21 DEF AskReservation, WorkerAdvances, MemPart, Registered
  <2>4. CommandedIsRegistered'
    BY <1>21 DEF AskReservation, WorkerAdvances, CommandedIsRegistered, Registered, Alive
  <2>5. RecordPart'
    BY <1>21 DEF AskReservation, WorkerAdvances, RecordPart, Owned, Watched, Alive
  <2>6. ReservationPart'
    BY <1>21 DEF AskReservation, WorkerAdvances, ReservationPart, Alive
  <2>7. CapturePart'
    BY <1>21 DEF AskReservation, WorkerAdvances, CapturePart, Owned, Alive
  <2> QED BY <2>1, <2>2, <2>3, <2>4, <2>5, <2>6, <2>7 DEF IInv
<1>22. ASSUME NEW w \in Worker, CreateDirectory(w) PROVE IInv'
  <2>1. HostPart' /\ SlotPart' /\ StrangersAreSpared'
    BY <1>22 DEF CreateDirectory, WorkerAdvances, HostPart, SlotPart, StrangersAreSpared,
         Watched
  <2>2. ProcessPart'
    BY <1>22 DEF CreateDirectory, WorkerAdvances, ProcessPart
  <2>3. MemPart'
    BY <1>22 DEF CreateDirectory, WorkerAdvances, MemPart, Registered
  <2>4. CommandedIsRegistered'
    <3>1. \A v \in Worker : /\ proc'[v].pid = proc[v].pid /\ proc'[v].born = proc[v].born
                            /\ v # w => proc'[v] = proc[v]
      BY <1>22 DEF CreateDirectory, WorkerAdvances, TypeOK, Process
    <3>2. Alive(w) /\ proc[w].stage # "waiting"
      BY <1>22 DEF CreateDirectory, WorkerAdvances
    <3> QED BY <1>22, <3>1, <3>2 DEF CreateDirectory, WorkerAdvances,
         CommandedIsRegistered, Registered, Alive
  <2>5. RecordPart'
    BY <1>22 DEF CreateDirectory, WorkerAdvances, RecordPart, Owned, Watched, Alive
  <2>6. ReservationPart'
    BY <1>22 DEF CreateDirectory, WorkerAdvances, ReservationPart, Alive
  <2>7. CapturePart'
    BY <1>22 DEF CreateDirectory, WorkerAdvances, CapturePart, Owned, Alive
  <2> QED BY <2>1, <2>2, <2>3, <2>4, <2>5, <2>6, <2>7 DEF IInv
<1>23. ASSUME NEW w \in Worker, WriteOutput(w) PROVE IInv'
  <2>1. HostPart' /\ SlotPart' /\ StrangersAreSpared'
    BY <1>23 DEF WriteOutput, WorkerAdvances, HostPart, SlotPart, StrangersAreSpared, Watched
  <2>2. ProcessPart'
    BY <1>23 DEF WriteOutput, WorkerAdvances, ProcessPart
  <2>3. MemPart'
    BY <1>23 DEF WriteOutput, WorkerAdvances, MemPart, Registered
  <2>4. CommandedIsRegistered'
    BY <1>23 DEF WriteOutput, WorkerAdvances, CommandedIsRegistered, Registered, Alive
  <2>5. RecordPart'
    BY <1>23 DEF WriteOutput, WorkerAdvances, RecordPart, Owned, Watched, Alive
  <2>6. ReservationPart'
    BY <1>23 DEF WriteOutput, WorkerAdvances, ReservationPart, Alive
  <2>7. CapturePart'
    BY <1>23 DEF WriteOutput, WorkerAdvances, CapturePart, Owned, Alive
  <2> QED BY <2>1, <2>2, <2>3, <2>4, <2>5, <2>6, <2>7 DEF IInv
<1>24. ASSUME NEW w \in Worker, GrantReservation(w) PROVE IInv'
  <2>1. SlotPart' /\ StrangersAreSpared'
    BY <1>24 DEF GrantReservation, SlotPart, StrangersAreSpared, Watched
  <2>2. HostPart'
    BY <1>24 DEF GrantReservation, HostPart
  <2>3. ProcessPart'
    BY <1>24, NoneAssumption DEF GrantReservation, TypeOK, ProcessPart, RecordPart,
         ReservationPart, Owned
  <2>4. MemPart'
    BY <1>24 DEF GrantReservation, MemPart, Registered, TypeOK
  <2>5. CommandedIsRegistered'
    BY <1>24 DEF GrantReservation, MemPart, CommandedIsRegistered, Registered, Alive
  <2>6. RecordPart'
    BY <1>24 DEF GrantReservation, MemPart, RecordPart, ReservationPart, Owned, Watched, Alive
  <2>7. ReservationPart'
    BY <1>24 DEF GrantReservation, TypeOK, MemPart, RecordPart, ReservationPart, Owned, Alive
  <2>8. CapturePart'
    BY <1>24 DEF GrantReservation, MemPart, ReservationPart, CapturePart, Owned, Alive
  <2> QED BY <2>1, <2>2, <2>3, <2>4, <2>5, <2>6, <2>7, <2>8 DEF IInv
<1>25. ASSUME NEW w \in Worker, CommitRecord(w) PROVE IInv'
  <2>1. SlotPart' /\ StrangersAreSpared'
    BY <1>25 DEF CommitRecord, SlotPart, StrangersAreSpared, Watched
  <2>2. HostPart'
    BY <1>25 DEF CommitRecord, HostIdle, HostPart
  <2>3. ProcessPart'
    BY <1>25 DEF CommitRecord, HostIdle, ProcessPart
  <2>4. MemPart'
    BY <1>25 DEF CommitRecord, HostIdle, MemPart, Registered
  <2>5. CommandedIsRegistered'
    BY <1>25 DEF CommitRecord, HostIdle, CommandedIsRegistered, Registered, Alive
  <2>6. RecordPart'
    BY <1>25 DEF CommitRecord, HostIdle, TypeOK, ProcessPart, MemPart, RecordPart, Owned,
         Watched, Alive
  <2>7. ReservationPart'
    <3>1. rec[w] \in Record /\ records[rec[w]].state = Claimed /\ root[w] = None
      BY <1>25, NoneAssumption DEF CommitRecord, ReservationPart, TypeOK
    <3>2. \A q \in Record : q # rec[w] => records'[q] = records[q]
      BY <1>25 DEF CommitRecord, TypeOK
    <3>3. records'[rec[w]] = [state |-> Committed, gen |-> generation, dir |-> w]
      BY <1>25, <3>1 DEF CommitRecord, TypeOK
    <3>4. \A v \in Worker : v # w => proc'[v] = proc[v] /\ root'[v] = root[v] /\ rec[v] # rec[w]
      BY <1>25, <3>1, NoneAssumption DEF CommitRecord, TypeOK, ReservationPart
    <3>5. attempt # rec[w]
      BY <3>1, NoneAssumption DEF ReservationPart
    <3>6. proc'[w].stage = "committed" /\ root'[w] = w
      BY <1>25 DEF CommitRecord, TypeOK, Process
    <3> QED BY <1>25, <3>1, <3>2, <3>3, <3>4, <3>5, <3>6, NoneAssumption DEF CommitRecord,
         ReservationPart, HostIdle, Alive, TypeOK
  <2>8. CapturePart'
    BY <1>25 DEF CommitRecord, HostIdle, CapturePart, Owned, Alive, TypeOK
  <2> QED BY <2>1, <2>2, <2>3, <2>4, <2>5, <2>6, <2>7, <2>8 DEF IInv
<1>26. ASSUME NEW w \in Worker, StopWorker(w) PROVE IInv'
  <2>1. ProcessPart' /\ SlotPart' /\ CommandedIsRegistered' /\ RecordPart' /\ CapturePart'
    BY <1>26 DEF StopWorker, ProcessPart, SlotPart, CommandedIsRegistered, RecordPart,
         CapturePart, Alive, Owned, Registered, Watched
  <2>2. HostPart'
    BY <1>26 DEF StopWorker, HostIdle, Terminate, HostPart
  <2>3. MemPart'
    BY <1>26 DEF StopWorker, HostIdle, Terminate, MemPart, Registered
  <2>4. ReservationPart'
    BY <1>26 DEF StopWorker, HostIdle, Terminate, ReservationPart, Alive
  <2>5. StrangersAreSpared'
    BY <1>26 DEF StopWorker, HostIdle, Terminate, StrangersAreSpared
  <2> QED BY <2>1, <2>2, <2>3, <2>4, <2>5 DEF IInv
<1>27. ASSUME NEW w \in Worker, UnregisterWorker(w) PROVE IInv'
  <2>1. ProcessPart' /\ RecordPart' /\ CapturePart' /\ StrangersAreSpared'
    BY <1>27 DEF UnregisterWorker, ProcessPart, RecordPart, CapturePart,
         StrangersAreSpared, Alive, Owned, Watched
  <2>2. HostPart'
    BY <1>27 DEF UnregisterWorker, HostIdle, HostPart
  <2>3. SlotPart'
    BY <1>27 DEF UnregisterWorker, HostIdle, SlotPart, Watched
  <2>4. MemPart'
    BY <1>27 DEF UnregisterWorker, HostIdle, MemPart, Registered, TypeOK
  <2>5. CommandedIsRegistered'
    <3>1. Registered(w, slot[w]) /\ ~Alive(w)
      BY <1>27 DEF UnregisterWorker, MemPart
    <3>2. ASSUME NEW v \in Worker, v # w, NEW s \in WorkerSlot, Registered(v, s) PROVE Registered(v, s)'
      BY <1>27, <3>1, <3>2 DEF UnregisterWorker, Registered
    <3> QED BY <1>27, <3>1, <3>2 DEF UnregisterWorker, CommandedIsRegistered, Alive
  <2>6. ReservationPart'
    BY <1>27 DEF UnregisterWorker, HostIdle, ReservationPart, Alive
  <2> QED BY <2>1, <2>2, <2>3, <2>4, <2>5, <2>6 DEF IInv
<1>28. ASSUME NEW w \in Worker, SettleWorker(w) PROVE IInv'
  <2>1. ProcessPart' /\ SlotPart' /\ CommandedIsRegistered' /\ StrangersAreSpared'
    BY <1>28 DEF SettleWorker, ProcessPart, SlotPart, CommandedIsRegistered,
         StrangersAreSpared, Alive, Registered, Watched
  <2>2. HostPart'
    BY <1>28 DEF SettleWorker, Forget, HostPart
  <2>3. MemPart'
    BY <1>28 DEF SettleWorker, Forget, MemPart, Registered, TypeOK
  <2>4. RecordPart'
    <3>1. \A q \in Record : Owned(q)' => records'[q] = records[q]
      BY <1>28 DEF SettleWorker, Owned, TypeOK, RecordEntry
    <3>2. \A q \in Record : records'[q].state = Claimed => records[q].state = Claimed
      BY <1>28 DEF SettleWorker, TypeOK, RecordEntry
    <3> QED BY <1>28, <3>1, <3>2 DEF SettleWorker, RecordPart, Owned, Watched, Alive
  <2>5. ReservationPart'
    <3>1. CASE root[w] # None
      BY <1>28, <3>1 DEF SettleWorker, ReservationPart, Alive, TypeOK
    <3>2. CASE root[w] = None
      <4>1. /\ phase' = [phase EXCEPT ![w] = "none"] /\ rec' = [rec EXCEPT ![w] = None]
            /\ root' = [root EXCEPT ![w] = None]
        BY <1>28, <3>2 DEF SettleWorker, Forget
      <4>2. \A v \in Worker \ {w} : rec[v] # None => records'[rec[v]] = records[rec[v]]
        BY <1>28, <3>2 DEF SettleWorker, ReservationPart, TypeOK
      <4> QED BY <1>28, <3>2, <4>1, <4>2 DEF SettleWorker, ReservationPart, Alive, TypeOK
    <3> QED BY <3>1, <3>2
  <2>6. CapturePart'
    BY <1>28 DEF SettleWorker, Forget, TypeOK, RecordEntry, ReservationPart, CapturePart,
         Owned, Alive
  <2> QED BY <2>1, <2>2, <2>3, <2>4, <2>5, <2>6 DEF IInv
<1>29. ASSUME NEW w \in Worker, QuarantineWorker(w) PROVE IInv'
  <2>1. ProcessPart' /\ SlotPart' /\ CommandedIsRegistered' /\ RecordPart' /\ CapturePart'
       /\ StrangersAreSpared'
    BY <1>29 DEF QuarantineWorker, ProcessPart, SlotPart, CommandedIsRegistered,
         RecordPart, CapturePart, StrangersAreSpared, Alive, Owned, Registered, Watched
  <2>2. HostPart'
    BY <1>29 DEF QuarantineWorker, HostIdle, HostPart
  <2>3. MemPart'
    BY <1>29 DEF QuarantineWorker, HostIdle, MemPart, Registered
  <2>4. ReservationPart'
    BY <1>29 DEF QuarantineWorker, HostIdle, ReservationPart, Alive
  <2> QED BY <2>1, <2>2, <2>3, <2>4 DEF IInv
<1>30. ASSUME NEW w \in Worker, BeginCleanup(w) PROVE IInv'
  <2>1. ProcessPart' /\ SlotPart' /\ MemPart' /\ CommandedIsRegistered' /\ RecordPart' /\
       CapturePart' /\ StrangersAreSpared'
    BY <1>30 DEF BeginCleanup, ProcessPart, SlotPart, MemPart, CommandedIsRegistered,
         RecordPart, CapturePart, StrangersAreSpared, Alive, Owned, Registered, Watched
  <2>2. HostPart'
    BY <1>30 DEF BeginCleanup, HostIdle, HostPart
  <2>3. ReservationPart'
    BY <1>30 DEF BeginCleanup, HostIdle, ReservationPart, Alive
  <2> QED BY <2>1, <2>2, <2>3 DEF IInv
<1>31. ASSUME NEW w \in Worker, CleanupRemoves(w) PROVE IInv'
  <2>1. HostPart' /\ SlotPart' /\ MemPart' /\ CommandedIsRegistered' /\ RecordPart' /\
       ReservationPart' /\ StrangersAreSpared'
    BY <1>31 DEF CleanupRemoves, HostPart, SlotPart, MemPart, CommandedIsRegistered,
         RecordPart, ReservationPart, StrangersAreSpared, Alive, Owned, Registered, Watched
  <2>2. ProcessPart'
    BY <1>31, NoneAssumption DEF CleanupRemoves, TypeOK, ProcessPart, RecordPart,
         ReservationPart, Owned
  <2>3. CapturePart'
    BY <1>31, NoneAssumption DEF CleanupRemoves, ReservationPart, CapturePart, Owned, Alive
  <2> QED BY <2>1, <2>2, <2>3 DEF IInv
<1>32. ASSUME NEW w \in Worker, CleanupSucceeds(w) PROVE IInv'
  <2>1. ProcessPart' /\ SlotPart' /\ CommandedIsRegistered' /\ StrangersAreSpared'
    BY <1>32 DEF CleanupSucceeds, ProcessPart, SlotPart, CommandedIsRegistered,
         StrangersAreSpared, Alive, Registered, Watched
  <2>2. HostPart'
    BY <1>32 DEF CleanupSucceeds, HostIdle, Forget, HostPart
  <2>3. MemPart'
    BY <1>32 DEF CleanupSucceeds, HostIdle, Forget, MemPart, Registered, TypeOK
  <2>4. RecordPart'
    BY <1>32 DEF CleanupSucceeds, HostIdle, Forget, RecordPart, Owned, Watched, Alive
  <2>5. ReservationPart'
    BY <1>32 DEF CleanupSucceeds, HostIdle, Forget, ReservationPart, Alive, TypeOK
  <2>6. CapturePart'
    BY <1>32, NoneAssumption DEF CleanupSucceeds, HostIdle, Forget, ReservationPart,
         CapturePart, Owned, Alive
  <2> QED BY <2>1, <2>2, <2>3, <2>4, <2>5, <2>6 DEF IInv
<1>33. ASSUME NEW w \in Worker, CleanupFails(w) PROVE IInv'
  <2>1. ProcessPart' /\ SlotPart' /\ MemPart' /\ CommandedIsRegistered' /\ RecordPart' /\
       CapturePart' /\ StrangersAreSpared'
    BY <1>33 DEF CleanupFails, ProcessPart, SlotPart, MemPart, CommandedIsRegistered,
         RecordPart, CapturePart, StrangersAreSpared, Alive, Owned, Registered, Watched
  <2>2. HostPart'
    BY <1>33 DEF CleanupFails, HostIdle, HostPart
  <2>3. ReservationPart'
    BY <1>33 DEF CleanupFails, HostIdle, ReservationPart, Alive
  <2> QED BY <2>1, <2>2, <2>3 DEF IInv
<1>34. ASSUME NEW p \in Pid, ProcessExits(p) PROVE IInv'
  <2>1. HostPart' /\ SlotPart' /\ MemPart'
    BY <1>34 DEF ProcessExits, HostPart, SlotPart, MemPart, Registered, Watched
  <2>2. ProcessPart'
    BY <1>34, NoneAssumption DEF ProcessExits, ProcessPart
  <2>3. CommandedIsRegistered'
    BY <1>34, NoneAssumption DEF ProcessExits, CommandedIsRegistered, Registered, Alive
  <2>4. RecordPart'
    BY <1>34, NoneAssumption DEF ProcessExits, RecordPart, Owned, Watched, Alive
  <2>5. ReservationPart'
    BY <1>34, NoneAssumption DEF ProcessExits, ReservationPart, Alive
  <2>6. CapturePart'
    BY <1>34, NoneAssumption DEF ProcessExits, CapturePart, Owned, Alive
  <2>7. StrangersAreSpared'
    BY <1>34 DEF ProcessExits, StrangersAreSpared
  <2> QED BY <2>1, <2>2, <2>3, <2>4, <2>5, <2>6, <2>7 DEF IInv
<1>35. ASSUME NEW p \in Pid, StrangerStarts(p) PROVE IInv'
  <2>1. HostPart' /\ SlotPart' /\ MemPart'
    BY <1>35 DEF StrangerStarts, HostPart, SlotPart, MemPart, Registered, Watched
  <2>2. ProcessPart'
    BY <1>35, NoneAssumption DEF StrangerStarts, PidFree, ProcessPart
  <2>3. CommandedIsRegistered'
    BY <1>35, NoneAssumption DEF StrangerStarts, PidFree, CommandedIsRegistered,
         Registered, Alive
  <2>4. RecordPart'
    BY <1>35, NoneAssumption DEF StrangerStarts, PidFree, RecordPart, Owned, Watched, Alive
  <2>5. ReservationPart'
    BY <1>35, NoneAssumption DEF StrangerStarts, PidFree, ReservationPart, Alive
  <2>6. CapturePart'
    BY <1>35, NoneAssumption DEF StrangerStarts, PidFree, CapturePart, Owned, Alive
  <2>7. StrangersAreSpared'
    BY <1>35, NoneAssumption DEF StrangerStarts, PidFree, StrangersAreSpared
  <2> QED BY <2>1, <2>2, <2>3, <2>4, <2>5, <2>6, <2>7 DEF IInv
<1>36. CASE UNCHANGED vars
  BY <1>36 DEF vars, HostPart, ProcessPart, SlotPart, MemPart, CommandedIsRegistered,
       RecordPart, ReservationPart, CapturePart, StrangersAreSpared, Registered, Owned, Watched,
       Alive
<1> QED
  BY <1>1, <1>2, <1>3, <1>4, <1>5, <1>6, <1>7, <1>8, <1>9, <1>10, <1>11, <1>12, <1>13,
       <1>14, <1>15, <1>16, <1>17, <1>18, <1>19, <1>20, <1>21, <1>22, <1>23, <1>24, <1>25,
       <1>26, <1>27, <1>28, <1>29, <1>30, <1>31, <1>32, <1>33, <1>34, <1>35, <1>36 DEF Next,
       MonitorNext, HostNext, WorkerNext, SystemNext, KillHost, HostCrash, HostExits,
       SendCommand, AcknowledgeCapture, Stage

(* Nothing is registered or owned when the monitor starts.                  *)
LEMMA InvInit == Init => IInv
<1> SUFFICES ASSUME Init PROVE IInv
  OBVIOUS
<1> USE DEF Init, Alive, Free, Claimed, Committed, Monitored
<1>1. HostPart /\ ProcessPart /\ SlotPart /\ StrangersAreSpared
  BY NoneAssumption, BoundAssumption DEF HostPart, ProcessPart, SlotPart, StrangersAreSpared
<1>2. MemPart /\ CommandedIsRegistered /\ RecordPart
  BY NoneAssumption DEF MemPart, CommandedIsRegistered, RecordPart, Owned
<1>3. ReservationPart /\ CapturePart
  BY NoneAssumption DEF ReservationPart, CapturePart
<1> QED BY <1>1, <1>2, <1>3 DEF IInv

(* The shared mapping and both processes' state keep their types.           *)
THEOREM TypeCorrect == Spec => []TypeOK
BY TypeInit, TypeStep, PTL DEF Spec

(* Shared entries, host memory and processes agree after any interleaving   *)
(* of crashes, restarts and PID reuse.                                      *)
THEOREM Invariance == Spec => []IInv
<1>1. TypeOK /\ IInv /\ TypeOK' /\ [Next]_vars => IInv'
  BY InvStep
<1> QED BY <1>1, InvInit, TypeCorrect, PTL DEF Spec

(* Supervise never starts a host while a commanded worker of an earlier one *)
(* is alive.                                                                *)
THEOREM NoOldWorkerBesideNewHostHolds == Spec => []NoOldWorkerBesideNewHost
<1>1. TypeOK /\ IInv => NoOldWorkerBesideNewHost
  BY DEF IInv, CommandedIsRegistered, NoOldWorkerBesideNewHost, TypeOK, Process
<1> QED BY <1>1, TypeCorrect, Invariance, PTL

(* Only agent workers are told to terminate, whatever PIDs are recycled.    *)
THEOREM StrangersAreSparedHolds == Spec => []StrangersAreSpared
<1>1. IInv => StrangersAreSpared
  BY DEF IInv
<1> QED BY <1>1, Invariance, PTL

(* Neither RecoverFiles nor RecoverRetiredRoots removes a directory whose   *)
(* worker may still write into it.                                          *)
THEOREM RemovedAfterExitHolds == Spec => []RemovedAfterExit
<1>1. IInv => RemovedAfterExit
  BY DEF IInv, CapturePart, RemovedAfterExit
<1> QED BY <1>1, Invariance, PTL

(* Captured output always has exactly one owner in the shared mapping.      *)
THEOREM OutputIsOwnedHolds == Spec => []OutputIsOwned
<1>1. IInv => OutputIsOwned
  BY DEF IInv, CapturePart, RecordPart, Owned, OutputIsOwned
<1> QED BY <1>1, Invariance, PTL

(* A live host's handles name entries of its own generation, one each.      *)
THEOREM HandlesAreOwnedHolds == Spec => []HandlesAreOwned
<1>1. TypeOK /\ IInv => HandlesAreOwned
  <2> SUFFICES ASSUME TypeOK, IInv, host = "up" PROVE HandlesAreOwned
    BY DEF HandlesAreOwned
  <2>1. \A w \in Worker : rec[w] # None =>
          /\ records[rec[w]].state \in {Claimed, Committed}
          /\ phase[w] # "reserving" => records[rec[w]].gen = generation
    BY DEF IInv, ReservationPart
  <2>2. ASSUME NEW w \in Worker, slot[w] # None, phase[w] # "claimed"
        PROVE workers[slot[w]] =
                [state |-> Committed, gen |-> generation, pid |-> proc[w].pid, who |-> w]
    <3>1. slot[w] \in WorkerSlot /\ Registered(w, slot[w])
      BY <2>2 DEF IInv, MemPart, TypeOK, Phase
    <3> QED BY <3>1 DEF Registered, TypeOK, WorkerEntry
  <2>3. \A v, w \in Worker : v # w =>
          /\ slot[v] = slot[w] => slot[v] = None
          /\ rec[v] = rec[w] => rec[v] = None
    BY DEF IInv, MemPart, ReservationPart
  <2> QED BY <2>1, <2>2, <2>3 DEF HandlesAreOwned
<1> QED BY <1>1, TypeCorrect, Invariance, PTL

(* Retire leaves no claimed or committed entry to the next host.            *)
THEOREM CleanStartHolds == Spec => []CleanStart
<1>1. TypeOK /\ IInv => CleanStart
  BY DEF IInv, SlotPart, RecordPart, Watched, CleanStart, TypeOK, RecordEntry, Free,
       Claimed, Committed, Monitored
<1> QED BY <1>1, TypeCorrect, Invariance, PTL

(* No step frees an owned record before its directory is removed.           *)
THEOREM OwnedUntilRemovedHolds == Spec => OwnedUntilRemoved
<1> DEFINE Kept(r) ==
      Owned(r) /\ records'[r].state \in {Free, Claimed} => dir'[records[r].dir] = "removed"
<1>1. TypeOK /\ IInv /\ [Next]_vars => \A r \in Record : Kept(r)
  <2> SUFFICES ASSUME TypeOK, IInv, [Next]_vars, NEW r \in Record PROVE Kept(r)
    OBVIOUS
  <2> USE DEF Owned, Free, Claimed, Committed, Monitored
  <2>1. CASE records' = records
    BY <2>1
  <2>2. CASE Retire
    BY <2>2 DEF Retire, RetiredRecord, TypeOK, RecordEntry
  <2>3. ASSUME NEW q \in Record, AttemptSucceeds(q) PROVE Kept(r)
    BY <2>3 DEF AttemptSucceeds, TypeOK
  <2>4. ASSUME NEW w \in Worker, NEW q \in Record, ClaimRecord(w, q) PROVE Kept(r)
    BY <2>4 DEF ClaimRecord, TypeOK
  <2>5. ASSUME NEW w \in Worker, GrantReservation(w) PROVE Kept(r)
    BY <2>5 DEF GrantReservation, TypeOK, IInv, MemPart, ReservationPart
  <2>6. ASSUME NEW w \in Worker, CommitRecord(w) PROVE Kept(r)
    BY <2>6 DEF CommitRecord, TypeOK
  <2>7. ASSUME NEW w \in Worker, SettleWorker(w) PROVE Kept(r)
    BY <2>7 DEF SettleWorker, TypeOK, IInv, ReservationPart
  <2>8. ASSUME NEW w \in Worker, CleanupSucceeds(w) PROVE Kept(r)
    <3>1. records[rec[w]].dir = w
      BY <2>8, NoneAssumption DEF CleanupSucceeds, IInv, ReservationPart
    <3> QED BY <2>8, <3>1 DEF CleanupSucceeds, TypeOK
  <2>9. Next => \/ records' = records \/ Retire
                \/ \E q \in Record : AttemptSucceeds(q)
                \/ \E w \in Worker : \/ \E q \in Record : ClaimRecord(w, q)
                                     \/ GrantReservation(w) \/ CommitRecord(w)
                                     \/ SettleWorker(w) \/ CleanupSucceeds(w)
    BY DEF Next, MonitorNext, HostNext, WorkerNext, SystemNext, StartHost, StartHostFails,
           ObserveHostExit, ExpireHost, KillHost, HostEnds, ConfirmHostStopped, TerminateOrphan,
           ClearOrphan, BeginAttempt, AttemptRemoves, AttemptFails, HostCrash, TrayExit, HostExits,
           SpawnWorker, ClaimWorkerSlot, PublishWorker, RegistrationFails, SendCommand, HostSends,
           AcknowledgeCapture, StopWorker, UnregisterWorker, QuarantineWorker, BeginCleanup,
           CleanupRemoves, CleanupFails, AskReservation, CreateDirectory, WriteOutput,
           WorkerAdvances, ProcessExits, StrangerStarts, registry
  <2> QED BY <2>1, <2>2, <2>3, <2>4, <2>5, <2>6, <2>7, <2>8, <2>9 DEF vars, registry
<1>2. TypeOK /\ IInv /\ [Next]_vars =>
        [\A r \in Record :
           records[r].state \in {Committed, Monitored} /\ records'[r].state \in {Free, Claimed}
           => dir'[records[r].dir] = "removed"]_vars
  BY <1>1 DEF Owned
<1> QED BY <1>2, TypeCorrect, Invariance, PTL DEF Spec, OwnedUntilRemoved

-----------------------------------------------------------------------------
(* A worker the server admits finds a free shared slot: the execution slots  *)
(* tcp_server.cpp counts bound the shared worker slots in use, for every     *)
(* number of slots and after every crash.                                    *)

(* The host is inside a section that lets no other host code run.           *)
Busy(w) == phase[w] \in {"spawned", "claimed", "reserving", "unregistered"}

(* Every slot in use is held by a worker the live host remembers; only one  *)
(* worker is in such a section; and one just spawned has a slot to claim.   *)
SlotsHeld ==
  host = "up" => \A s \in WorkerSlot : workers[s].state # Free => \E w \in Worker : slot[w] = s
OneBusy == \A v, w \in Worker : Busy(v) /\ Busy(w) => v = w
Admission == SlotsHeld /\ OneBusy /\ RegistrationFits

(* The steps that write a slot, the host's memory or its life.              *)
LEMMA SlotSteps ==
  [Next]_vars =>
    \/ UNCHANGED <<workers, host, phase, slot>>
    \/ StartHost \/ Retire \/ \E code \in {"clean", "killed"} : HostEnds(code)
    \/ \E s \in WorkerSlot : ClearOrphan(s)
    \/ \E w \in Worker :
         \/ \E p \in Pid : SpawnWorker(w, p)
         \/ \E s \in WorkerSlot : ClaimWorkerSlot(w, s)
         \/ \E r \in Record : ClaimRecord(w, r)
         \/ PublishWorker(w) \/ RegistrationFails(w) \/ GrantReservation(w) \/ StopWorker(w)
         \/ UnregisterWorker(w) \/ SettleWorker(w) \/ QuarantineWorker(w) \/ CleanupSucceeds(w)
BY DEF Next, MonitorNext, HostNext, WorkerNext, SystemNext, vars, registry, memory, hostVars,
       StartHostFails, ObserveHostExit, ExpireHost, KillHost, ConfirmHostStopped,
       TerminateOrphan, BeginAttempt, AttemptRemoves, AttemptSucceeds, AttemptFails, HostCrash,
       TrayExit, HostExits, SendCommand, AcknowledgeCapture, HostSends, AskReservation,
       WorkerAdvances, CreateDirectory, CommitRecord, WriteOutput, BeginCleanup, CleanupRemoves,
       CleanupFails, ProcessExits, StrangerStarts

(* The counting argument: were every slot in use, the workers holding them  *)
(* would be as many as the slots, and the server would not have spawned.    *)
LEMMA SpawnFits ==
  ASSUME TypeOK, IInv, SlotsHeld, HostIdle, ~ServiceLimitReached
  PROVE  \E s \in WorkerSlot : workers[s].state = Free
<1> SUFFICES ASSUME \A s \in WorkerSlot : workers[s].state # Free PROVE FALSE
  OBVIOUS
<1>1. \A s \in WorkerSlot : \E w \in InService : slot[w] = s
  <2> SUFFICES ASSUME NEW s \in WorkerSlot PROVE \E w \in InService : slot[w] = s
    OBVIOUS
  <2>1. PICK w \in Worker : slot[w] = s
    BY DEF SlotsHeld, HostIdle
  <2>2. phase[w] \in {"ready", "stopping", "quarantined"}
    BY <2>1, NoneAssumption DEF HostIdle, IInv, MemPart, TypeOK, Phase
  <2> QED BY <2>1, <2>2 DEF InService
<1> DEFINE Holder == [s \in WorkerSlot |-> CHOOSE w \in InService : slot[w] = s]
<1>2. Holder \in [WorkerSlot -> InService] /\ \A s \in WorkerSlot : slot[Holder[s]] = s
  BY <1>1
<1>3. IsFiniteSet(InService) /\ IsFiniteSet(WorkerSlot)
  BY FiniteAssumption, FS_Subset DEF InService
<1>4. Cardinality(InService) < Cardinality(WorkerSlot)
  BY <1>3, FS_CardinalityType DEF ServiceLimitReached
<1> HIDE DEF Holder
<1>5. \E s, t \in WorkerSlot : s # t /\ Holder[s] = Holder[t]
  BY <1>2, <1>3, <1>4, FS_PigeonHole
<1> QED BY <1>2, <1>5

(* At most one worker is inside such a section after every step.            *)
LEMMA BusyStep == TypeOK /\ OneBusy /\ [Next]_vars => OneBusy'
<1> SUFFICES ASSUME TypeOK, OneBusy, [Next]_vars PROVE OneBusy'
  OBVIOUS
<1> USE DEF OneBusy, Busy
<1>1. CASE UNCHANGED phase
  BY <1>1
<1>2. CASE \A w \in Worker : phase'[w] = "none"
  BY <1>2
<1>3. ASSUME NEW w \in Worker, HostIdle, \A v \in Worker \ {w} : phase'[v] = phase[v]
      PROVE  OneBusy'
  BY <1>3 DEF HostIdle
<1>4. ASSUME NEW w \in Worker, ~Busy(w)', \A v \in Worker \ {w} : phase'[v] = phase[v]
      PROVE  OneBusy'
  BY <1>4
<1>5. ASSUME NEW w \in Worker, Busy(w), \A v \in Worker \ {w} : phase'[v] = phase[v]
      PROVE  OneBusy'
  BY <1>5
<1>6. StartHost \/ (\E code \in {"clean", "killed"} : HostEnds(code))
      => \A w \in Worker : phase'[w] = "none"
  BY DEF StartHost, HostEnds, NoMemory
<1>7. Retire \/ (\E s \in WorkerSlot : ClearOrphan(s)) => UNCHANGED phase
  BY DEF Retire, ClearOrphan, hostVars, memory
<1>8. ASSUME NEW w \in Worker,
             \/ \E p \in Pid : SpawnWorker(w, p)
             \/ \E r \in Record : ClaimRecord(w, r)
             \/ StopWorker(w) \/ UnregisterWorker(w) \/ QuarantineWorker(w) \/ CleanupSucceeds(w)
      PROVE  OneBusy'
  <2>1. HostIdle /\ \A v \in Worker \ {w} : phase'[v] = phase[v]
    BY <1>8 DEF SpawnWorker, ClaimRecord, StopWorker, UnregisterWorker, QuarantineWorker,
                CleanupSucceeds, Forget, TypeOK
  <2> QED BY <1>3, <2>1
<1>9. ASSUME NEW w \in Worker,
             \/ \E s \in WorkerSlot : ClaimWorkerSlot(w, s)
             \/ PublishWorker(w) \/ RegistrationFails(w) \/ GrantReservation(w) \/ SettleWorker(w)
      PROVE  OneBusy'
  <2>1. Busy(w) /\ \A v \in Worker \ {w} : phase'[v] = phase[v]
    BY <1>9 DEF ClaimWorkerSlot, PublishWorker, RegistrationFails, GrantReservation,
                SettleWorker, Forget, TypeOK
  <2> QED BY <1>5, <2>1
<1> QED BY <1>1, <1>6, <1>2, <1>7, <1>8, <1>9, SlotSteps

(* A slot in use is held after every step.                                  *)
LEMMA HeldStep == TypeOK /\ IInv /\ SlotsHeld /\ [Next]_vars => SlotsHeld'
<1> SUFFICES ASSUME TypeOK, IInv, SlotsHeld, [Next]_vars PROVE SlotsHeld'
  OBVIOUS
<1> USE DEF SlotsHeld
<1>1. CASE UNCHANGED <<workers, host, slot>>
  BY <1>1
<1>2. CASE StartHost
  BY <1>2 DEF StartHost, IInv, SlotPart, Watched, registry
<1>3. CASE host' # "up"
  BY <1>3
<1>4. ASSUME Retire \/ \E s \in WorkerSlot : ClearOrphan(s) PROVE host' # "up"
  BY <1>4 DEF Retire, ClearOrphan, hostVars, IInv, HostPart
<1>5. ASSUME NEW w \in Worker, NEW s \in WorkerSlot, ClaimWorkerSlot(w, s) PROVE SlotsHeld'
  <2>1. slot[w] = None /\ slot'[w] = s /\ \A v \in Worker \ {w} : slot'[v] = slot[v]
    BY <1>5 DEF ClaimWorkerSlot, IInv, MemPart, TypeOK
  <2>2. \A u \in WorkerSlot \ {s} : workers'[u] = workers[u]
    BY <1>5 DEF ClaimWorkerSlot, TypeOK
  <2> QED BY <1>5, <2>1, <2>2, NoneAssumption DEF ClaimWorkerSlot
<1>6. ASSUME NEW w \in Worker, PublishWorker(w) PROVE SlotsHeld'
  <2>1. \A u \in WorkerSlot : u # slot[w] => workers'[u] = workers[u]
    BY <1>6 DEF PublishWorker, TypeOK
  <2> QED BY <1>6, <2>1 DEF PublishWorker
<1>7. ASSUME NEW w \in Worker, UnregisterWorker(w) PROVE SlotsHeld'
  <2>1. slot[w] \in WorkerSlot /\ workers'[slot[w]].state = Free
    BY <1>7 DEF UnregisterWorker, IInv, MemPart, TypeOK, WorkerEntry
  <2>2. \A u \in WorkerSlot : u # slot[w] => workers'[u] = workers[u]
    BY <1>7 DEF UnregisterWorker, TypeOK
  <2>3. \A v \in Worker \ {w} : slot'[v] = slot[v]
    BY <1>7 DEF UnregisterWorker, TypeOK
  <2> QED BY <1>7, <2>1, <2>2, <2>3 DEF UnregisterWorker
<1>8. ASSUME NEW w \in Worker, RegistrationFails(w) \/ SettleWorker(w) \/ CleanupSucceeds(w)
      PROVE  SlotsHeld'
  <2>1. slot[w] = None
    BY <1>8, NoneAssumption DEF RegistrationFails, SettleWorker, CleanupSucceeds, HostIdle, IInv, MemPart,
                ReservationPart, TypeOK
  <2>2. slot' = slot
    BY <1>8, <2>1 DEF RegistrationFails, SettleWorker, CleanupSucceeds, Forget, TypeOK
  <2> QED BY <1>1, <1>8, <2>2 DEF RegistrationFails, SettleWorker, CleanupSucceeds, registry
<1>9. ASSUME NEW w \in Worker,
             \/ \E p \in Pid : SpawnWorker(w, p)
             \/ \E r \in Record : ClaimRecord(w, r)
             \/ GrantReservation(w) \/ StopWorker(w) \/ QuarantineWorker(w)
      PROVE  UNCHANGED <<workers, host, slot>>
  BY <1>9 DEF SpawnWorker, ClaimRecord, GrantReservation, StopWorker, QuarantineWorker, registry
<1>10. ASSUME NEW code, HostEnds(code) PROVE host' # "up"
  BY <1>10 DEF HostEnds
<1> QED BY <1>1, <1>2, <1>3, <1>4, <1>5, <1>6, <1>7, <1>8, <1>9, <1>10, SlotSteps

(* A spawned worker keeps a slot to claim until it has claimed one.         *)
LEMMA FitsStep == TypeOK /\ IInv /\ Admission /\ [Next]_vars => RegistrationFits'
<1> SUFFICES ASSUME TypeOK, IInv, Admission, [Next]_vars PROVE RegistrationFits'
  OBVIOUS
<1> USE DEF Admission, RegistrationFits
<1>1. CASE UNCHANGED <<workers, host, phase>>
  BY <1>1
<1>2. CASE host' # "up" \/ \A w \in Worker : phase'[w] # "spawned"
  BY <1>2
<1>3. ASSUME NEW w \in Worker, NEW p \in Pid, SpawnWorker(w, p) PROVE RegistrationFits'
  BY <1>3, SpawnFits DEF SpawnWorker, registry
<1>4. ASSUME NEW w \in Worker, Busy(w) \/ HostIdle, phase'[w] # "spawned",
             \A v \in Worker \ {w} : phase'[v] = phase[v]
      PROVE  RegistrationFits'
  <2>1. \A v \in Worker : phase'[v] # "spawned"
    BY <1>4 DEF OneBusy, Busy, HostIdle
  <2> QED BY <1>2, <2>1
<1>5. ASSUME NEW w \in Worker,
             \/ \E s \in WorkerSlot : ClaimWorkerSlot(w, s)
             \/ \E r \in Record : ClaimRecord(w, r)
             \/ PublishWorker(w) \/ RegistrationFails(w) \/ GrantReservation(w) \/ StopWorker(w)
             \/ UnregisterWorker(w) \/ SettleWorker(w) \/ QuarantineWorker(w) \/ CleanupSucceeds(w)
      PROVE  RegistrationFits'
  <2>1. (Busy(w) \/ HostIdle) /\ \A v \in Worker \ {w} : phase'[v] = phase[v]
    BY <1>5 DEF Busy, ClaimWorkerSlot, ClaimRecord, PublishWorker, RegistrationFails,
                GrantReservation, StopWorker, UnregisterWorker, SettleWorker, QuarantineWorker,
                CleanupSucceeds, Forget, TypeOK
  <2>2. phase'[w] # "spawned"
    BY <1>5 DEF ClaimWorkerSlot, ClaimRecord, PublishWorker, RegistrationFails,
                GrantReservation, StopWorker, UnregisterWorker, SettleWorker, QuarantineWorker,
                CleanupSucceeds, Forget, TypeOK
  <2> QED BY <1>4, <2>1, <2>2
<1>6. StartHost => \A w \in Worker : phase'[w] # "spawned"
  BY DEF StartHost, NoMemory
<1>7. ASSUME Retire \/ \E s \in WorkerSlot : ClearOrphan(s) PROVE host' # "up"
  BY <1>7 DEF Retire, ClearOrphan, hostVars, IInv, HostPart
<1>8. ASSUME NEW code, HostEnds(code) PROVE host' # "up"
  BY <1>8 DEF HostEnds
<1> QED BY <1>1, <1>2, <1>3, <1>5, <1>6, <1>7, <1>8, SlotSteps

(* The execution slots of tcp_server.cpp and the shared worker slots agree  *)
(* after every crash: an admitted worker always finds a slot to register in.*)
THEOREM RegistrationFitsHolds == Spec => []RegistrationFits
<1>1. Init => Admission
  BY DEF Init, Admission, SlotsHeld, OneBusy, Busy, RegistrationFits
<1>2. TypeOK /\ IInv /\ Admission /\ [Next]_vars => Admission'
  BY BusyStep, HeldStep, FitsStep DEF Admission
<1>3. Admission => RegistrationFits
  BY DEF Admission
<1> QED BY <1>1, <1>2, <1>3, TypeCorrect, Invariance, PTL DEF Spec
=============================================================================
