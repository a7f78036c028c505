--------------------- MODULE RecoveryRegistry_refinement ---------------------
(* RecoveryRegistry implements CaptureOwnership, for every number of workers, *)
(* process identifiers, slots, records and host instances.                  *)
EXTENDS RecoveryRegistry_proofs

Owner == [w \in Worker |-> OwnerOf(w)]
Removed == {w \in Worker : dir[w] = "removed"}

(* A record that is owned before a step is owned after it, in the same state *)
(* and for the same worker, and the other way round.                        *)
SameRecords ==
  \A r \in Record : Owned(r) \/ Owned(r)' =>
    records'[r].state = records[r].state /\ records'[r].dir = records[r].dir

(* The one record that owns a worker's capture says who its owner is: the   *)
(* host for a committed record, the monitor for a monitored one.            *)
LEMMA OwnerOfRecord ==
  ASSUME IInv, NEW r \in Record, Owned(r)
  PROVE  Owner[records[r].dir] = IF records[r].state = Committed THEN "host" ELSE "monitor"
<1>1. records[r].dir \in Worker
  BY DEF IInv, RecordPart
<1>2. \A q \in Record : Owned(q) /\ records[q].dir = records[r].dir => q = r
  BY DEF IInv, RecordPart
<1> QED BY <1>1, <1>2 DEF Owner, OwnerOf, Owned, Committed, Monitored

(* A worker that no record names has no owner.                              *)
LEMMA OwnerOfNone ==
  ASSUME NEW w \in Worker, \A r \in Record : Owned(r) => records[r].dir # w
  PROVE  Owner[w] = "nobody"
BY DEF Owner, OwnerOf, Owned

(* A step that leaves the owned records alone leaves the owners alone.      *)
LEMMA OwnersUnchanged == SameRecords => Owner' = Owner
<1> SUFFICES ASSUME SameRecords PROVE \A w \in Worker : OwnerOf(w)' = OwnerOf(w)
  BY DEF Owner
<1> TAKE w \in Worker
<1>1. \A r \in Record : records'[r].state = Committed /\ records'[r].dir = w
                        <=> records[r].state = Committed /\ records[r].dir = w
  BY DEF SameRecords, Owned, Committed, Monitored
<1>2. \A r \in Record : records'[r].state = Monitored /\ records'[r].dir = w
                        <=> records[r].state = Monitored /\ records[r].dir = w
  BY DEF SameRecords, Owned, Committed, Monitored
<1> QED BY <1>1, <1>2 DEF OwnerOf

(* The initial registry owns nothing.                                       *)
LEMMA OwnershipInit == Init => Ownership!Init
<1> SUFFICES ASSUME Init PROVE Ownership!Init
  OBVIOUS
<1>1. \A w \in Worker : OwnerOf(w) = "nobody"
  BY DEF Init, OwnerOf, Free, Committed, Monitored
<1>2. {w \in Worker : dir[w] = "removed"} = {}
  BY DEF Init
<1> QED BY <1>1, <1>2 DEF Ownership!Init

(* Freeing the record of a removed capture discharges its owner.            *)
LEMMA Discharges ==
  ASSUME TypeOK, IInv, NEW r \in Record, Owned(r), NEW w, records[r].dir = w,
         dir[w] = "removed", records' = [records EXCEPT ![r].state = Free], dir' = dir
  PROVE  Ownership!Discharge(w)
<1>1. w \in Worker /\ Owner[w] \in {"host", "monitor"}
  BY OwnerOfRecord DEF IInv, RecordPart
<1>2. \A q \in Record \ {r} : records'[q] = records[q]
  BY DEF TypeOK
<1>3. records'[r].state = Free
  BY DEF TypeOK, RecordEntry
<1>4. \A q \in Record \ {r} : Owned(q) => records[q].dir # w
  BY DEF IInv, RecordPart
<1>5. Owner'[w] = "nobody"
  BY <1>1, <1>2, <1>3, <1>4 DEF Owner, OwnerOf, Owned, Free, Committed, Monitored
<1>6. ASSUME NEW v \in Worker, v # w PROVE Owner'[v] = Owner[v]
  BY <1>2, <1>3, <1>6 DEF Owner, OwnerOf, Free, Committed, Monitored
<1>7. Owner' = [Owner EXCEPT ![w] = "nobody"]
  BY <1>1, <1>5, <1>6 DEF Owner
<1> QED BY <1>1, <1>7 DEF Ownership!Discharge, Owner

-----------------------------------------------------------------------------
(* Only an acknowledged capture is ever removed.                            *)
RemovedPart == \A w \in Worker : dir[w] = "removed" => proc[w].stage \in {"committed", "capturing"}

(* The steps of the protocol that write a record, a directory or a worker's *)
(* progress; the others leave all three alone.                              *)
LEMMA NextCases ==
  [Next]_vars =>
    \/ UNCHANGED <<records, dir, proc>>
    \/ Retire
    \/ \E r \in Record : AttemptRemoves(r) \/ AttemptSucceeds(r)
    \/ \E w \in Worker :
         \/ \E p \in Pid : SpawnWorker(w, p)
         \/ \E r \in Record : ClaimRecord(w, r)
         \/ HostSends(w, "waiting", "operating") \/ HostSends(w, "committed", "capturing")
         \/ AskReservation(w) \/ GrantReservation(w) \/ CreateDirectory(w) \/ CommitRecord(w)
         \/ WriteOutput(w) \/ SettleWorker(w) \/ CleanupRemoves(w) \/ CleanupSucceeds(w)
BY DEF Next, MonitorNext, HostNext, WorkerNext, SystemNext, vars, registry, processVars,
       StartHost, StartHostFails, ObserveHostExit, ExpireHost, KillHost, HostEnds,
       ConfirmHostStopped, TerminateOrphan, ClearOrphan, BeginAttempt, AttemptFails, HostCrash,
       TrayExit, HostExits, ClaimWorkerSlot, PublishWorker, RegistrationFails, SendCommand,
       AcknowledgeCapture, StopWorker, UnregisterWorker, QuarantineWorker, BeginCleanup,
       CleanupFails, ProcessExits, StrangerStarts

(* What a cleanup or a recovery attempt holds is the record of a capture.   *)
LEMMA HeldRecords ==
  ASSUME TypeOK, IInv
  PROVE  /\ attempt # None => attempt \in Record /\ Owned(attempt)
         /\ cleaning # None => /\ cleaning \in Worker /\ rec[cleaning] \in Record
                               /\ Owned(rec[cleaning]) /\ records[rec[cleaning]].dir = cleaning
BY DEF IInv, ReservationPart, TypeOK, Owned

(* A record being reserved is claimed: nobody's capture.                    *)
LEMMA ReservedIsClaimed ==
  ASSUME TypeOK, IInv, NEW w \in Worker, phase[w] = "reserving"
  PROVE  rec[w] \in Record /\ ~Owned(rec[w])
<1>1. rec[w] \in Record /\ proc[w].stage = "asking"
  BY DEF IInv, MemPart, TypeOK
<1>2. rec[w] # None
  BY <1>1, NoneAssumption
<1>3. root[w] = None
  BY <1>1, <1>2 DEF IInv, ReservationPart, RecordPart, Owned
<1> QED BY <1>1, <1>2, <1>3 DEF IInv, ReservationPart, Owned, Claimed, Committed, Monitored

(* Directories are removed by a cleanup or an attempt that holds a record.  *)
LEMMA RemovedStep == TypeOK /\ IInv /\ RemovedPart /\ [Next]_vars => RemovedPart'
<1> SUFFICES ASSUME TypeOK, IInv, RemovedPart, [Next]_vars PROVE RemovedPart'
  OBVIOUS
<1> USE DEF RemovedPart
<1>1. CASE UNCHANGED <<dir, proc>>
  BY <1>1
<1>2. ASSUME NEW r \in Record, AttemptRemoves(r) PROVE RemovedPart'
  <2>1. Owned(r) /\ r # None
    BY <1>2, HeldRecords, NoneAssumption DEF AttemptRemoves
  <2>2. proc[records[r].dir].stage \in {"committed", "capturing"}
    BY <2>1 DEF IInv, RecordPart
  <2> QED BY <1>2, <2>2 DEF AttemptRemoves, TypeOK, processVars
<1>3. ASSUME NEW w \in Worker, CleanupRemoves(w) PROVE RemovedPart'
  <2>1. Owned(rec[w]) /\ rec[w] \in Record /\ records[rec[w]].dir = w
    BY <1>3, HeldRecords, NoneAssumption DEF CleanupRemoves
  <2>2. proc[w].stage \in {"committed", "capturing"}
    BY <2>1 DEF IInv, RecordPart
  <2> QED BY <1>3, <2>2 DEF CleanupRemoves, TypeOK, processVars
<1>4. ASSUME NEW w \in Worker, NEW p \in Pid, SpawnWorker(w, p) PROVE RemovedPart'
  <2>1. dir[w] # "removed"
    BY <1>4 DEF SpawnWorker, IInv, ProcessPart
  <2> QED BY <1>4, <2>1 DEF SpawnWorker, TypeOK
<1>5. ASSUME NEW w \in Worker, NEW from \in Stage, NEW to \in Stage, HostSends(w, from, to),
             from = "waiting" \/ to = "capturing"
      PROVE  RemovedPart'
  BY <1>5 DEF HostSends, TypeOK, Process
<1>6. ASSUME NEW w \in Worker, AskReservation(w) PROVE RemovedPart'
  BY <1>6 DEF AskReservation, WorkerAdvances, TypeOK, Process
<1>7. ASSUME NEW w \in Worker, GrantReservation(w) PROVE RemovedPart'
  <2>1. dir[w] # "removed"
    BY <1>7 DEF GrantReservation, IInv, MemPart
  <2> QED BY <1>7, <2>1 DEF GrantReservation, TypeOK, Process
<1>8. ASSUME NEW w \in Worker, CreateDirectory(w) PROVE RemovedPart'
  BY <1>8 DEF CreateDirectory, WorkerAdvances, TypeOK, Process
<1>9. ASSUME NEW w \in Worker, CommitRecord(w) PROVE RemovedPart'
  BY <1>9 DEF CommitRecord, TypeOK, Process
<1>10. ASSUME NEW w \in Worker, WriteOutput(w) PROVE RemovedPart'
  BY <1>10 DEF WriteOutput, WorkerAdvances, TypeOK, Process
<1>11. \/ Retire \/ \E r \in Record : AttemptSucceeds(r)
       \/ \E w \in Worker : \/ SettleWorker(w) \/ CleanupSucceeds(w)
                            \/ \E r \in Record : ClaimRecord(w, r)
       => UNCHANGED <<dir, proc>>
  BY DEF Retire, AttemptSucceeds, SettleWorker, CleanupSucceeds, ClaimRecord, processVars
<1> QED BY <1>1, <1>2, <1>3, <1>4, <1>5, <1>6, <1>7, <1>8, <1>9, <1>10, <1>11, NextCases DEF Stage

-----------------------------------------------------------------------------
(* Committing a record acknowledges the capture of a worker nobody owned.   *)
LEMMA Acknowledges ==
  ASSUME TypeOK, IInv, RemovedPart, NEW w \in Worker, CommitRecord(w)
  PROVE  Ownership!Acknowledge(w)
<1>1. dir[w] # "removed" /\ \A r \in Record : Owned(r) => records[r].dir # w
  BY DEF CommitRecord, RemovedPart, IInv, RecordPart
<1>2. Owner[w] = "nobody"
  BY <1>1, OwnerOfNone
<1>3. rec[w] \in Record /\ ~Owned(rec[w])
  <2>1. root[w] = None /\ rec[w] # None
    BY DEF CommitRecord, IInv, ReservationPart, RecordPart, Owned, TypeOK
  <2> QED BY <2>1 DEF IInv, ReservationPart, TypeOK, Owned, Claimed, Committed, Monitored
<1>4. records'[rec[w]].state = Committed /\ records'[rec[w]].dir = w
  BY <1>3 DEF CommitRecord, TypeOK
<1>5. \A q \in Record \ {rec[w]} : records'[q] = records[q]
  BY DEF CommitRecord, TypeOK
<1>6. Owner'[w] = "host"
  BY <1>3, <1>4 DEF Owner, OwnerOf
<1>7. ASSUME NEW v \in Worker, v # w PROVE Owner'[v] = Owner[v]
  BY <1>3, <1>4, <1>5, <1>7 DEF Owner, OwnerOf, Owned
<1>8. Owner' = [Owner EXCEPT ![w] = "host"]
  BY <1>6, <1>7 DEF Owner
<1>9. dir' = dir
  BY DEF CommitRecord
<1> QED BY <1>1, <1>2, <1>8, <1>9 DEF Ownership!Acknowledge, Owner

(* Retiring a generation hands every capture of its host to the monitor.    *)
LEMMA Inherits == ASSUME TypeOK, IInv, Retire PROVE Ownership!Inherit
<1>1. ASSUME NEW r \in Record
      PROVE  /\ records'[r].state # Committed
             /\ records'[r].state = Monitored <=> Owned(r)
             /\ records'[r].dir = records[r].dir
  <2>1. records'[r] = RetiredRecord(records[r]) /\ records[r] \in RecordEntry
    BY DEF Retire, TypeOK
  <2>2. records[r].state = Committed => records[r].gen <= generation
    BY DEF IInv, RecordPart, TypeOK, RecordEntry
  <2> QED BY <2>1, <2>2 DEF RetiredRecord, RecordEntry, Owned, Free, Claimed, Committed, Monitored
<1>2. ASSUME NEW w \in Worker
      PROVE  OwnerOf(w)' = IF OwnerOf(w) = "host" THEN "monitor" ELSE OwnerOf(w)
  BY <1>1 DEF OwnerOf, Owned
<1>3. Owner' = [w \in Worker |-> IF Owner[w] = "host" THEN "monitor" ELSE Owner[w]]
  BY <1>2 DEF Owner
<1>4. dir' = dir
  BY DEF Retire
<1> QED BY <1>3, <1>4 DEF Ownership!Inherit, Owner

(* Only an owned capture is removed.                                        *)
LEMMA Removes ==
  ASSUME TypeOK, IInv, NEW r \in Record, Owned(r), NEW w, records[r].dir = w,
         records' = records, dir' = [dir EXCEPT ![w] = "removed"]
  PROVE  Ownership!Remove(w)
<1>1. w \in Worker /\ Owner[w] \in {"host", "monitor"}
  BY OwnerOfRecord DEF IInv, RecordPart
<1>2. Removed' = Removed \cup {w}
  BY <1>1 DEF Removed, TypeOK
<1>3. Owner' = Owner
  BY OwnersUnchanged DEF SameRecords
<1> QED BY <1>1, <1>2, <1>3 DEF Ownership!Remove, Owner, Removed

(* Every step is a step of CaptureOwnership or leaves it alone.             *)
LEMMA OwnershipStep ==
  TypeOK /\ IInv /\ RemovedPart /\ [Next]_vars => [Ownership!Next]_<<Owner, Removed>>
<1> DEFINE Implements == [Ownership!Next]_<<Owner, Removed>>
<1> SUFFICES ASSUME TypeOK, IInv, RemovedPart, [Next]_vars PROVE Implements
  OBVIOUS
<1>1. ASSUME SameRecords, \A w \in Worker : dir'[w] = "removed" <=> dir[w] = "removed"
      PROVE  Implements
  BY <1>1, OwnersUnchanged DEF Removed
<1>2. CASE records' = records /\ dir' = dir
  BY <1>1, <1>2 DEF SameRecords
<1>3. CASE Retire
  BY <1>3, Inherits DEF Ownership!Next
<1>4. ASSUME NEW r \in Record, AttemptRemoves(r) PROVE Implements
  <2>1. Owned(r) /\ records[r].dir \in Worker
    BY <1>4, HeldRecords, NoneAssumption DEF AttemptRemoves, IInv, RecordPart
  <2> QED BY <1>4, <2>1, Removes DEF AttemptRemoves, registry, Ownership!Next
<1>5. ASSUME NEW r \in Record, AttemptSucceeds(r) PROVE Implements
  <2>1. Owned(r) /\ records[r].dir \in Worker
    BY <1>5, HeldRecords, NoneAssumption DEF AttemptSucceeds, IInv, RecordPart
  <2> QED BY <1>5, <2>1, Discharges DEF AttemptSucceeds, Ownership!Next
<1>6. ASSUME NEW w \in Worker, CleanupRemoves(w) PROVE Implements
  <2>1. rec[w] \in Record /\ Owned(rec[w]) /\ records[rec[w]].dir = w
    BY <1>6, HeldRecords, NoneAssumption DEF CleanupRemoves
  <2> QED BY <1>6, <2>1, Removes DEF CleanupRemoves, registry, Ownership!Next
<1>7. ASSUME NEW w \in Worker, CleanupSucceeds(w) PROVE Implements
  <2>1. rec[w] \in Record /\ Owned(rec[w]) /\ records[rec[w]].dir = w
    BY <1>7, HeldRecords, NoneAssumption DEF CleanupSucceeds
  <2> QED BY <1>7, <2>1, Discharges DEF CleanupSucceeds, Ownership!Next
<1>8. ASSUME NEW w \in Worker, CommitRecord(w) PROVE Implements
  BY <1>8, Acknowledges DEF Ownership!Next
<1>9. ASSUME NEW w \in Worker, NEW r \in Record, ClaimRecord(w, r) PROVE Implements
  BY <1>1, <1>9 DEF ClaimRecord, SameRecords, Owned, TypeOK, Free, Claimed, Committed, Monitored
<1>10. ASSUME NEW w \in Worker, GrantReservation(w) PROVE Implements
  <2>1. rec[w] \in Record /\ ~Owned(rec[w])
    BY <1>10, ReservedIsClaimed DEF GrantReservation
  <2>2. records'[rec[w]].state = records[rec[w]].state
    BY <1>10, <2>1 DEF GrantReservation, TypeOK
  <2>3. SameRecords
    BY <1>10, <2>1, <2>2 DEF GrantReservation, SameRecords, Owned, TypeOK
  <2> QED BY <1>1, <1>10, <2>3 DEF GrantReservation
<1>11. ASSUME NEW w \in Worker, SettleWorker(w) PROVE Implements
  <2>1. CASE records' = records
    BY <1>2, <1>11, <2>1 DEF SettleWorker
  <2>2. CASE records' # records
    <3>1. rec[w] # None /\ root[w] = None /\ records' = [records EXCEPT ![rec[w]].state = Free]
      BY <1>11, <2>2 DEF SettleWorker
    <3>2. rec[w] \in Record /\ ~Owned(rec[w])
      BY <3>1 DEF IInv, ReservationPart, TypeOK, Owned, Claimed, Committed, Monitored
    <3>3. SameRecords
      BY <3>1, <3>2 DEF SameRecords, Owned, TypeOK, RecordEntry, Free, Committed, Monitored
    <3> QED BY <1>1, <1>11, <3>3 DEF SettleWorker
  <2> QED BY <2>1, <2>2
<1>12. ASSUME NEW w \in Worker, CreateDirectory(w) \/ WriteOutput(w) PROVE Implements
  <2>1. dir[w] # "removed" /\ dir'[w] # "removed" /\ \A v \in Worker \ {w} : dir'[v] = dir[v]
    BY <1>12 DEF CreateDirectory, WriteOutput, WorkerAdvances, RemovedPart, TypeOK
  <2>2. records' = records
    BY <1>12 DEF CreateDirectory, WriteOutput, WorkerAdvances, registry
  <2> QED BY <1>1, <2>1, <2>2 DEF SameRecords
<1>13. ASSUME NEW w \in Worker PROVE
         (\E p \in Pid : SpawnWorker(w, p)) \/ HostSends(w, "waiting", "operating")
         \/ HostSends(w, "committed", "capturing") \/ AskReservation(w)
         => records' = records /\ dir' = dir
  BY DEF SpawnWorker, HostSends, AskReservation, WorkerAdvances, registry
<1> QED BY <1>2, <1>3, <1>4, <1>5, <1>6, <1>7, <1>8, <1>9, <1>10, <1>11, <1>12, <1>13, NextCases

(* The registry keeps what CaptureOwnership promises of every capture: its  *)
(* owner is acknowledged once, inherited by the monitor when the host dies, *)
(* and discharged only after the directory has been removed.                *)
THEOREM ImplementsOwnershipHolds == Spec => ImplementsOwnership
<1>1. Init => RemovedPart
  BY DEF Init, RemovedPart
<1>2. Spec => []RemovedPart
  BY <1>1, RemovedStep, TypeCorrect, Invariance, PTL DEF Spec
<1>3. TypeOK /\ IInv /\ RemovedPart /\ [Next]_vars =>
        [Ownership!Next]_<<[w \in Worker |-> OwnerOf(w)], {w \in Worker : dir[w] = "removed"}>>
  BY OwnershipStep DEF Owner, Removed
<1> QED BY <1>2, <1>3, OwnershipInit, TypeCorrect, Invariance, PTL
        DEF Spec, ImplementsOwnership, Ownership!Spec
=============================================================================
