------------------------- MODULE DesktopPermit_proofs -------------------------
(* The sessions of the TCP server and their desktop, for every number of     *)
(* sessions and every limit on connections and workers.                      *)
EXTENDS DesktopPermit, FiniteSetTheorems, SequenceTheorems, TLAPS

Awaiting == {"queued", "cancelled", "granted", "reaping"}
Executing == Awaiting \cup {"starting", "ready", "running"}

(* An executor that asked for the desktop still executes a desktop request,  *)
(* one that executes a request has its worker, and one that is done has no   *)
(* request.                                                                  *)
ExecutorConsistent ==
  \A s \in Session :
    /\ exec[s] \in Awaiting => op[s] = "desktop"
    /\ exec[s] \in Executing => worker[s]

(* A worker belongs to a session that is not finished; one that is awaited   *)
(* or quarantined has no executor any more.                                  *)
SessionConsistent ==
  \A s \in Session :
    /\ status[s] = "new" => exec[s] = "idle"
    /\ worker[s] => status[s] \in {"open", "closed", "joined"}
    /\ status[s] = "joined" => exec[s] = "done" /\ worker[s]
    /\ s \in quarantine => exec[s] = "done" /\ ~worker[s] /\ status[s] # "open"

(* Whoever may be driving the desktop: it holds the permit, or it was        *)
(* quarantined when it held it.                                              *)
Users == Holders \cup native
NativeOwned ==
  /\ \A s \in native : alive[s] /\ (s \in Holders \/ s \in quarantine)
  /\ \A s, t \in Users : s = t
  /\ Users # {} => busy
  /\ busy => Holders # {} \/ quarantine # {}

Workers == {s \in Session : worker[s]}
WorkersFinite == IsFiniteSet(Workers) /\ IsFiniteSet(quarantine)

(* In single mode one session is served, and only while nobody is quarantined. *)
OneServed ==
  ~multiple =>
    /\ \A s, t \in Listed : s = t
    /\ \A s \in Session : status[s] = "open" => quarantine = {}

IInv ==
  /\ TypeOK /\ ExecutorConsistent /\ SessionConsistent /\ NativeOwned
  /\ WorkersFinite /\ WorkersAccounted /\ OneServed

-----------------------------------------------------------------------------
(* Lemmas about the queue. *)

(* A set of positions that is not empty has a first one.                     *)
LEMMA FirstExists ==
  ASSUME NEW S \in SUBSET Nat, S # {}
  PROVE  \E i \in S : \A j \in S : i <= j
<1>1. IsWellFoundedOn(OpToRel(<, Nat), Nat)
  BY NatLessThanWellFounded
<1>2. PICK i \in S : \A j \in S : ~ (<<j, i>> \in OpToRel(<, Nat))
  BY <1>1, WFMin
<1>3. \A j \in S : ~ (j < i)
  BY <1>2 DEF OpToRel
<1> QED BY <1>3

(* FirstPending is 0, or the position of a waiter that can be granted.       *)
LEMMA FirstPendingType ==
  ASSUME TypeOK, FirstPending # 0
  PROVE  /\ FirstPending \in 1..Len(waiters)
         /\ waiters[FirstPending] \in Session /\ exec[waiters[FirstPending]] = "queued"
<1>1. Pending # {} /\ FirstPending = CHOOSE i \in Pending : \A j \in Pending : i <= j
  BY DEF FirstPending
<1>2. Pending \in SUBSET Nat /\ DOMAIN waiters = 1..Len(waiters)
  BY LenProperties DEF TypeOK, Pending
<1>3. FirstPending \in Pending
  BY <1>1, <1>2, FirstExists
<1>4. FirstPending \in 1..Len(waiters) /\ exec[waiters[FirstPending]] = "queued"
  BY <1>2, <1>3 DEF Pending
<1>5. waiters[FirstPending] \in Session
  BY <1>4, ElementOfSeq DEF TypeOK
<1> QED BY <1>4, <1>5

(* Leaving the queue leaves a queue.                                         *)
LEMMA RemoveFirstType ==
  ASSUME NEW S, NEW q \in Seq(S), NEW e
  PROVE  RemoveFirst(q, e) \in Seq(S)
<1> DEFINE I == {i \in 1..Len(q) : q[i] = e}
<1>1. CASE I = {}
  BY <1>1 DEF RemoveFirst
<1>2. CASE I # {}
  <2>1. Len(q) \in Nat /\ I \in SUBSET Nat
    BY LenProperties
  <2>2. PICK i \in I : i = Min(I)
    BY <1>2, <2>1, FirstExists DEF Min
  <2>3. RemoveFirst(q, e) = SubSeq(q, 1, i - 1) \o SubSeq(q, i + 1, Len(q))
    BY <1>2, <2>2 DEF RemoveFirst, RemoveAt, SelectInSeq
  <2>4. \A j \in 1..Len(q) : q[j] \in S
    BY ElementOfSeq
  <2> HIDE DEF I
  <2>a. i \in 1..Len(q)
    BY <2>2 DEF I
  <2>5. /\ i \in Nat /\ i - 1 \in Int /\ i + 1 \in Int
        /\ \A j \in 1..(i - 1) : q[j] \in S
        /\ \A j \in (i + 1)..Len(q) : q[j] \in S
    BY <2>1, <2>4, <2>a
  <2>6. SubSeq(q, 1, i - 1) \in Seq(S)
    BY <2>5, SubSeqProperties
  <2>7. SubSeq(q, i + 1, Len(q)) \in Seq(S)
    BY <2>1, <2>5, SubSeqProperties
  <2> QED BY <2>3, <2>6, <2>7, ConcatProperties
<1> QED BY <1>1, <1>2

(* A release frees the desktop, or hands it to one waiter that is pending.   *)
LEMMA ReleaseEffect ==
  ASSUME TypeOK, NEW s \in Session, NEW next \in {"idle", "done"},
         exec[s] # "queued", ReleaseDesktop(s, next)
  PROVE  /\ waiters' \in Seq(Session)
         /\ \/ busy' = FALSE /\ exec' = [exec EXCEPT ![s] = next]
            \/ /\ busy' = busy
               /\ \E w \in Session :
                    /\ w # s /\ exec[w] = "queued"
                    /\ exec' = [exec EXCEPT ![s] = next, ![w] = "granted"]
<1>1. CASE FirstPending = 0
  BY <1>1, EmptySeq DEF ReleaseDesktop
<1>2. CASE FirstPending # 0
  <2>1. PICK i \in 1..Len(waiters) :
          i = FirstPending /\ waiters[i] \in Session /\ exec[waiters[i]] = "queued"
    BY <1>2, FirstPendingType
  <2>2. /\ waiters' = SubSeq(waiters, i + 1, Len(waiters))
        /\ exec' = [exec EXCEPT ![s] = next, ![waiters[i]] = "granted"]
        /\ busy' = busy
    BY <1>2, <2>1 DEF ReleaseDesktop
  <2>3. Len(waiters) \in Nat /\ \A j \in 1..Len(waiters) : waiters[j] \in Session
    BY LenProperties, ElementOfSeq DEF TypeOK
  <2>4. i + 1 \in Int /\ \A j \in (i + 1)..Len(waiters) : waiters[j] \in Session
    BY <2>3
  <2>5. waiters' \in Seq(Session)
    BY <2>2, <2>3, <2>4, SubSeqProperties
  <2> QED BY <2>1, <2>2, <2>5
<1> QED BY <1>1, <1>2

-----------------------------------------------------------------------------
(* No session, no worker and no request yet.                                 *)
LEMMA InitIInv == Init => IInv
<1> SUFFICES ASSUME Init PROVE IInv
  OBVIOUS
<1> USE LimitAssumption DEF Init
<1>1. TypeOK
  BY EmptySeq DEF TypeOK
<1>2. ExecutorConsistent /\ SessionConsistent
  BY DEF ExecutorConsistent, SessionConsistent, Awaiting, Executing
<1>3. Holders = {} /\ NativeOwned
  BY DEF NativeOwned, Users, Holders
<1>4. Workers = {}
  BY DEF Workers
<1>5. WorkersFinite
  BY <1>4, FS_EmptySet DEF WorkersFinite
<1>6. WorkersAccounted
  <2>1. Cardinality(Workers) = 0 /\ Cardinality(quarantine) = 0
    BY <1>4, FS_EmptySet
  <2> QED BY <2>1 DEF WorkersAccounted, Workers
<1>7. OneServed
  BY DEF OneServed, Listed
<1> QED BY <1>1, <1>2, <1>3, <1>5, <1>6, <1>7 DEF IInv

(* A session that has a worker is counted.                                   *)
LEMMA WorkerIsCounted ==
  ASSUME IInv, NEW s \in Session, worker[s]
  PROVE  count \in Nat /\ count > 0 /\ count - 1 \in Nat
<1>1. /\ IsFiniteSet(Workers) /\ IsFiniteSet(quarantine)
      /\ count = Cardinality(Workers) + Cardinality(quarantine) /\ count \in Nat
  BY DEF IInv, WorkersFinite, WorkersAccounted, Workers, TypeOK
<1>2. Cardinality(Workers) \in Nat /\ Cardinality(quarantine) \in Nat
  BY <1>1, FS_CardinalityType
<1>3. Workers # {}
  BY DEF Workers
<1>4. Cardinality(Workers) # 0
  BY <1>1, <1>3, FS_EmptySet
<1> QED BY <1>1, <1>2, <1>4

(* Every step keeps the types.                                               *)
LEMMA NextTypeOK == IInv /\ [Next]_vars => TypeOK'
<1> SUFFICES ASSUME IInv, [Next]_vars PROVE TypeOK'
  OBVIOUS
<1>0. TypeOK /\ multiple' = multiple
  BY DEF IInv, Next, vars
<1> USE <1>0 DEF TypeOK
<1>1. CASE UNCHANGED vars
  BY <1>0, <1>1 DEF vars, coroutine, process, permit
<1>2. CASE StopServer
  BY <1>0, <1>2 DEF StopServer, ClosedStatus, process, permit
<1>3. ASSUME NEW s \in Session, Executor(s) PROVE TypeOK'
  <2> USE <1>0 DEF process, permit, coroutine, Abandon, ClosedStatus
  <2>1. CASE EndExecutor(s) \/ TakeRequestFails(s) \/ InitializeWorker(s)
             \/ InitializeWorkerFails(s) \/ BeginPlain(s) \/ CancelReady(s) \/ CancelWait(s)
    BY <2>1 DEF EndExecutor, TakeRequestFails, InitializeWorker, InitializeWorkerFails,
      BeginPlain, CancelReady, CancelWait
  <2>2. ASSUME NEW kind \in Kind, TakeRequest(s, kind) PROVE TypeOK'
    <3>1. kind \in {"desktop", "plain"} /\ count + 1 \in Nat
      BY KindAssumption
    <3> QED BY <2>2, <3>1 DEF TakeRequest
  <2>3. CASE AcquireDesktop(s)
    <3>1. Append(waiters, s) \in Seq(Session)
      BY AppendProperties
    <3> QED BY <2>3, <3>1 DEF AcquireDesktop
  <2>4. CASE LeaveQueue(s)
    BY <2>4, RemoveFirstType DEF LeaveQueue
  <2>5. CASE ResumeGranted(s) \/ CompletePlain(s) \/ FailPlain(s) \/ FailDesktop(s)
             \/ QuarantineDesktop(s)
    BY <2>5 DEF ResumeGranted, CompletePlain, FailPlain, FailDesktop, QuarantineDesktop
  <2>6. CASE CompleteDesktop(s)
    BY <2>6, ReleaseEffect DEF CompleteDesktop
  <2>7. CASE ReapDesktop(s)
    <3>1. worker[s]
      BY <2>7 DEF ReapDesktop, IInv, ExecutorConsistent, Executing, Awaiting
    <3> QED BY <2>7, <3>1, ReleaseEffect, WorkerIsCounted DEF ReapDesktop
  <2> QED BY <1>3, <2>1, <2>2, <2>3, <2>4, <2>5, <2>6, <2>7 DEF Executor
<1>4. ASSUME NEW s \in Session, Serving(s) PROVE TypeOK'
  <2> USE <1>0 DEF process, permit, coroutine
  <2>1. CASE ReapWorker(s)
    <3>1. worker[s]
      BY <2>1 DEF ReapWorker, IInv, SessionConsistent
    <3> QED BY <2>1, <3>1, WorkerIsCounted DEF ReapWorker
  <2>2. CASE ~ReapWorker(s)
    BY <1>4, <2>2 DEF Serving, Accept, Reject, Disconnect, JoinExecutor, QuarantineWorker,
      ReapSession
  <2> QED BY <2>1, <2>2
<1>5. ASSUME NEW s \in Session, SendDesktopCommand(s) \/ WorkerExits(s) PROVE TypeOK'
  BY <1>0, <1>5 DEF SendDesktopCommand, WorkerExits, process, permit, coroutine
<1> QED BY <1>1, <1>2, <1>3, <1>4, <1>5 DEF Next

(* Every step keeps executors, workers and sessions consistent.              *)
LEMMA NextConsistent ==
  IInv /\ [Next]_vars => ExecutorConsistent' /\ SessionConsistent'
<1> SUFFICES ASSUME IInv, [Next]_vars PROVE ExecutorConsistent' /\ SessionConsistent'
  OBVIOUS
<1> USE DEF ExecutorConsistent, SessionConsistent, Awaiting, Executing
<1>0. TypeOK /\ ExecutorConsistent /\ SessionConsistent
  BY DEF IInv
<1>1. CASE UNCHANGED vars
  BY <1>0, <1>1 DEF vars, coroutine, process, permit
<1>2. CASE StopServer
  BY <1>0, <1>2 DEF StopServer, ClosedStatus, process, permit, TypeOK
<1>3. ASSUME NEW s \in Session, Executor(s) PROVE ExecutorConsistent' /\ SessionConsistent'
  <2> USE <1>0 DEF process, permit, coroutine, Abandon, ClosedStatus, Closed, TypeOK
  <2>1. CASE EndExecutor(s) \/ TakeRequestFails(s) \/ InitializeWorker(s)
             \/ InitializeWorkerFails(s) \/ BeginPlain(s) \/ CancelReady(s) \/ CancelWait(s)
    BY <2>1 DEF EndExecutor, TakeRequestFails, InitializeWorker, InitializeWorkerFails,
      BeginPlain, CancelReady, CancelWait
  <2>2. ASSUME NEW kind \in Kind, TakeRequest(s, kind)
        PROVE  ExecutorConsistent' /\ SessionConsistent'
    BY <2>2 DEF TakeRequest
  <2>3. CASE AcquireDesktop(s) \/ LeaveQueue(s)
    BY <2>3 DEF AcquireDesktop, LeaveQueue
  <2>4. CASE ResumeGranted(s) \/ CompletePlain(s) \/ FailPlain(s) \/ FailDesktop(s)
    BY <2>4 DEF ResumeGranted, CompletePlain, FailPlain, FailDesktop
  <2>5. CASE QuarantineDesktop(s)
    BY <2>5 DEF QuarantineDesktop
  <2>6. CASE CompleteDesktop(s)
    <3>1. exec[s] # "queued" /\ ReleaseDesktop(s, "idle")
      BY <2>6 DEF CompleteDesktop
    <3>2. CASE busy' = FALSE /\ exec' = [exec EXCEPT ![s] = "idle"]
      BY <2>6, <3>2 DEF CompleteDesktop
    <3>3. ASSUME busy' = busy, NEW w \in Session, w # s, exec[w] = "queued",
                 exec' = [exec EXCEPT ![s] = "idle", ![w] = "granted"]
          PROVE  ExecutorConsistent' /\ SessionConsistent'
      BY <2>6, <3>3 DEF CompleteDesktop
    <3> HIDE DEF TypeOK
    <3>4. \/ busy' = FALSE /\ exec' = [exec EXCEPT ![s] = "idle"]
          \/ /\ busy' = busy
             /\ \E w \in Session :
                  /\ w # s /\ exec[w] = "queued"
                  /\ exec' = [exec EXCEPT ![s] = "idle", ![w] = "granted"]
      BY <1>0, <3>1, ReleaseEffect
    <3> QED BY <3>2, <3>3, <3>4
  <2>7. CASE ReapDesktop(s)
    <3>1. exec[s] # "queued" /\ ReleaseDesktop(s, "done")
      BY <2>7 DEF ReapDesktop
    <3>2. CASE busy' = FALSE /\ exec' = [exec EXCEPT ![s] = "done"]
      BY <2>7, <3>2 DEF ReapDesktop
    <3>3. ASSUME busy' = busy, NEW w \in Session, w # s, exec[w] = "queued",
                 exec' = [exec EXCEPT ![s] = "done", ![w] = "granted"]
          PROVE  ExecutorConsistent' /\ SessionConsistent'
      BY <2>7, <3>3 DEF ReapDesktop
    <3> HIDE DEF TypeOK
    <3>4. \/ busy' = FALSE /\ exec' = [exec EXCEPT ![s] = "done"]
          \/ /\ busy' = busy
             /\ \E w \in Session :
                  /\ w # s /\ exec[w] = "queued"
                  /\ exec' = [exec EXCEPT ![s] = "done", ![w] = "granted"]
      BY <1>0, <3>1, ReleaseEffect
    <3> QED BY <3>2, <3>3, <3>4
  <2> QED BY <1>3, <2>1, <2>2, <2>3, <2>4, <2>5, <2>6, <2>7 DEF Executor
<1>4. ASSUME NEW s \in Session, Serving(s) PROVE ExecutorConsistent' /\ SessionConsistent'
  BY <1>0, <1>4 DEF Serving, Accept, Reject, Disconnect, JoinExecutor, ReapWorker,
    QuarantineWorker, ReapSession, process, permit, coroutine, TypeOK
<1>5. ASSUME NEW s \in Session, SendDesktopCommand(s) \/ WorkerExits(s)
      PROVE  ExecutorConsistent' /\ SessionConsistent'
  BY <1>0, <1>5 DEF SendDesktopCommand, WorkerExits, process, permit, coroutine
<1> QED BY <1>1, <1>2, <1>3, <1>4, <1>5 DEF Next

(* Every step leaves the desktop with at most one process that uses it.      *)
LEMMA NextNativeOwned == IInv /\ [Next]_vars => NativeOwned'
<1> SUFFICES ASSUME IInv, [Next]_vars PROVE NativeOwned'
  OBVIOUS
<1> USE DEF NativeOwned, Users, Holders
<1>0. TypeOK /\ ExecutorConsistent /\ SessionConsistent /\ NativeOwned
  BY DEF IInv
<1>1. CASE UNCHANGED vars
  BY <1>0, <1>1 DEF vars, coroutine, process, permit
<1>2. CASE StopServer
  BY <1>0, <1>2 DEF StopServer, ClosedStatus, process, permit, TypeOK
<1>3. ASSUME NEW s \in Session, Executor(s) PROVE NativeOwned'
  <2> USE <1>0 DEF process, permit, coroutine, TypeOK, Abandon
  <2>1. CASE EndExecutor(s) \/ TakeRequestFails(s) \/ InitializeWorker(s)
             \/ InitializeWorkerFails(s) \/ BeginPlain(s) \/ CancelReady(s) \/ CancelWait(s)
    BY <2>1 DEF EndExecutor, TakeRequestFails, InitializeWorker, InitializeWorkerFails,
      BeginPlain, CancelReady, CancelWait
  <2>2. ASSUME NEW kind \in Kind, TakeRequest(s, kind) PROVE NativeOwned'
    BY <2>2 DEF TakeRequest, SessionConsistent
  <2>3. CASE AcquireDesktop(s)
    BY <2>3 DEF AcquireDesktop
  <2>4. CASE LeaveQueue(s)
    BY <2>4 DEF LeaveQueue
  <2>5. CASE ResumeGranted(s)
    BY <2>5 DEF ResumeGranted, ExecutorConsistent, Awaiting
  <2>6. CASE CompletePlain(s) \/ FailPlain(s)
    <3>1. Holders' = Holders
      BY <2>6 DEF CompletePlain, FailPlain
    <3> QED BY <2>6, <3>1 DEF CompletePlain, FailPlain
  <2>7. CASE FailDesktop(s)
    BY <2>7 DEF FailDesktop
  <2>8. CASE QuarantineDesktop(s)
    BY <2>8 DEF QuarantineDesktop, ExecutorConsistent, Awaiting
  <2>9. CASE CompleteDesktop(s)
    <3>1. exec[s] # "queued" /\ ReleaseDesktop(s, "idle")
      BY <2>9 DEF CompleteDesktop
    <3>2. CASE busy' = FALSE /\ exec' = [exec EXCEPT ![s] = "idle"]
      BY <2>9, <3>2 DEF CompleteDesktop, ExecutorConsistent, Awaiting
    <3>3. ASSUME busy' = busy, NEW w \in Session, w # s, exec[w] = "queued",
                 exec' = [exec EXCEPT ![s] = "idle", ![w] = "granted"]
          PROVE  NativeOwned'
      BY <2>9, <3>3 DEF CompleteDesktop, ExecutorConsistent, Awaiting
    <3> HIDE DEF TypeOK
    <3>4. \/ busy' = FALSE /\ exec' = [exec EXCEPT ![s] = "idle"]
          \/ /\ busy' = busy
             /\ \E w \in Session :
                  /\ w # s /\ exec[w] = "queued"
                  /\ exec' = [exec EXCEPT ![s] = "idle", ![w] = "granted"]
      BY <1>0, <3>1, ReleaseEffect
    <3> QED BY <3>2, <3>3, <3>4
  <2>10. CASE ReapDesktop(s)
    <3>1. exec[s] # "queued" /\ ReleaseDesktop(s, "done")
      BY <2>10 DEF ReapDesktop
    <3>2. CASE busy' = FALSE /\ exec' = [exec EXCEPT ![s] = "done"]
      BY <2>10, <3>2 DEF ReapDesktop, ExecutorConsistent, Awaiting
    <3>3. ASSUME busy' = busy, NEW w \in Session, w # s, exec[w] = "queued",
                 exec' = [exec EXCEPT ![s] = "done", ![w] = "granted"]
          PROVE  NativeOwned'
      BY <2>10, <3>3 DEF ReapDesktop, ExecutorConsistent, Awaiting
    <3> HIDE DEF TypeOK
    <3>4. \/ busy' = FALSE /\ exec' = [exec EXCEPT ![s] = "done"]
          \/ /\ busy' = busy
             /\ \E w \in Session :
                  /\ w # s /\ exec[w] = "queued"
                  /\ exec' = [exec EXCEPT ![s] = "done", ![w] = "granted"]
      BY <1>0, <3>1, ReleaseEffect
    <3> QED BY <3>2, <3>3, <3>4
  <2> QED BY <1>3, <2>1, <2>2, <2>3, <2>4, <2>5, <2>6, <2>7, <2>8, <2>9, <2>10 DEF Executor
<1>4. ASSUME NEW s \in Session, Serving(s) PROVE NativeOwned'
  BY <1>0, <1>4 DEF Serving, Accept, Reject, Disconnect, JoinExecutor, ReapWorker,
    QuarantineWorker, ReapSession, process, permit, coroutine
<1>5. ASSUME NEW s \in Session, SendDesktopCommand(s) \/ WorkerExits(s) PROVE NativeOwned'
  BY <1>0, <1>5 DEF SendDesktopCommand, WorkerExits, process, permit, coroutine, TypeOK
<1> QED BY <1>1, <1>2, <1>3, <1>4, <1>5 DEF Next

(* Every step counts the worker processes: one more when a worker is started, *)
(* one fewer when its exit is confirmed, and none when it is quarantined.     *)
LEMMA NextWorkers == IInv /\ [Next]_vars => WorkersFinite' /\ WorkersAccounted'
<1> SUFFICES ASSUME IInv, [Next]_vars PROVE WorkersFinite' /\ WorkersAccounted'
  OBVIOUS
<1> DEFINE Owned == \A s \in Session : alive[s] => worker[s] \/ s \in quarantine
<1> DEFINE Counted == count = Cardinality(Workers) + Cardinality(quarantine) /\ count <= MaxWorkers
<1>0. TypeOK /\ ExecutorConsistent /\ SessionConsistent /\ WorkersFinite /\ Owned /\ Counted
  BY DEF IInv, WorkersAccounted, Workers
<1>a. SUFFICES WorkersFinite' /\ Owned' /\ Counted'
  BY DEF WorkersAccounted, Workers
<1>b. Cardinality(Workers) \in Nat /\ Cardinality(quarantine) \in Nat /\ MaxWorkers \in Nat
  BY <1>0, FS_CardinalityType, LimitAssumption DEF WorkersFinite
<1>1. ASSUME worker' = worker, quarantine' = quarantine, count' = count,
             \A s \in Session : alive'[s] => alive[s]
      PROVE  WorkersFinite' /\ Owned' /\ Counted'
  <2>1. Workers' = Workers
    BY <1>1 DEF Workers
  <2> QED BY <1>0, <1>1, <2>1 DEF WorkersFinite
<1>2. ASSUME NEW s \in Session, ~worker[s], count < MaxWorkers, count' = count + 1,
             worker' = [worker EXCEPT ![s] = TRUE], alive' = [alive EXCEPT ![s] = TRUE],
             quarantine' = quarantine
      PROVE  WorkersFinite' /\ Owned' /\ Counted'
  <2>1. Workers' = Workers \cup {s} /\ s \notin Workers
    BY <1>0, <1>2 DEF Workers, TypeOK
  <2>2. IsFiniteSet(Workers') /\ Cardinality(Workers') = Cardinality(Workers) + 1
    BY <1>0, <2>1, FS_AddElement DEF WorkersFinite
  <2>3. Owned'
    BY <1>0, <1>2 DEF TypeOK
  <2>4. Counted'
    BY <1>0, <1>b, <1>2, <2>2
  <2> QED BY <1>0, <1>2, <2>2, <2>3, <2>4 DEF WorkersFinite
<1>3. ASSUME NEW s \in Session, worker[s], worker' = [worker EXCEPT ![s] = FALSE], alive' = alive,
             \/ ~alive[s] /\ count' = count - 1 /\ quarantine' = quarantine
             \/ count' = count /\ quarantine' = quarantine \cup {s}
      PROVE  WorkersFinite' /\ Owned' /\ Counted'
  <2>1. Workers' = Workers \ {s} /\ s \in Workers
    BY <1>0, <1>3 DEF Workers, TypeOK
  <2>2. IsFiniteSet(Workers') /\ Cardinality(Workers') = Cardinality(Workers) - 1
    BY <1>0, <2>1, FS_RemoveElement DEF WorkersFinite
  <2>3. s \notin quarantine
    BY <1>0, <1>3 DEF SessionConsistent
  <2>4. /\ IsFiniteSet(quarantine \cup {s})
        /\ Cardinality(quarantine \cup {s}) = Cardinality(quarantine) + 1
    BY <1>0, <2>3, FS_AddElement DEF WorkersFinite
  <2>5. Owned'
    BY <1>0, <1>3 DEF TypeOK
  <2>6. WorkersFinite'
    BY <1>0, <1>3, <2>2, <2>4 DEF WorkersFinite
  <2>7. \/ count' = count - 1 /\ Cardinality(quarantine') = Cardinality(quarantine)
        \/ count' = count /\ Cardinality(quarantine') = Cardinality(quarantine) + 1
    BY <1>3, <2>4
  <2>8. Counted'
    BY <1>0, <1>b, <2>2, <2>7 DEF TypeOK
  <2> QED BY <2>5, <2>6, <2>8
<1> HIDE DEF Owned, Counted
<1>4. CASE UNCHANGED vars
  BY <1>1, <1>4 DEF vars, coroutine, process, permit
<1>5. CASE StopServer
  BY <1>1, <1>5 DEF StopServer, process
<1>6. ASSUME NEW s \in Session, Executor(s) PROVE WorkersFinite' /\ Owned' /\ Counted'
  <2>1. ASSUME NEW kind \in Kind, TakeRequest(s, kind)
        PROVE  WorkersFinite' /\ Owned' /\ Counted'
    BY <1>1, <1>2, <2>1 DEF TakeRequest, process
  <2>2. CASE ReapDesktop(s) \/ QuarantineDesktop(s)
    BY <1>0, <1>3, <2>2
    DEF ReapDesktop, QuarantineDesktop, ExecutorConsistent, Awaiting, Executing
  <2>3. CASE worker' = worker /\ alive' = alive /\ quarantine' = quarantine /\ count' = count
    BY <1>1, <2>3
  <2> QED BY <1>6, <2>1, <2>2, <2>3
    DEF Executor, EndExecutor, TakeRequestFails, InitializeWorker, InitializeWorkerFails,
      BeginPlain, AcquireDesktop, CancelReady, CancelWait, LeaveQueue, ResumeGranted,
      CompletePlain, CompleteDesktop, FailPlain, FailDesktop, process
<1>7. ASSUME NEW s \in Session, Serving(s) PROVE WorkersFinite' /\ Owned' /\ Counted'
  <2>1. CASE ReapWorker(s) \/ QuarantineWorker(s)
    BY <1>0, <1>3, <2>1 DEF ReapWorker, QuarantineWorker, SessionConsistent
  <2>2. CASE worker' = worker /\ alive' = alive /\ quarantine' = quarantine /\ count' = count
    BY <1>1, <2>2
  <2> QED BY <1>7, <2>1, <2>2
    DEF Serving, Accept, Reject, Disconnect, JoinExecutor, ReapSession, process
<1>8. ASSUME NEW s \in Session, SendDesktopCommand(s) \/ WorkerExits(s)
      PROVE  WorkersFinite' /\ Owned' /\ Counted'
  BY <1>0, <1>1, <1>8 DEF SendDesktopCommand, WorkerExits, TypeOK
<1> QED BY <1>4, <1>5, <1>6, <1>7, <1>8 DEF Next

(* In single mode every step serves one session at most: a session is        *)
(* accepted only when none is listed and no worker is quarantined, and a      *)
(* worker is quarantined only by the session that is being served.            *)
LEMMA NextOneServed == IInv /\ [Next]_vars => OneServed'
<1> SUFFICES ASSUME IInv, [Next]_vars, ~multiple PROVE OneServed'
  BY DEF OneServed, Next, vars
<1> USE DEF OneServed, Listed
<1>0. TypeOK /\ ExecutorConsistent /\ SessionConsistent /\ OneServed
  BY DEF IInv
<1>1. CASE UNCHANGED vars
  BY <1>0, <1>1 DEF vars, coroutine, process, permit
<1>2. CASE StopServer
  BY <1>0, <1>2 DEF StopServer, ClosedStatus, process, permit, TypeOK
<1>3. ASSUME NEW s \in Session, Executor(s) PROVE OneServed'
  <2>1. /\ status' = status \/ status' = [status EXCEPT ![s] = ClosedStatus(s)]
        /\ \/ quarantine' = quarantine
           \/ /\ status' = [status EXCEPT ![s] = ClosedStatus(s)]
              /\ worker[s]
    BY <1>0, <1>3
    DEF Executor, EndExecutor, TakeRequest, TakeRequestFails, InitializeWorker,
      InitializeWorkerFails, BeginPlain, AcquireDesktop, CancelReady, CancelWait, LeaveQueue,
      ResumeGranted, CompletePlain, CompleteDesktop, FailPlain, FailDesktop, ReapDesktop,
      QuarantineDesktop, Abandon, coroutine, ExecutorConsistent, Awaiting, Executing
  <2>2. worker[s] => s \in Listed
    BY <1>0 DEF SessionConsistent
  <2> QED BY <1>0, <2>1, <2>2 DEF ClosedStatus, TypeOK
<1>4. ASSUME NEW s \in Session, Serving(s) PROVE OneServed'
  <2>1. CASE Accept(s)
    BY <1>0, <2>1 DEF Accept, Refused, TypeOK
  <2>2. CASE QuarantineWorker(s)
    BY <1>0, <2>2 DEF QuarantineWorker, TypeOK
  <2>3. CASE Reject(s) \/ Disconnect(s) \/ JoinExecutor(s) \/ ReapWorker(s) \/ ReapSession(s)
    BY <1>0, <2>3 DEF Reject, Disconnect, JoinExecutor, ReapWorker, ReapSession, TypeOK
  <2> QED BY <1>4, <2>1, <2>2, <2>3 DEF Serving
<1>5. ASSUME NEW s \in Session, SendDesktopCommand(s) \/ WorkerExits(s) PROVE OneServed'
  BY <1>0, <1>5 DEF SendDesktopCommand, WorkerExits, coroutine
<1> QED BY <1>1, <1>2, <1>3, <1>4, <1>5 DEF Next

-----------------------------------------------------------------------------
(* The invariant holds in every state: whoever may drive the desktop holds   *)
(* the permit or is quarantined, workers are counted where they are, and a    *)
(* single-mode server serves one session.                                    *)
THEOREM DesktopInvariance == Spec => []IInv
<1>1. IInv /\ [Next]_vars => IInv'
  BY NextTypeOK, NextConsistent, NextNativeOwned, NextWorkers, NextOneServed DEF IInv
<1> QED BY InitIInv, <1>1, PTL DEF Spec

(* No two processes ever drive the desktop at once (ExecuteRequests,         *)
(* AcquireDesktop, ReleaseDesktop).                                          *)
THEOREM DesktopExclusiveHolds == Spec => []DesktopExclusive
<1>1. IInv => DesktopExclusive
  BY DEF IInv, NativeOwned, Users, DesktopExclusive
<1> QED BY DesktopInvariance, <1>1, PTL

(* The permit has one holder, or a quarantined worker retains it, and every  *)
(* live worker is counted once (ExecuteRequests, ServeClient).               *)
THEOREM PermitAccountedHolds == Spec => []PermitAccounted
<1>1. IInv => PermitAccounted
  BY DEF IInv, NativeOwned, Users, PermitAccounted, PermitIsHeld
<1> QED BY DesktopInvariance, <1>1, PTL

(* In single mode a session is served only while no process of another one   *)
(* exists (ServeClient, AcceptClients).                                      *)
THEOREM OneSessionHolds == Spec => []OneSession
<1>1. IInv => OneSession
  <2> SUFFICES ASSUME IInv, ~multiple, NEW s \in Session, NEW t \in Session, s # t,
                      status[s] = "open"
               PROVE  ~alive[t] /\ status[t] # "open"
    BY DEF OneSession
  <2>1. \A u \in Listed : u = s
    BY DEF IInv, OneServed, Listed
  <2>2. t \notin Listed /\ status[t] # "open"
    BY <2>1 DEF Listed
  <2>3. ~worker[t] /\ t \notin quarantine
    BY <2>2 DEF IInv, SessionConsistent, OneServed, Listed
  <2> QED BY <2>2, <2>3 DEF IInv, WorkersAccounted
<1> QED BY DesktopInvariance, <1>1, PTL
=============================================================================
