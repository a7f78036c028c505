------------------------- MODULE RestartPolicy_proofs --------------------------
(* The restart policy of the monitor, for every window, limit and allowance,  *)
(* and for every length of its life.                                          *)
EXTENDS RestartPolicy, SequenceTheorems, TLAPS

TypeOK ==
  /\ now \in Nat /\ deadline \in Int
  /\ starts \in Seq(Nat) /\ started \in Seq(Nat)
  /\ monitor \in {"reserving", "delayed", "configuring", "watching", "stopping", "ended"}
  /\ expired \in BOOLEAN /\ pulse \in BOOLEAN /\ hosted \in BOOLEAN /\ pulsed \in BOOLEAN

(* The times kept are the last ones of all starts, and those that are not    *)
(* kept any more have left the window.                                       *)
KeptAreLast ==
  /\ Len(starts) <= MaxStarts /\ Len(starts) <= Len(started)
  /\ \A i \in 1..Len(starts) : starts[i] = started[Len(started) - Len(starts) + i]
DroppedAreOld ==
  \A i \in 1..(Len(started) - Len(starts)) : now - started[i] >= Window

(* A set event is the host's own; the deadline of the watched host leaves    *)
(* its allowance.                                                            *)
Since == IF pulsed THEN Allowance ELSE Startup
Watched ==
  /\ pulse => pulsed
  /\ monitor \in {"configuring", "watching"} \/ expired =>
       Len(started) > 0 /\ started[Len(started)] <= now
  /\ monitor = "watching" => deadline >= started[Len(started)] + Since

IInv == TypeOK /\ KeptAreLast /\ DroppedAreOld /\ Watched /\ RestartsArePaced

(* The first start finds nothing to prune.                                   *)
LEMMA InitIInv == SupervisionInit => IInv
<1> SUFFICES ASSUME SupervisionInit PROVE IInv
  OBVIOUS
<1>1. starts = <<>> /\ started = <<>> /\ Len(starts) = 0 /\ Len(started) = 0
  BY EmptySeq DEF SupervisionInit
<1>2. TypeOK
  <2>1. <<>> \in Seq(Nat)
    BY EmptySeq
  <2>2. now \in Nat /\ deadline \in Int
    BY DEF SupervisionInit
  <2> QED BY <1>1, <2>1, <2>2 DEF SupervisionInit, TypeOK
<1>3. KeptAreLast /\ DroppedAreOld
  BY <1>1, PolicyAssumption DEF KeptAreLast, DroppedAreOld
<1>4. Watched /\ StuckIsDeserved
  BY DEF SupervisionInit, Watched, StuckIsDeserved
<1>5. StartsAreLimited
  <2>1. DOMAIN started = {}
    BY <1>1, <1>2, LenProperties DEF TypeOK
  <2> QED BY <2>1 DEF StartsAreLimited
<1> QED BY <1>2, <1>3, <1>4, <1>5 DEF IInv, RestartsArePaced

(* What pruning k times leaves.                                              *)
LEMMA Kept ==
  ASSUME IInv, NEW k \in 0..Len(starts), NEW kept, kept = SubSeq(starts, k + 1, Len(starts))
  PROVE  /\ kept \in Seq(Nat) /\ Len(kept) = Len(starts) - k
         /\ \A i \in 1..Len(kept) : kept[i] = starts[k + i]
         /\ \A i \in 1..Len(kept) : kept[i] = started[Len(started) - Len(kept) + i]
<1>1. starts \in Seq(Nat) /\ Len(starts) \in Nat /\ started \in Seq(Nat) /\ Len(started) \in Nat
  BY LenProperties DEF IInv, TypeOK
<1>2. \A i \in (k + 1)..Len(starts) : starts[i] \in Nat
  BY <1>1, ElementOfSeq
<1>3. /\ kept \in Seq(Nat)
      /\ Len(kept) = IF k + 1 <= Len(starts) THEN Len(starts) - (k + 1) + 1 ELSE 0
      /\ \A i \in 1..(Len(starts) - (k + 1) + 1) : kept[i] = starts[k + 1 + i - 1]
  BY <1>1, <1>2, SubSeqProperties
<1>4. Len(kept) = Len(starts) - k
  BY <1>1, <1>3
<1>5. ASSUME NEW i \in 1..Len(kept)
      PROVE  kept[i] = starts[k + i] /\ kept[i] = started[Len(started) - Len(kept) + i]
  <2>1. i \in 1..(Len(starts) - (k + 1) + 1) /\ k + 1 + i - 1 = k + i /\ k + i \in 1..Len(starts)
    BY <1>1, <1>4
  <2>2. kept[i] = starts[k + i]
    BY <1>3, <2>1
  <2>3. starts[k + i] = started[Len(started) - Len(starts) + (k + i)]
    BY <2>1 DEF IInv, KeptAreLast
  <2>4. Len(started) - Len(starts) + (k + i) = Len(started) - Len(kept) + i
    <3>1. k \in Int /\ i \in Int
      OBVIOUS
    <3>2. Len(started) - Len(starts) + (k + i) = Len(started) - (Len(starts) - k) + i
      BY <1>1, <3>1
    <3> QED BY <1>4, <3>2
  <2> QED BY <2>2, <2>3, <2>4
<1> QED BY <1>3, <1>4, <1>5

(* Every start that pruning drops has left the window.                       *)
LEMMA PrunedAreOld ==
  ASSUME IInv, NEW k \in 0..Len(starts), Pruned(k)
  PROVE  \A i \in 1..(Len(started) - (Len(starts) - k)) : now - started[i] >= Window
<1>1. Len(starts) \in Nat /\ Len(started) \in Nat /\ Len(starts) <= Len(started)
  BY LenProperties DEF IInv, TypeOK, KeptAreLast
<1> SUFFICES ASSUME NEW i \in 1..(Len(started) - (Len(starts) - k))
             PROVE  now - started[i] >= Window
  OBVIOUS
<1>2. CASE i <= Len(started) - Len(starts)
  BY <1>1, <1>2 DEF IInv, DroppedAreOld
<1>3. CASE i > Len(started) - Len(starts)
  <2> DEFINE j == i - (Len(started) - Len(starts))
  <2>1. j \in 1..k /\ j \in 1..Len(starts) /\ Len(started) - Len(starts) + j = i
    BY <1>1, <1>3
  <2>2. starts[j] = started[Len(started) - Len(starts) + j]
    BY <2>1 DEF IInv, KeptAreLast
  <2>3. starts[j] = started[i]
    BY <2>1, <2>2
  <2>4. now - starts[j] >= Window
    BY <2>1 DEF Pruned
  <2> QED BY <2>3, <2>4
<1> QED BY <1>1, <1>2, <1>3

(* A reserved start is the last of all, and MaxStarts before it is one that  *)
(* has been dropped.                                                         *)
LEMMA StartKeepsIInv ==
  ASSUME IInv, NEW k \in 0..Len(starts), Pruned(k), ReserveSupervisorStart(k)
  PROVE  IInv'
<1> DEFINE kept == SubSeq(starts, k + 1, Len(starts))
           reserved == Reserve(kept)
<1>1. /\ kept \in Seq(Nat) /\ Len(kept) = Len(starts) - k
      /\ \A i \in 1..Len(kept) : kept[i] = starts[k + i]
      /\ \A i \in 1..Len(kept) : kept[i] = started[Len(started) - Len(kept) + i]
  BY Kept
<1>2. /\ Len(starts) \in Nat /\ Len(started) \in Nat /\ Len(kept) \in Nat
      /\ Len(starts) <= Len(started) /\ Len(kept) <= Len(starts) /\ Len(starts) <= MaxStarts
  BY <1>1, LenProperties DEF IInv, TypeOK, KeptAreLast
<1>3. \A i \in 1..(Len(started) - Len(kept)) : now - started[i] >= Window
  <2>1. Len(started) - Len(kept) = Len(started) - (Len(starts) - k)
    BY <1>1
  <2> QED BY <2>1, PrunedAreOld
<1>4. /\ monitor = "reserving" /\ now' = now /\ starts' = reserved.starts
      /\ IF reserved.delay = 0 THEN StartHost ELSE Backoff(reserved.delay)
  BY DEF ReserveSupervisorStart
<1> HIDE DEF kept
<1>5. CASE Len(kept) >= MaxStarts
  <2>1. kept[1] = starts[k + 1] /\ k + 1 \in 1..Len(starts) /\ k < Len(starts)
    BY <1>1, <1>2, <1>5, PolicyAssumption
  <2>2. now - starts[k + 1] < Window /\ starts[k + 1] \in Nat /\ now \in Nat
    BY <2>1, ElementOfSeq DEF Pruned, IInv, TypeOK
  <2>3. reserved.starts = kept /\ reserved.delay = Window - (now - kept[1])
    BY <1>5 DEF Reserve
  <2>4. reserved.delay # 0 /\ reserved.delay \in Int
    BY <2>1, <2>2, <2>3, PolicyAssumption
  <2>5. Backoff(reserved.delay) /\ starts' = kept
    BY <1>4, <2>3, <2>4
  <2>6. TypeOK'
    BY <1>1, <1>4, <2>4, <2>5 DEF Backoff, IInv, TypeOK
  <2>7. KeptAreLast' /\ DroppedAreOld'
    <3>1. starts' = kept /\ started' = started /\ now' = now
      BY <1>4, <2>5 DEF Backoff
    <3>2. Len(kept) <= MaxStarts /\ Len(kept) <= Len(started)
      BY <1>2, PolicyAssumption
    <3> QED BY <1>1, <1>3, <3>1, <3>2 DEF KeptAreLast, DroppedAreOld
  <2>8. Watched' /\ RestartsArePaced'
    BY <1>4, <2>5
       DEF Backoff, IInv, Watched, Since, RestartsArePaced, StartsAreLimited, StuckIsDeserved
  <2> QED BY <2>6, <2>7, <2>8 DEF IInv
<1>6. CASE Len(kept) < MaxStarts
  <2>1. reserved.starts = Append(kept, now) /\ reserved.delay = 0
    BY <1>2, <1>6, PolicyAssumption DEF Reserve
  <2>2. starts' = Append(kept, now) /\ StartHost
    BY <1>4, <2>1
  <2>3. now \in Nat /\ started \in Seq(Nat) /\ started' = Append(started, now)
    BY <2>2 DEF StartHost, IInv, TypeOK
  <2>4. /\ Len(starts') = Len(kept) + 1 /\ starts' \in Seq(Nat)
        /\ \A i \in 1..Len(kept) : starts'[i] = kept[i]
        /\ starts'[Len(kept) + 1] = now
    BY <1>1, <2>2, <2>3, AppendProperties
  <2>5. /\ Len(started') = Len(started) + 1 /\ started' \in Seq(Nat)
        /\ \A i \in 1..Len(started) : started'[i] = started[i]
        /\ started'[Len(started) + 1] = now
    BY <2>3, AppendProperties
  <2>6. TypeOK'
    BY <1>4, <2>2, <2>4, <2>5 DEF StartHost, IInv, TypeOK
  <2>7. KeptAreLast'
    <3>1. Len(starts') <= MaxStarts /\ Len(starts') <= Len(started')
      BY <1>2, <1>6, <2>4, <2>5, PolicyAssumption
    <3>2. ASSUME NEW i \in 1..Len(starts')
          PROVE  starts'[i] = started'[Len(started') - Len(starts') + i]
      <4>1. CASE i = Len(kept) + 1
        BY <1>2, <2>4, <2>5, <4>1
      <4>2. CASE i # Len(kept) + 1
        <5>1. i \in 1..Len(kept)
          BY <1>2, <2>4, <4>2
        <5>2. /\ Len(started') - Len(starts') + i = Len(started) - Len(kept) + i
              /\ Len(started) - Len(kept) + i \in 1..Len(started)
          BY <1>2, <2>4, <2>5, <5>1
        <5>3. starts'[i] = started[Len(started) - Len(kept) + i]
          BY <1>1, <2>4, <5>1
        <5> QED BY <2>5, <5>2, <5>3
      <4> QED BY <4>1, <4>2
    <3> QED BY <3>1, <3>2 DEF KeptAreLast
  <2>8. DroppedAreOld'
    <3> SUFFICES ASSUME NEW i \in 1..(Len(started') - Len(starts'))
                 PROVE  now' - started'[i] >= Window
      BY DEF DroppedAreOld
    <3>1. i \in 1..(Len(started) - Len(kept)) /\ i \in 1..Len(started)
      BY <1>2, <2>4, <2>5
    <3> QED BY <1>3, <1>4, <2>5, <3>1
  <2>9. StartsAreLimited'
    <3> SUFFICES ASSUME NEW n \in 1..Len(started'), n > MaxStarts
                 PROVE  started'[n] - started'[n - MaxStarts] >= Window
      BY <2>5, LenProperties DEF StartsAreLimited
    <3>1. CASE n = Len(started) + 1
      <4>1. /\ n - MaxStarts \in 1..(Len(started) - Len(kept)) /\ n - MaxStarts \in 1..Len(started)
        BY <1>2, <1>6, <3>1, PolicyAssumption
      <4> QED BY <1>3, <2>5, <3>1, <4>1
    <3>2. CASE n # Len(started) + 1
      <4>1. n \in 1..Len(started) /\ n - MaxStarts \in 1..Len(started)
        BY <1>2, <2>5, <3>2, PolicyAssumption
      <4>2. n \in DOMAIN started
        BY <2>3, <4>1, LenProperties
      <4> QED BY <2>5, <4>1, <4>2 DEF IInv, RestartsArePaced, StartsAreLimited
    <3> QED BY <3>1, <3>2
  <2>10. Watched' /\ StuckIsDeserved'
    <3>1. Len(started') > 0 /\ started'[Len(started')] = now /\ now' = now
      BY <1>2, <1>4, <2>5
    <3>2. ~pulse' /\ ~pulsed' /\ ~expired' /\ monitor' \in {"configuring", "stopping"}
      BY <2>2 DEF StartHost
    <3> QED BY <2>3, <3>1, <3>2 DEF Watched, StuckIsDeserved
  <2> QED BY <2>6, <2>7, <2>8, <2>9, <2>10 DEF IInv, RestartsArePaced
<1> QED BY <1>2, <1>5, <1>6, PolicyAssumption

(* Every other step leaves the starts alone.                                 *)
LEMMA NextIInv == IInv /\ [SupervisionNext]_supervision => IInv'
<1> SUFFICES ASSUME IInv, [SupervisionNext]_supervision PROVE IInv'
  OBVIOUS
<1>1. CASE \E k \in 0..MaxStarts : k <= Len(starts) /\ ReserveSupervisorStart(k)
  <2>1. PICK k \in 0..MaxStarts : k <= Len(starts) /\ ReserveSupervisorStart(k)
    BY <1>1
  <2>2. k \in 0..Len(starts) /\ Pruned(k)
    BY <2>1, LenProperties DEF IInv, TypeOK, ReserveSupervisorStart
  <2> QED BY <2>1, <2>2, StartKeepsIInv
<1>2. ASSUME UNCHANGED <<starts, started>>, now' \in Nat, now' >= now
      PROVE  KeptAreLast' /\ DroppedAreOld' /\ StartsAreLimited'
  <2>1. now \in Nat /\ \A i \in 1..Len(started) : started[i] \in Nat
    BY ElementOfSeq DEF IInv, TypeOK
  <2>2. ASSUME NEW i \in 1..(Len(started) - Len(starts)) PROVE now' - started[i] >= Window
    <3>1. i \in 1..Len(started) /\ now - started[i] >= Window
      BY LenProperties DEF IInv, TypeOK, DroppedAreOld
    <3> QED BY <1>2, <2>1, <3>1, PolicyAssumption
  <2> QED BY <1>2, <2>2
          DEF IInv, KeptAreLast, DroppedAreOld, RestartsArePaced, StartsAreLimited
<1> USE PolicyAssumption DEF IInv, TypeOK, Watched, Since, RestartsArePaced, StuckIsDeserved
<1>3. Len(started) > 0 => started[Len(started)] \in Nat
  BY ElementOfSeq, LenProperties
<1>4. CASE Tick
  BY <1>2, <1>3, <1>4 DEF Tick
<1>5. CASE DelayEnds
  BY <1>2, <1>3, <1>5 DEF DelayEnds
<1>6. CASE ConfigureHost
  BY <1>2, <1>3, <1>6 DEF ConfigureHost
<1>7. CASE ConfigurationFails
  BY <1>2, <1>3, <1>7 DEF ConfigurationFails
<1>8. CASE PulseSupervisor
  BY <1>2, <1>3, <1>8 DEF PulseSupervisor
<1>9. CASE HostExits
  <2>1. TypeOK'
    BY <1>9 DEF HostExits
  <2>2. Watched' /\ StuckIsDeserved'
    BY <1>3, <1>9 DEF HostExits
  <2>3. KeptAreLast' /\ DroppedAreOld' /\ StartsAreLimited'
    BY <1>2, <1>9 DEF HostExits
  <2> QED BY <2>1, <2>2, <2>3
<1>10. CASE SeePulse
  <2>1. TypeOK'
    <3>1. deadline' \in Int
      BY <1>10 DEF SeePulse
    <3> QED BY <1>10, <3>1 DEF SeePulse
  <2>2. Watched' /\ StuckIsDeserved'
    BY <1>3, <1>10 DEF SeePulse
  <2>3. KeptAreLast' /\ DroppedAreOld' /\ StartsAreLimited'
    BY <1>2, <1>10 DEF SeePulse
  <2> QED BY <2>1, <2>2, <2>3
<1>11. CASE AllowanceEnds
  BY <1>2, <1>3, <1>11 DEF AllowanceEnds
<1>12. CASE SeeExit
  BY <1>2, <1>3, <1>12 DEF SeeExit
<1>13. CASE HostStopped
  <2>1. TypeOK'
    <3>1. deadline' \in Int
      BY <1>13 DEF HostStopped
    <3> QED BY <1>13, <3>1 DEF HostStopped
  <2>2. Watched' /\ StuckIsDeserved'
    BY <1>3, <1>13 DEF HostStopped
  <2>3. KeptAreLast' /\ DroppedAreOld' /\ StartsAreLimited'
    BY <1>2, <1>13 DEF HostStopped
  <2> QED BY <2>1, <2>2, <2>3
<1>14. CASE UNCHANGED supervision
  BY <1>2, <1>3, <1>14 DEF supervision
<1> QED BY <1>1, <1>4, <1>5, <1>6, <1>7, <1>8, <1>9, <1>10, <1>11, <1>12, <1>13, <1>14
        DEF SupervisionNext

(* However hosts fail and however late timers are: no window of time holds   *)
(* more than MaxStarts starts, and a host given up for stuck has had the     *)
(* allowance that is its own (ReserveSupervisorStart, WatchProgress).        *)
THEOREM RestartsArePacedHolds == SupervisionSpec => []RestartsArePaced
<1>1. IInv => RestartsArePaced
  BY DEF IInv
<1> QED BY InitIInv, NextIInv, <1>1, PTL DEF SupervisionSpec
===============================================================================
