------------------------- MODULE DriverCalls_proofs -------------------------
(***************************************************************************)
(* The driver's calls, each component for every value of its constants:    *)
(* nested waits, the probes of windows, interaction sessions, clipboard    *)
(* texts, managed processes, mirrored directories and binary transfers.    *)
(***************************************************************************)
EXTENDS WaitRetry, WindowProbe, InteractionSession, ClipboardText, ManagedProcess,
        DirectorySync, FrameTransfer, SequenceTheorems, WellFoundedInduction, TLAPS

-----------------------------------------------------------------------------
(* Sequences. *)

(* Taking one element out of a sequence leaves the others, in order.         *)
LEMMA RemoveAtFacts ==
  ASSUME NEW S, NEW s \in Seq(S), NEW k \in 1..Len(s)
  PROVE  /\ RemoveAt(s, k) \in Seq(S) /\ Len(RemoveAt(s, k)) = Len(s) - 1
         /\ \A i \in 1..(Len(s) - 1) : RemoveAt(s, k)[i] = IF i < k THEN s[i] ELSE s[i + 1]
<1> DEFINE n == Len(s)
           a == SubSeq(s, 1, k - 1)
           b == SubSeq(s, k + 1, n)
<1>1. n \in Nat /\ k \in 1..n /\ \A i \in 1..n : s[i] \in S
  BY LenProperties, ElementOfSeq
<1> HIDE DEF n
<1>2. a \in Seq(S) /\ Len(a) = k - 1 /\ \A i \in 1..(k - 1) : a[i] = s[i]
  <2>1. 1 \in Int /\ k - 1 \in Nat /\ \A i \in 1..(k - 1) : s[i] \in S
    BY <1>1
  <2>2. /\ a \in Seq(S) /\ Len(a) = IF 1 <= k - 1 THEN k - 1 - 1 + 1 ELSE 0
        /\ \A i \in 1..(k - 1 - 1 + 1) : a[i] = s[1 + i - 1]
    BY <2>1, SubSeqProperties
  <2> HIDE DEF a
  <2>3. k - 1 - 1 + 1 = k - 1 /\ \A i \in 1..(k - 1) : 1 + i - 1 = i
    BY <1>1
  <2>4. Len(a) = k - 1
    BY <1>1, <2>2, <2>3
  <2> QED BY <2>2, <2>3, <2>4
<1>3. b \in Seq(S) /\ Len(b) = n - k /\ \A i \in 1..(n - k) : b[i] = s[k + i]
  <2>1. k + 1 \in Int /\ n \in Int /\ \A i \in (k + 1)..n : s[i] \in S
    BY <1>1
  <2>2. /\ b \in Seq(S) /\ Len(b) = IF k + 1 <= n THEN n - (k + 1) + 1 ELSE 0
        /\ \A i \in 1..(n - (k + 1) + 1) : b[i] = s[(k + 1) + i - 1]
    BY <2>1, SubSeqProperties
  <2> HIDE DEF b
  <2>3. n - (k + 1) + 1 = n - k /\ \A i \in 1..(n - k) : (k + 1) + i - 1 = k + i
    BY <1>1
  <2>4. Len(b) = n - k
    BY <1>1, <2>2, <2>3
  <2> QED BY <2>2, <2>3, <2>4
<1>4. RemoveAt(s, k) = a \o b
  BY DEF RemoveAt, n
<1> HIDE DEF a, b
<1>5. /\ a \o b \in Seq(S) /\ Len(a \o b) = Len(a) + Len(b)
      /\ \A i \in 1..(Len(a) + Len(b)) : (a \o b)[i] = IF i <= Len(a) THEN a[i] ELSE b[i - Len(a)]
  BY <1>2, <1>3, ConcatProperties
<1>6. Len(a) + Len(b) = n - 1
  BY <1>1, <1>2, <1>3
<1>7. ASSUME NEW i \in 1..(n - 1) PROVE (a \o b)[i] = IF i < k THEN s[i] ELSE s[i + 1]
  <2>1. CASE i < k
    <3>1. i \in 1..(k - 1) /\ i <= Len(a)
      BY <1>1, <1>2, <2>1
    <3> QED BY <1>2, <1>5, <1>6, <2>1, <3>1
  <2>2. CASE ~(i < k)
    <3>1. /\ i - (k - 1) \in 1..(n - k) /\ ~(i <= Len(a)) /\ k + (i - (k - 1)) = i + 1
      BY <1>1, <1>2, <2>2
    <3>2. b[i - (k - 1)] = s[i + 1]
      BY <1>3, <3>1
    <3> QED BY <1>2, <1>5, <1>6, <2>2, <3>1, <3>2
  <2> QED BY <2>1, <2>2
<1> QED BY <1>4, <1>5, <1>6, <1>7 DEF n

(* A set of naturals has a first element.                                    *)
LEMMA FirstExists ==
  ASSUME NEW S \in SUBSET Nat, S # {}
  PROVE  \E i \in S : \A j \in S : i <= j
<1>1. IsWellFoundedOn(OpToRel(<, Nat), Nat)
  BY NatLessThanWellFounded
<1>2. PICK i \in S : \A j \in S : ~ (<<j, i>> \in OpToRel(<, Nat))
  BY <1>1, WFMin
<1>3. \A j \in S : ~ (j < i)
  BY <1>2 DEF OpToRel
<1> QED BY <1>3

(* Removing the first occurrence of an element leaves every other one.       *)
LEMMA RemoveFirstFacts ==
  ASSUME NEW S, NEW s \in Seq(S), NEW e, Contains(s, e)
  PROVE  /\ RemoveFirst(s, e) \in Seq(S)
         /\ \A x \in Range(s) : x # e => x \in Range(RemoveFirst(s, e))
<1> DEFINE at == {i \in 1..Len(s) : s[i] = e}
           k == Min(at)
<1>1. Len(s) \in Nat
  BY LenProperties
<1>2. k \in 1..Len(s) /\ s[k] = e
  <2>1. at \in SUBSET Nat /\ at # {}
    BY <1>1 DEF Contains
  <2>2. \E i \in at : \A j \in at : i <= j
    BY <2>1, FirstExists
  <2>3. k \in at
    BY <2>2 DEF Min
  <2> QED BY <2>3
<1>3. RemoveFirst(s, e) = RemoveAt(s, k)
  BY <1>2 DEF RemoveFirst, SelectInSeq
<1> HIDE DEF k
<1> DEFINE t == RemoveAt(s, k)
<1>4. /\ t \in Seq(S) /\ Len(t) = Len(s) - 1
      /\ \A i \in 1..(Len(s) - 1) : t[i] = IF i < k THEN s[i] ELSE s[i + 1]
  BY <1>2, RemoveAtFacts
<1> HIDE DEF t
<1>5. ASSUME NEW x \in Range(s), x # e PROVE x \in Range(t)
  <2>1. PICK i \in 1..Len(s) : s[i] = x
    BY RangeEquality
  <2>2. \E j \in 1..Len(t) : t[j] = x
    <3>1. CASE i < k
      <4>1. i \in 1..(Len(s) - 1)
        BY <1>1, <1>2, <3>1
      <4> QED BY <1>4, <2>1, <3>1, <4>1
    <3>2. CASE ~(i < k)
      <4>1. i # k
        BY <1>2, <1>5, <2>1
      <4>2. i - 1 \in 1..(Len(s) - 1) /\ ~(i - 1 < k) /\ (i - 1) + 1 = i
        BY <1>1, <1>2, <2>1, <3>2, <4>1
      <4> QED BY <1>4, <2>1, <4>2
    <3> QED BY <3>1, <3>2
  <2> QED BY <1>4, <2>2, RangeEquality
<1> QED BY <1>3, <1>4, <1>5 DEF t

-----------------------------------------------------------------------------
(* Nested waits. *)

(* While a wait is under way nothing has failed too late, and the waits      *)
(* inside one whose deadline has passed are late themselves.                 *)
Underway ==
  active > 0 =>
    /\ lateFailures = 0 /\ ~refused
    /\ late[1] => \A k \in 1..active : late[k]

WaitInv == TypeOK /\ lateFailures \in Nat /\ Underway /\ DeadlineIsShared

(* The invariant holds when the outermost wait begins.                       *)
LEMMA WaitInitInv == Init => WaitInv
BY LevelAssumption DEF Init, WaitInv, TypeOK, Underway, DeadlineIsShared

(* Every step keeps the types.                                               *)
LEMMA WaitTyped == TypeOK /\ [Next]_vars => TypeOK'
<1> SUFFICES ASSUME TypeOK, [Next]_vars PROVE TypeOK'
  OBVIOUS
<1> USE LevelAssumption DEF TypeOK
<1>1. CASE Nest
  BY <1>1 DEF Nest, resolveWaitDeadline
<1>2. CASE ProbeSucceeds
  BY <1>2 DEF ProbeSucceeds, Ends
<1>3. CASE ProbeIsRefused
  BY <1>3 DEF ProbeIsRefused
<1>4. CASE ProbeFails
  BY <1>4 DEF ProbeFails
<1>5. CASE Wake
  BY <1>5 DEF Wake
<1>6. ASSUME NEW l \in 1..Level, Expire(l) PROVE TypeOK'
  BY <1>6 DEF Expire
<1>7. CASE UNCHANGED vars
  BY <1>7 DEF vars
<1> QED BY <1>1, <1>2, <1>3, <1>4, <1>5, <1>6, <1>7 DEF Next

(* A probe that fails after the outermost deadline ends every wait.          *)
LEMMA LateFailureEnds ==
  ASSUME WaitInv, ProbeFails
  PROVE  late[1] <=> active' = 0
<1>1. active \in 1..Level /\ (late[1] => \A k \in 1..active : late[k])
  BY DEF WaitInv, TypeOK, Underway, ProbeFails
<1>2. PICK l \in 1..(active + 1) : Failing(l) /\ active' = l - 1
  BY DEF ProbeFails
<1>3. CASE late[1]
  <2>1. l > 1 => l - 1 \in 1..active
    BY <1>1, <1>2
  <2>2. ~(l > 1)
    BY <1>1, <1>2, <1>3, <2>1 DEF Failing
  <2> QED BY <1>2, <1>3, <2>2
<1>4. CASE ~late[1]
  BY <1>1, <1>2, <1>4 DEF Failing
<1> QED BY <1>3, <1>4

(* Every step keeps the invariant.                                           *)
LEMMA WaitNextInv == WaitInv /\ [Next]_vars => WaitInv'
<1> SUFFICES ASSUME WaitInv, [Next]_vars PROVE WaitInv'
  OBVIOUS
<1>0. TypeOK'
  BY WaitTyped DEF WaitInv
<1> USE LevelAssumption DEF WaitInv, TypeOK, Underway, DeadlineIsShared
<1>1. CASE Nest
  BY <1>0, <1>1 DEF Nest, resolveWaitDeadline
<1>2. CASE ProbeSucceeds
  BY <1>0, <1>2 DEF ProbeSucceeds, Ends
<1>3. CASE ProbeIsRefused
  BY <1>0, <1>3 DEF ProbeIsRefused
<1>4. CASE ProbeFails
  <2>1. late[1] <=> active' = 0
    BY <1>4, LateFailureEnds
  <2>2. lateFailures = 0 /\ ~refused /\ ~refused' /\ late' = late
    BY <1>4 DEF ProbeFails
  <2>3. lateFailures' = IF late[1] THEN 1 ELSE 0
    BY <1>4, <2>2 DEF ProbeFails
  <2>4. active' = 0 => outcome' = "TIMEOUT"
    BY <1>4 DEF ProbeFails
  <2> QED BY <1>0, <2>1, <2>2, <2>3, <2>4
<1>5. CASE Wake
  BY <1>0, <1>5 DEF Wake
<1>6. ASSUME NEW l \in 1..Level, Expire(l) PROVE WaitInv'
  BY <1>0, <1>6 DEF Expire
<1>7. CASE UNCHANGED vars
  BY <1>0, <1>7 DEF vars
<1> QED BY <1>1, <1>2, <1>3, <1>4, <1>5, <1>6, <1>7 DEF Next

(* However deep waits nest, once the outermost deadline has passed at most   *)
(* one more probe fails, and nothing is probed after an error (waitForResult,*)
(* resolveWaitDeadlineMs).                                                   *)
THEOREM DeadlineIsSharedHolds == Spec => []DeadlineIsShared
<1>1. WaitInv => DeadlineIsShared
  BY DEF WaitInv
<1> QED BY WaitInitInv, WaitNextInv, <1>1, PTL DEF Spec

-----------------------------------------------------------------------------
(* Probes of windows. *)

(* The snapshots in a row cover the count of a placement, with the one that   *)
(* still waits to be judged; a revision once gone does not come back.         *)
CountIsCovered ==
  kind = "placement" =>
    /\ step \in {"before", "snapshot", "after", "judge", "done"}
    /\ streak \in Nat /\ stableIterations \in Nat
    /\ revised \in BOOLEAN /\ (revised => withRevision)
    /\ step \in {"before", "snapshot"} => streak >= stableIterations
    /\ step = "after" /\ Matching /\ ~revised => streak >= stableIterations + 1
    /\ step = "judge" /\ Matching => streak >= stableIterations + 1
    /\ probeOutcome = "resolved" => step = "done" /\ streak >= StableIterations

(* What a probe has found of a window is its state when it was found, but for *)
(* a child whose parents could not be searched.                               *)
StateWasSeen ==
  kind \in {"closed", "hidden", "visible"} =>
    /\ step \in {"list", "children", "judge", "done"}
    /\ step = "children" => child
    /\ step \in {"judge", "done"} => seen = truth \/ (child /\ seen = "gone")
    /\ probeOutcome = "resolved" => step = "done" /\ seen \in Wanted

(* Every step keeps the count covered.                                       *)
LEMMA CountStep ==
  ASSUME CountIsCovered, [ProbeNext]_probeVars PROVE CountIsCovered'
<1> SUFFICES ASSUME kind' = "placement" PROVE CountIsCovered'
  BY DEF CountIsCovered
<1>1. kind = "placement" /\ kind' = kind /\ withRevision' = withRevision
  BY DEF ProbeNext, probeVars, wait, Change, readDesktop, Snapshot, PlacementMissed, PlacementMatched,
         listTopLevelWindows, collectWindows, ChildrenPassedOver, Look, JudgeState, JudgeBounds, JudgeQuery
<1>2. CASE Change
  <2>1. UNCHANGED <<step, seen, listed, stableIterations, probeOutcome, streak>>
    BY <1>2 DEF Change, counts
  <2>2. CASE revised' = revised
    BY <1>1, <2>1, <2>2 DEF CountIsCovered, Matching
  <2>3. CASE withRevision /\ revised' = TRUE
    BY <1>1, <2>1, <2>3 DEF CountIsCovered, Matching
  <2> QED BY <1>2, <2>2, <2>3 DEF Change
<1>3. CASE readDesktop("before", "snapshot") \/ readDesktop("after", "judge")
  BY <1>1, <1>3 DEF CountIsCovered, readDesktop, desktop, counts, Matching, Reject
<1>4. CASE Snapshot
  BY <1>1, <1>4 DEF CountIsCovered, Snapshot, desktop, counts, Matching
<1>5. CASE PlacementMissed
  BY <1>1, <1>5 DEF CountIsCovered, PlacementMissed, desktop, Retry, Start
<1>6. CASE PlacementMatched
  BY <1>1, <1>6, StableAssumption
     DEF CountIsCovered, PlacementMatched, desktop, Resolve, Retry, Start, Matching
<1>7. CASE listTopLevelWindows \/ collectWindows \/ ChildrenPassedOver
  BY <1>1, <1>7 DEF CountIsCovered, listTopLevelWindows, collectWindows, ChildrenPassedOver
<1>8. CASE JudgeState \/ JudgeBounds \/ JudgeQuery
  BY <1>1, <1>8 DEF JudgeState, JudgeBounds, JudgeQuery, ByQuery
<1>9. CASE UNCHANGED probeVars
  BY <1>9 DEF CountIsCovered, probeVars, wait, desktop, counts, Matching
<1> QED BY <1>2, <1>3, <1>4, <1>5, <1>6, <1>7, <1>8, <1>9 DEF ProbeNext

(* Every step keeps what was seen true.                                      *)
LEMMA SeenStep ==
  ASSUME StateWasSeen, [ProbeNext]_probeVars PROVE StateWasSeen'
<1> SUFFICES ASSUME kind' \in {"closed", "hidden", "visible"} PROVE StateWasSeen'
  BY DEF StateWasSeen
<1>1. kind' = kind /\ child' = child /\ Wanted' = Wanted
  BY DEF ProbeNext, probeVars, wait, Change, readDesktop, Snapshot, PlacementMissed, PlacementMatched,
         listTopLevelWindows, collectWindows, ChildrenPassedOver, Look, JudgeState, JudgeBounds, JudgeQuery,
         Wanted
<1>2. CASE Change
  BY <1>1, <1>2 DEF StateWasSeen, Change
<1>3. CASE readDesktop("before", "snapshot") \/ readDesktop("after", "judge") \/ Snapshot
           \/ PlacementMissed \/ PlacementMatched \/ JudgeBounds \/ JudgeQuery
  BY <1>1, <1>3 DEF StateWasSeen, readDesktop, Snapshot, PlacementMissed, PlacementMatched, JudgeBounds,
     JudgeQuery, ByQuery
<1>4. CASE listTopLevelWindows \/ collectWindows \/ ChildrenPassedOver
  BY <1>1, <1>4 DEF StateWasSeen, listTopLevelWindows, collectWindows, ChildrenPassedOver, Look
<1>5. CASE JudgeState
  BY <1>1, <1>5 DEF StateWasSeen, JudgeState, Resolve, Retry, Start
<1>6. CASE UNCHANGED probeVars
  BY <1>1, <1>6 DEF StateWasSeen, probeVars
<1> QED BY <1>2, <1>3, <1>4, <1>5, <1>6 DEF ProbeNext

(* The waits of a window resolve on what the desktop did show, for every number*)
(* of iterations and however the desktop changes between requests            *)
(* (waitForPlacement, findWindowById).                                       *)
THEOREM WaitsAreTrueHolds == ProbeSpec => []WaitsAreTrue
<1>1. ProbeInit => CountIsCovered /\ StateWasSeen
  <2> SUFFICES ASSUME ProbeInit PROVE CountIsCovered /\ StateWasSeen
    OBVIOUS
  <2>1. /\ streak = 0 /\ stableIterations = 0 /\ revised = FALSE /\ probeOutcome = "none"
        /\ step = IF kind = "placement" THEN "before" ELSE "list"
    BY DEF ProbeInit, Start
  <2>2. CountIsCovered
    <3>1. revised \in BOOLEAN /\ ~revised
      BY <2>1
    <3>2. streak \in Nat /\ stableIterations \in Nat /\ streak >= stableIterations
      BY <2>1
    <3> QED BY <2>1, <3>1, <3>2 DEF CountIsCovered
  <2>3. StateWasSeen
    BY <2>1 DEF StateWasSeen
  <2> QED BY <2>2, <2>3
<1>2. CountIsCovered /\ StateWasSeen => WaitsAreTrue
  BY DEF CountIsCovered, StateWasSeen, WaitsAreTrue, PlacementIsConsecutive, AnswerWasTrue, Wanted
<1> QED BY CountStep, SeenStep, <1>1, <1>2, PTL DEF ProbeSpec

-----------------------------------------------------------------------------
(* Interaction sessions. *)

(* The answers and requests under way, as one queue. *)
Waiting == Len(answers) + Len(requests)
At(i) == IF i <= Len(answers) THEN answers[i][1] ELSE requests[i - Len(answers)]
Downs(r, id) == r.op = "down" /\ r.id = id
Lifts(r, id) == r.op \in {"up", "lift"} /\ r.id = id
Lifted(i, id) == answers[i][2] /\ Lifts(answers[i][1], id)

(* Requests that name a key or button name one of Id.                        *)
Named == \A i \in 1..Waiting : At(i).op \notin {"move", "cursor"} => At(i).id \in Id

(* A key that is down is held, or a down is answered, and nothing that lifted *)
(* it later.                                                                  *)
Tracked(id) ==
  id \in pressed =>
    \/ id \in heldIds /\ \A j \in 1..Len(answers) : ~Lifted(j, id)
    \/ \E i \in 1..Len(answers) :
         /\ answers[i][2] /\ Downs(answers[i][1], id)
         /\ \A j \in (i + 1)..Len(answers) : ~Lifted(j, id)

(* What is under way for a key that is held was asked for while it was: its   *)
(* downs come before its lifts.  For one that is not it is the other way round,*)
(* and there is no down once the release has begun with the key held.         *)
Ordered(id) ==
  /\ id \in heldIds => \A i, j \in 1..Waiting : i < j => ~(Lifts(At(i), id) /\ Downs(At(j), id))
  /\ id \notin heldIds => \A i, j \in 1..Waiting : i < j => ~(Downs(At(i), id) /\ Lifts(At(j), id))
  /\ id \in owned \ heldIds => \A i \in 1..Waiting : ~Downs(At(i), id)

(* A release without an error so far has still to lift, or is lifting, what it *)
(* found held and is held yet.                                                *)
Planned(id) ==
  release \in {"pending", "ok"} /\ id \in owned /\ id \in heldIds =>
    /\ release = "pending"
    /\ id \in Range(plan) \/ \E i \in 1..Waiting : At(i) = [op |-> "lift", id |-> id]

InteractionInv ==
  /\ InteractionTypeOK /\ Named /\ heldIds \subseteq Range(heldInputs)
  /\ ~releasing => owned = {}
  /\ \A id \in Id : Tracked(id) /\ Ordered(id) /\ Planned(id)

(* How each kind of step moves the queue.                                    *)
LEMMA QueueTyped ==
  ASSUME InteractionTypeOK
  PROVE  /\ Len(answers) \in Nat /\ Len(requests) \in Nat /\ Waiting \in Nat
         /\ \A i \in 1..Waiting : At(i) \in Request
         /\ \A i \in 1..Len(answers) : answers[i] \in Request \X BOOLEAN /\ At(i) = answers[i][1]
<1>1. /\ Len(answers) \in Nat /\ Len(requests) \in Nat
      /\ \A i \in 1..Len(answers) : answers[i] \in Request \X BOOLEAN
      /\ \A i \in 1..Len(requests) : requests[i] \in Request
  BY LenProperties, ElementOfSeq DEF InteractionTypeOK
<1>2. ASSUME NEW i \in 1..Waiting PROVE At(i) \in Request
  <2>1. CASE i <= Len(answers)
    <3>1. i \in 1..Len(answers)
      BY <1>1, <2>1 DEF Waiting
    <3>2. answers[i][1] \in Request
      BY <1>1, <3>1
    <3> QED BY <2>1, <3>2 DEF At
  <2>2. CASE ~(i <= Len(answers))
    <3>1. i - Len(answers) \in 1..Len(requests)
      BY <1>1, <2>2 DEF Waiting
    <3> QED BY <1>1, <2>2, <3>1 DEF At
  <2> QED BY <2>1, <2>2
<1>3. \A i \in 1..Len(answers) : At(i) = answers[i][1]
  BY <1>1 DEF At
<1> QED BY <1>1, <1>2, <1>3 DEF Waiting

(* A request sent comes last.                                                *)
LEMMA SendQueues ==
  ASSUME InteractionTypeOK, NEW op \in Op, NEW id \in Id \cup {"none"}, Send(op, id), answers' = answers
  PROVE  /\ Waiting' = Waiting + 1
         /\ \A i \in 1..Waiting' : ~(i <= Waiting) => At(i)' = [op |-> op, id |-> id]
         /\ \A i \in 1..Waiting : At(i)' = At(i)
         /\ requests' \in Seq(Request)
<1>0. Len(answers) \in Nat /\ Len(requests) \in Nat
  BY QueueTyped
<1>1. [op |-> op, id |-> id] \in Request
  BY DEF Request
<1>2. /\ requests' \in Seq(Request) /\ Len(requests') = Len(requests) + 1
      /\ \A i \in 1..Len(requests) : requests'[i] = requests[i]
      /\ requests'[Len(requests) + 1] = [op |-> op, id |-> id]
  BY <1>1, AppendProperties DEF Send, InteractionTypeOK
<1>3. Waiting' = Waiting + 1
  BY <1>0, <1>2 DEF Waiting
<1>4. ASSUME NEW i \in 1..Waiting', ~(i <= Waiting) PROVE At(i)' = [op |-> op, id |-> id]
  <2>1. i - Len(answers) = Len(requests) + 1 /\ ~(i <= Len(answers))
    BY <1>0, <1>3, <1>4 DEF Waiting
  <2> QED BY <1>2, <2>1 DEF At
<1>5. ASSUME NEW i \in 1..Waiting PROVE At(i)' = At(i)
  <2>1. CASE i <= Len(answers)
    BY <2>1 DEF At
  <2>2. CASE ~(i <= Len(answers))
    <3>1. i - Len(answers) \in 1..Len(requests)
      BY <1>0, <2>2 DEF Waiting
    <3> QED BY <1>2, <2>2, <3>1 DEF At
  <2> QED BY <2>1, <2>2
<1> QED BY <1>2, <1>3, <1>4, <1>5

(* A request performed becomes the last answer and keeps its place.          *)
LEMMA PerformKeepsQueue ==
  ASSUME InteractionTypeOK, NEW ok \in BOOLEAN, Perform(ok)
  PROVE  /\ Waiting' = Waiting /\ \A i \in 1..Waiting : At(i)' = At(i)
         /\ requests' \in Seq(Request) /\ answers' \in Seq(Request \X BOOLEAN)
         /\ Len(answers') = Len(answers) + 1 /\ Len(answers) \in Nat /\ Head(requests) \in Request
         /\ \A i \in 1..Len(answers) : answers'[i] = answers[i]
         /\ answers'[Len(answers) + 1] = <<Head(requests), ok>>
         /\ Len(answers) + 1 \in 1..Waiting /\ At(Len(answers) + 1) = Head(requests)
<1>0. Len(answers) \in Nat /\ Len(requests) \in Nat /\ requests # <<>>
  BY QueueTyped DEF Perform
<1>1. /\ Head(requests) \in Request /\ requests' \in Seq(Request) /\ Len(requests') = Len(requests) - 1
      /\ Head(requests) = requests[1] /\ Len(requests) > 0
      /\ \A i \in 1..Len(requests') : requests'[i] = requests[i + 1]
  BY HeadTailProperties, EmptySeq DEF Perform, InteractionTypeOK
<1>2. /\ answers' \in Seq(Request \X BOOLEAN) /\ Len(answers') = Len(answers) + 1
      /\ \A i \in 1..Len(answers) : answers'[i] = answers[i]
      /\ answers'[Len(answers) + 1] = <<Head(requests), ok>>
  <2>1. <<Head(requests), ok>> \in Request \X BOOLEAN
    BY <1>1
  <2> QED BY <2>1, AppendProperties DEF Perform, InteractionTypeOK
<1>3. Waiting' = Waiting
  BY <1>0, <1>1, <1>2 DEF Waiting
<1>4. ASSUME NEW i \in 1..Waiting PROVE At(i)' = At(i)
  <2>1. CASE i <= Len(answers)
    <3>1. i \in 1..Len(answers) /\ i <= Len(answers')
      BY <1>0, <1>2, <2>1
    <3> QED BY <1>2, <2>1, <3>1 DEF At
  <2>2. CASE i = Len(answers) + 1
    <3>1. i <= Len(answers') /\ ~(i <= Len(answers)) /\ i - Len(answers) = 1
      BY <1>0, <1>2, <2>2
    <3> QED BY <1>1, <1>2, <2>2, <3>1 DEF At
  <2>3. CASE i > Len(answers) + 1
    <3>1. /\ ~(i <= Len(answers')) /\ ~(i <= Len(answers)) /\ i - Len(answers') \in 1..Len(requests')
          /\ (i - Len(answers')) + 1 = i - Len(answers)
      BY <1>0, <1>1, <1>2, <2>3 DEF Waiting
    <3> QED BY <1>1, <3>1 DEF At
  <2> QED BY <1>0, <2>1, <2>2, <2>3
<1>5. Len(answers) + 1 \in 1..Waiting
  BY <1>0, <1>1 DEF Waiting
<1>6. At(Len(answers) + 1) = Head(requests)
  <2>1. ~(Len(answers) + 1 <= Len(answers)) /\ Len(answers) + 1 - Len(answers) = 1
    BY <1>0
  <2> QED BY <1>1, <2>1 DEF At
<1> QED BY <1>0, <1>1, <1>2, <1>3, <1>4, <1>5, <1>6

(* An answer accepted was the first.                                         *)
LEMMA AcceptTakesFirst ==
  ASSUME InteractionTypeOK, AcceptAnswer
  PROVE  /\ Waiting' = Waiting - 1 /\ Waiting \in Nat \ {0}
         /\ \A i \in 1..Waiting' : At(i)' = At(i + 1)
         /\ answers' \in Seq(Request \X BOOLEAN) /\ Len(answers') = Len(answers) - 1
         /\ Len(answers) \in Nat \ {0} /\ requests' = requests
         /\ \A i \in 1..Len(answers') : answers'[i] = answers[i + 1]
         /\ Head(answers) = answers[1] /\ At(1) = Head(answers)[1] /\ Head(answers) \in Request \X BOOLEAN
<1>0. Len(answers) \in Nat /\ Len(requests) \in Nat /\ answers # <<>>
  BY QueueTyped DEF AcceptAnswer
<1>1. /\ Head(answers) \in Request \X BOOLEAN /\ answers' \in Seq(Request \X BOOLEAN)
      /\ Len(answers') = Len(answers) - 1 /\ Head(answers) = answers[1] /\ Len(answers) \in Nat \ {0}
      /\ \A i \in 1..Len(answers') : answers'[i] = answers[i + 1]
  BY HeadTailProperties, EmptySeq DEF AcceptAnswer, InteractionTypeOK
<1>2. requests' = requests
  BY DEF AcceptAnswer
<1>3. Waiting' = Waiting - 1 /\ Waiting \in Nat \ {0}
  BY <1>0, <1>1, <1>2 DEF Waiting
<1>4. ASSUME NEW i \in 1..Waiting' PROVE At(i)' = At(i + 1)
  <2>1. CASE i <= Len(answers')
    <3>1. i \in 1..Len(answers') /\ i + 1 <= Len(answers)
      BY <1>0, <1>1, <2>1
    <3> QED BY <1>1, <2>1, <3>1 DEF At
  <2>2. CASE ~(i <= Len(answers'))
    <3>1. ~(i + 1 <= Len(answers)) /\ i - Len(answers') = i + 1 - Len(answers)
      BY <1>0, <1>1, <1>3, <2>2
    <3> QED BY <1>2, <2>2, <3>1 DEF At
  <2> QED BY <2>1, <2>2
<1>5. At(1) = Head(answers)[1]
  BY <1>1 DEF At
<1> QED BY <1>1, <1>2, <1>3, <1>4, <1>5

(* The steps that leave the queue, and what is pressed and held, alone.      *)
Aside ==
  \/ \E result \in {"succeeded", "failed"} : OperationSettles(result)
  \/ \E restoreCursor \in BOOLEAN : ReleaseInteraction(restoreCursor)
  \/ ReleaseSettles \/ WithSettles \/ UNCHANGED interactionVars
(* The steps that send a request, or pass over one.                          *)
Calls == \/ \E id \in Id : Down(id) \/ Up(id) \/ Tap(id)
         \/ MoveOrWheel
(* Every step is of one of these kinds.                                      *)
LEMMA InteractionSteps ==
  [InteractionNext]_interactionVars =>
    Calls \/ LiftNext \/ Aside \/ (\E ok \in BOOLEAN : Perform(ok)) \/ AcceptAnswer
BY DEF InteractionNext, Calls, Aside

(* A call of the application is made before the release, with a down for what is*)
(* not held and an up for what is.                                           *)
LEMMA CallSends ==
  ASSUME Calls
  PROVE  /\ ~releasing
         /\ \E op \in {"down", "up", "tap", "move"}, id \in Id \cup {"none"} :
              /\ Send(op, id) /\ (op = "move" <=> id = "none")
              /\ op = "down" => id \notin heldIds
              /\ op = "up" => id \in heldIds
         /\ calls < MaxCalls /\ calls' = calls + 1
         /\ UNCHANGED <<answers, pressed, heldIds, heldInputs, release, plan, owned, caller>>
BY CallsAssumption DEF Calls, Down, Up, Tap, MoveOrWheel, performInput

(* The release sends a lift for what is still held.                          *)
LEMMA LiftSends ==
  ASSUME InteractionTypeOK, LiftNext
  PROVE  /\ plan # <<>> /\ plan' = Tail(plan) /\ Head(plan) \in Id \cup {"cursor"}
         /\ \/ Head(plan) = "cursor" /\ Send("cursor", "none")
            \/ Head(plan) \in heldIds /\ Send("lift", Head(plan))
            \/ Head(plan) \in Id \ heldIds /\ UNCHANGED requests
         /\ UNCHANGED <<answers, pressed, heldIds, heldInputs, release, owned, caller, calls>>
<1>1. Head(plan) \in Id \cup {"cursor"}
  BY HeadTailProperties DEF LiftNext, InteractionTypeOK
<1> QED BY <1>1 DEF LiftNext

(* The inputs a release will lift, and what is held, are keys and buttons.   *)
LEMMA PlanTyped ==
  ASSUME InteractionTypeOK, NEW restoreCursor \in BOOLEAN, ReleaseInteraction(restoreCursor)
  PROVE  plan' \in Seq(Id \cup {"cursor"}) /\ Range(heldInputs) \subseteq Range(plan')
<1> DEFINE S == Id \cup {"cursor"}
           r == Reverse(heldInputs)
           c == IF restoreCursor THEN <<"cursor">> ELSE <<>>
<1>0. /\ Len(heldInputs) \in Nat /\ heldInputs \in Seq(S)
      /\ \A i \in 1..Len(heldInputs) : heldInputs[i] \in S
  BY LenProperties, ElementOfSeq, SeqMonotonic DEF InteractionTypeOK
<1>1. r \in [1..Len(heldInputs) -> S]
  BY <1>0 DEF Reverse
<1>2. r \in Seq(S)
  BY <1>0, <1>1, SeqDef
<1>3. c \in Seq(S)
  <2>1. <<>> \in Seq(S)
    OBVIOUS
  <2>2. <<"cursor">> \in Seq(S)
    OBVIOUS
  <2> QED BY <2>1, <2>2
<1>4. plan' = r \o c
  BY DEF ReleaseInteraction
<1>5. Range(heldInputs) \subseteq Range(r)
  <2>1. ASSUME NEW x \in Range(heldInputs) PROVE x \in Range(r)
    <3>1. PICK i \in 1..Len(heldInputs) : heldInputs[i] = x
      BY RangeEquality DEF InteractionTypeOK
    <3>2. /\ Len(heldInputs) - i + 1 \in 1..Len(heldInputs)
          /\ (Len(heldInputs) - (Len(heldInputs) - i + 1)) + 1 = i
      BY <1>0, <3>1
    <3>3. r[Len(heldInputs) - i + 1] = x
      BY <3>1, <3>2 DEF Reverse
    <3>4. Len(heldInputs) - i + 1 \in DOMAIN r
      BY <3>2 DEF Reverse
    <3> QED BY <3>3, <3>4 DEF Range
  <2> QED BY <2>1
<1> HIDE DEF r, c, S
<1> QED BY <1>2, <1>3, <1>4, <1>5, ConcatProperties, RangeConcatenation DEF S

(* Every step keeps the types.                                               *)
LEMMA InteractionTyped ==
  ASSUME InteractionTypeOK, Named, [InteractionNext]_interactionVars
  PROVE  InteractionTypeOK'
<1>1. CASE Calls
  <2>1. /\ calls < MaxCalls /\ calls' = calls + 1 /\ requests' \in Seq(Request)
        /\ UNCHANGED <<answers, pressed, heldIds, heldInputs, release, plan, owned, caller>>
    BY <1>1, CallSends, SendQueues DEF Op
  <2>2. calls' \in 0..MaxCalls
    BY <2>1, CallsAssumption DEF InteractionTypeOK
  <2> QED BY <2>1, <2>2 DEF InteractionTypeOK
<1>2. CASE LiftNext
  <2>1. plan' \in Seq(Id \cup {"cursor"})
    <3>1. plan \in Seq(Id \cup {"cursor"}) /\ plan # <<>> /\ plan' = Tail(plan)
      BY <1>2, LiftSends DEF InteractionTypeOK
    <3> QED BY <3>1, HeadTailProperties
  <2>2. UNCHANGED <<answers, pressed, heldIds, heldInputs, release, owned, caller, calls>>
    BY <1>2, LiftSends
  <2>3. requests' \in Seq(Request)
    BY <1>2, <2>2, LiftSends, SendQueues DEF Op, InteractionTypeOK
  <2> QED BY <2>1, <2>2, <2>3 DEF InteractionTypeOK
<1>3. CASE Aside
  <2>1. ASSUME NEW restoreCursor \in BOOLEAN, ReleaseInteraction(restoreCursor) PROVE InteractionTypeOK'
    BY <2>1, PlanTyped DEF ReleaseInteraction, InteractionTypeOK
  <2>2. CASE \/ \E result \in {"succeeded", "failed"} : OperationSettles(result)
             \/ ReleaseSettles \/ WithSettles \/ UNCHANGED interactionVars
    BY <2>2 DEF OperationSettles, ReleaseSettles, WithSettles, interactionVars, InteractionTypeOK
  <2> QED BY <1>3, <2>1, <2>2 DEF Aside
<1>4. ASSUME NEW ok \in BOOLEAN, Perform(ok) PROVE InteractionTypeOK'
  <2>1. Head(requests).op = "down" => Head(requests).id \in Id
    BY <1>4, PerformKeepsQueue DEF Named
  <2>2. requests' \in Seq(Request) /\ answers' \in Seq(Request \X BOOLEAN)
    BY <1>4, PerformKeepsQueue
  <2> QED BY <1>4, <2>1, <2>2 DEF Perform, InteractionTypeOK
<1>5. CASE AcceptAnswer
  <2> DEFINE r == Head(answers)[1]
             ok == Head(answers)[2]
  <2>1. /\ answers' \in Seq(Request \X BOOLEAN) /\ r \in Request /\ ok \in BOOLEAN
        /\ r.op \notin {"move", "cursor"} => r.id \in Id
    BY <1>5, AcceptTakesFirst DEF Named
  <2>2. /\ UNCHANGED <<requests, pressed, plan, owned, caller, calls>>
        /\ AfterDown(r, ok) \/ AfterUp(r, ok) \/ AfterOther(r, ok)
    BY <1>5 DEF AcceptAnswer
  <2> HIDE DEF r, ok
  <2>3. CASE AfterDown(r, ok)
    <3>1. heldInputs' \in Seq(Id)
      BY <2>1, <2>3, AppendProperties DEF AfterDown, InteractionTypeOK
    <3> QED BY <2>1, <2>2, <2>3, <3>1 DEF AfterDown, InteractionTypeOK
  <2>4. CASE AfterUp(r, ok)
    <3>1. heldInputs' \in Seq(Id)
      BY <2>1, <2>4, RemoveFirstFacts DEF AfterUp, removeHeldInput, InteractionTypeOK
    <3> QED BY <2>1, <2>2, <2>4, <3>1 DEF AfterUp, InteractionTypeOK
  <2>5. CASE AfterOther(r, ok)
    BY <2>1, <2>2, <2>5 DEF AfterOther, InteractionTypeOK
  <2> QED BY <2>2, <2>3, <2>4, <2>5
<1> QED BY <1>1, <1>2, <1>3, <1>4, <1>5, InteractionSteps

(* What is under way names keys and buttons; what is held has an entry.      *)
LEMMA NamedStep ==
  ASSUME InteractionTypeOK, Named, [InteractionNext]_interactionVars PROVE Named'
<1>1. CASE Calls
  <2>1. PICK op \in {"down", "up", "tap", "move"}, id \in Id \cup {"none"} :
          Send(op, id) /\ (op = "move" <=> id = "none") /\ answers' = answers
    BY <1>1, CallSends
  <2>2. /\ Waiting' = Waiting + 1 /\ \A i \in 1..Waiting : At(i)' = At(i)
        /\ \A i \in 1..Waiting' : ~(i <= Waiting) => At(i)' = [op |-> op, id |-> id]
    BY <2>1, SendQueues DEF Op
  <2>3. Waiting \in Nat
    BY QueueTyped
  <2>4. ASSUME NEW i \in 1..Waiting' PROVE At(i)'.op \notin {"move", "cursor"} => At(i)'.id \in Id
    <3>1. CASE i <= Waiting
      BY <2>2, <2>3, <3>1 DEF Named
    <3>2. CASE ~(i <= Waiting)
      BY <2>1, <2>2, <3>2
    <3> QED BY <3>1, <3>2
  <2> QED BY <2>4 DEF Named
<1>2. CASE LiftNext
  <2>1. \/ \E op \in {"lift", "cursor"}, id \in Id \cup {"none"} :
             Send(op, id) /\ (op = "lift" => id \in Id) /\ answers' = answers
        \/ UNCHANGED <<requests, answers>>
    BY <1>2, LiftSends DEF InteractionTypeOK
  <2>2. CASE UNCHANGED <<requests, answers>>
    BY <2>2 DEF Named, Waiting, At
  <2>3. ASSUME NEW op \in {"lift", "cursor"}, NEW id \in Id \cup {"none"}, Send(op, id),
               op = "lift" => id \in Id, answers' = answers
        PROVE  Named'
    <3>2. /\ Waiting' = Waiting + 1 /\ \A i \in 1..Waiting : At(i)' = At(i)
          /\ \A i \in 1..Waiting' : ~(i <= Waiting) => At(i)' = [op |-> op, id |-> id]
      BY <2>3, SendQueues DEF Op
    <3>3. Waiting \in Nat
      BY QueueTyped
    <3>4. ASSUME NEW i \in 1..Waiting' PROVE At(i)'.op \notin {"move", "cursor"} => At(i)'.id \in Id
      <4>1. CASE i <= Waiting
        BY <3>2, <3>3, <4>1 DEF Named
      <4>2. CASE ~(i <= Waiting)
        BY <2>3, <3>2, <4>2
      <4> QED BY <4>1, <4>2
    <3> QED BY <3>4 DEF Named
  <2> QED BY <2>1, <2>2, <2>3
<1>3. CASE Aside
  BY <1>3 DEF Aside, OperationSettles, ReleaseInteraction, ReleaseSettles, WithSettles, interactionVars,
     Named, Waiting, At
<1>4. ASSUME NEW ok \in BOOLEAN, Perform(ok) PROVE Named'
  BY <1>4, PerformKeepsQueue DEF Named
<1>5. CASE AcceptAnswer
  <2>1. ASSUME NEW i \in 1..Waiting' PROVE i + 1 \in 1..Waiting
    BY <1>5, AcceptTakesFirst
  <2> QED BY <1>5, <2>1, AcceptTakesFirst DEF Named
<1> QED BY <1>1, <1>2, <1>3, <1>4, <1>5, InteractionSteps

(* Every step keeps an entry for what is held.                               *)
LEMMA HeldHasEntry ==
  ASSUME InteractionTypeOK, heldIds \subseteq Range(heldInputs), [InteractionNext]_interactionVars
  PROVE  heldIds' \subseteq Range(heldInputs')
<1>1. CASE AcceptAnswer
  <2> DEFINE r == Head(answers)[1]
             ok == Head(answers)[2]
  <2>1. AfterDown(r, ok) \/ AfterUp(r, ok) \/ AfterOther(r, ok)
    BY <1>1 DEF AcceptAnswer
  <2> HIDE DEF r, ok
  <2>2. CASE AfterDown(r, ok)
    <3>1. heldInputs' = Append(heldInputs, r.id) /\ heldIds' = heldIds \cup {r.id}
      BY <2>2 DEF AfterDown
    <3>2. heldInputs \in Seq(Id \cup {r.id}) /\ r.id \in Id \cup {r.id}
      BY SeqMonotonic DEF InteractionTypeOK
    <3>3. /\ heldInputs' \in Seq(Id \cup {r.id}) /\ Len(heldInputs') = Len(heldInputs) + 1
          /\ \A i \in 1..Len(heldInputs) : heldInputs'[i] = heldInputs[i]
          /\ heldInputs'[Len(heldInputs) + 1] = r.id
      BY <3>1, <3>2, AppendProperties
    <3>4. Len(heldInputs) \in Nat /\ DOMAIN heldInputs = 1..Len(heldInputs)
          /\ DOMAIN heldInputs' = 1..Len(heldInputs')
      BY <3>2, <3>3, LenProperties
    <3>5. Len(heldInputs) + 1 \in DOMAIN heldInputs' /\ DOMAIN heldInputs \subseteq DOMAIN heldInputs'
      BY <3>3, <3>4
    <3> QED BY <3>1, <3>3, <3>4, <3>5 DEF Range
  <2>3. CASE AfterUp(r, ok)
    BY <2>3, RemoveFirstFacts DEF AfterUp, removeHeldInput, InteractionTypeOK
  <2>4. CASE AfterOther(r, ok)
    BY <2>4 DEF AfterOther
  <2> QED BY <2>1, <2>2, <2>3, <2>4
<1>2. CASE Calls \/ LiftNext \/ Aside \/ \E ok \in BOOLEAN : Perform(ok)
  <2>1. UNCHANGED <<heldIds, heldInputs>>
    BY <1>2, CallSends DEF LiftNext, Aside, OperationSettles, ReleaseInteraction, ReleaseSettles,
        WithSettles,
       interactionVars, Perform
  <2> QED BY <2>1
<1> QED BY <1>1, <1>2, InteractionSteps

(* Nothing is owned before the release begins.                               *)
LEMMA OwnedStep ==
  ASSUME ~releasing => owned = {}, [InteractionNext]_interactionVars PROVE ~releasing' => owned' = {}
<1>1. CASE Calls \/ LiftNext \/ \E ok \in BOOLEAN : Perform(ok)
  BY <1>1, CallSends DEF LiftNext, Perform, releasing
<1>2. CASE Aside
  BY <1>2 DEF Aside, OperationSettles, ReleaseInteraction, ReleaseSettles, WithSettles,
      interactionVars, releasing
<1>3. CASE AcceptAnswer
  BY <1>3 DEF AcceptAnswer, AfterDown, AfterUp, AfterOther, releasing
<1> QED BY <1>1, <1>2, <1>3, InteractionSteps

(* Every step keeps what is down tracked.                                    *)
LEMMA TrackedStep ==
  ASSUME InteractionTypeOK, [InteractionNext]_interactionVars, NEW id \in Id, Tracked(id)
  PROVE  Tracked(id)'
<1>1. CASE Calls \/ LiftNext \/ Aside
  <2>1. UNCHANGED <<answers, pressed, heldIds>>
    BY <1>1, CallSends DEF LiftNext, Aside, OperationSettles, ReleaseInteraction, ReleaseSettles,
        WithSettles,
       interactionVars
  <2> QED BY <2>1 DEF Tracked, Lifted
<1>2. ASSUME NEW ok \in BOOLEAN, Perform(ok) PROVE Tracked(id)'
  <2> DEFINE r == Head(requests)
             n == Len(answers)
  <2>1. /\ n \in Nat /\ Len(answers') = n + 1 /\ answers'[n + 1] = <<r, ok>>
        /\ \A i \in 1..n : answers'[i] = answers[i]
    BY <1>2, PerformKeepsQueue
  <2>2. /\ heldIds' = heldIds
        /\ pressed' = IF ~ok THEN pressed
                      ELSE IF r.op = "down" THEN pressed \cup {r.id} ELSE pressed \ {r.id}
    BY <1>2 DEF Perform
  <2> HIDE DEF r, n
  <2> SUFFICES ASSUME id \in pressed' PROVE Tracked(id)'
    BY DEF Tracked
  <2>3. CASE ok /\ Downs(r, id)
    <3>1. n + 1 \in 1..Len(answers') /\ \A j \in ((n + 1) + 1)..Len(answers') : FALSE
      BY <2>1
    <3>2. answers'[n + 1][2] /\ Downs(answers'[n + 1][1], id)
      BY <2>1, <2>3
    <3> QED BY <3>1, <3>2 DEF Tracked
  <2>4. CASE ~(ok /\ Downs(r, id))
    <3>1. id \in pressed /\ ~(ok /\ Lifts(r, id))
      BY <2>2, <2>4 DEF Downs, Lifts
    <3>2. \A j \in 1..Len(answers') : Lifted(j, id)' => j \in 1..n /\ Lifted(j, id)
      <4>1. ASSUME NEW j \in 1..Len(answers'), Lifted(j, id)' PROVE j \in 1..n /\ Lifted(j, id)
        <5>1. j # n + 1
          BY <2>1, <3>1, <4>1 DEF Lifted
        <5>2. j \in 1..n
          BY <2>1, <5>1
        <5> QED BY <2>1, <4>1, <5>2 DEF Lifted
      <4> QED BY <4>1
    <3>3. CASE id \in heldIds /\ \A j \in 1..n : ~Lifted(j, id)
      BY <2>2, <3>2, <3>3 DEF Tracked
    <3>4. ASSUME NEW i \in 1..n, answers[i][2], Downs(answers[i][1], id),
                 \A j \in (i + 1)..n : ~Lifted(j, id)
          PROVE  Tracked(id)'
      <4>1. i \in 1..Len(answers') /\ answers'[i] = answers[i]
        BY <2>1, <3>4
      <4>2. \A j \in (i + 1)..Len(answers') : ~Lifted(j, id)'
        <5> SUFFICES ASSUME NEW j \in (i + 1)..Len(answers'), Lifted(j, id)' PROVE FALSE
          OBVIOUS
        <5>1. j \in 1..Len(answers')
          BY <2>1, <3>4
        <5>2. j \in 1..n /\ Lifted(j, id)
          BY <3>2, <5>1
        <5>3. j \in (i + 1)..n
          BY <2>1, <5>2
        <5> QED BY <3>4, <5>2, <5>3
      <4>3. answers'[i][2] /\ Downs(answers'[i][1], id)
        BY <3>4, <4>1
      <4> QED BY <4>1, <4>2, <4>3 DEF Tracked
    <3> QED BY <3>1, <3>3, <3>4 DEF Tracked, n
  <2> QED BY <2>3, <2>4
<1>3. CASE AcceptAnswer
  <2> DEFINE r == Head(answers)[1]
             ok == Head(answers)[2]
             n == Len(answers)
  <2>1. /\ n \in Nat \ {0} /\ Len(answers') = n - 1 /\ answers[1] = Head(answers)
        /\ \A i \in 1..(n - 1) : answers'[i] = answers[i + 1]
        /\ ok \in BOOLEAN
    BY <1>3, AcceptTakesFirst
  <2>2. /\ pressed' = pressed
        /\ AfterDown(r, ok) \/ AfterUp(r, ok) \/ AfterOther(r, ok)
    BY <1>3 DEF AcceptAnswer
  <2>3. \A j \in 1..(n - 1) : Lifted(j, id)' => j + 1 \in 1..n /\ Lifted(j + 1, id)
    BY <2>1 DEF Lifted
  <2>4. /\ answers[1][1] = r /\ answers[1][2] = ok
    BY <2>1
  <2> HIDE DEF r, ok, n
  <2> SUFFICES ASSUME id \in pressed PROVE Tracked(id)'
    BY <2>2 DEF Tracked
  <2>5. ASSUME id \in heldIds', \A j \in 2..n : ~Lifted(j, id) PROVE Tracked(id)'
    <3>1. \A j \in 1..Len(answers') : ~Lifted(j, id)'
      BY <2>1, <2>3, <2>5
    <3> QED BY <2>5, <3>1 DEF Tracked
  <2>6. CASE id \in heldIds /\ \A j \in 1..n : ~Lifted(j, id)
    <3>1. ~Lifted(1, id)
      BY <2>1, <2>6
    <3>2. id \in heldIds'
      BY <2>2, <2>4, <2>6, <3>1 DEF AfterDown, AfterUp, AfterOther, Lifted, Lifts
    <3>3. \A j \in 2..n : ~Lifted(j, id)
      BY <2>1, <2>6
    <3> QED BY <2>5, <3>2, <3>3
  <2>7. ASSUME NEW i \in 1..n, answers[i][2], Downs(answers[i][1], id), \A j \in (i + 1)..n : ~Lifted(j, id)
        PROVE  Tracked(id)'
    <3>1. CASE i = 1
      <4>1. ok /\ r.op = "down" /\ r.id = id
        BY <2>4, <2>7, <3>1 DEF Downs
      <4>2. id \in heldIds'
        BY <2>2, <4>1 DEF AfterDown, AfterUp, AfterOther
      <4> QED BY <2>5, <2>7, <3>1, <4>2
    <3>2. CASE i # 1
      <4>1. i - 1 \in 1..Len(answers') /\ answers'[i - 1] = answers[i]
        BY <2>1, <2>7, <3>2
      <4>2. \A j \in ((i - 1) + 1)..Len(answers') : ~Lifted(j, id)'
        <5> SUFFICES ASSUME NEW j \in ((i - 1) + 1)..Len(answers'), Lifted(j, id)' PROVE FALSE
          OBVIOUS
        <5>1. j \in 1..(n - 1) /\ j + 1 \in (i + 1)..n
          BY <2>1, <3>2
        <5> QED BY <2>3, <2>7, <5>1
      <4>3. answers'[i - 1][2] /\ Downs(answers'[i - 1][1], id)
        BY <2>7, <4>1
      <4> QED BY <4>1, <4>2, <4>3 DEF Tracked
    <3> QED BY <3>1, <3>2
  <2> QED BY <2>6, <2>7 DEF Tracked, n
<1> QED BY <1>1, <1>2, <1>3, InteractionSteps

(* A request joins the order it was allowed in.                              *)
LEMMA SendKeepsOrder ==
  ASSUME InteractionTypeOK, NEW op \in Op, NEW name \in Id \cup {"none"}, Send(op, name), answers' = answers,
         UNCHANGED <<heldIds, owned>>, NEW id \in Id, Ordered(id),
         op = "down" /\ name = id => id \notin heldIds /\ id \notin owned,
         op \in {"up", "lift"} /\ name = id => id \in heldIds
  PROVE  Ordered(id)'
<1>1. /\ Waiting' = Waiting + 1 /\ \A i \in 1..Waiting : At(i)' = At(i)
      /\ \A i \in 1..Waiting' : ~(i <= Waiting) => At(i)' = [op |-> op, id |-> name]
      /\ Waiting \in Nat
  BY SendQueues, QueueTyped
<1>2. ASSUME NEW i \in 1..Waiting', Downs(At(i)', id)
      PROVE  (i \in 1..Waiting /\ Downs(At(i), id)) \/ (id \notin heldIds /\ id \notin owned)
  BY <1>1, <1>2 DEF Downs
<1>3. ASSUME NEW i \in 1..Waiting', Lifts(At(i)', id)
      PROVE  (i \in 1..Waiting /\ Lifts(At(i), id)) \/ id \in heldIds
  BY <1>1, <1>3 DEF Lifts
<1>4. ASSUME NEW i \in 1..Waiting', NEW j \in 1..Waiting', i < j, id \in heldIds,
             Lifts(At(i)', id), Downs(At(j)', id)
      PROVE  FALSE
  <2>1. j \in 1..Waiting /\ Downs(At(j), id)
    BY <1>2, <1>4
  <2>2. i \in 1..Waiting
    BY <1>1, <1>4, <2>1
  <2>3. Lifts(At(i), id)
    BY <1>1, <1>4, <2>2
  <2> QED BY <1>4, <2>1, <2>2, <2>3 DEF Ordered
<1>5. ASSUME NEW i \in 1..Waiting', NEW j \in 1..Waiting', i < j, id \notin heldIds,
             Downs(At(i)', id), Lifts(At(j)', id)
      PROVE  FALSE
  <2>1. j \in 1..Waiting /\ Lifts(At(j), id)
    BY <1>3, <1>5
  <2>2. i \in 1..Waiting
    BY <1>1, <1>5, <2>1
  <2>3. Downs(At(i), id)
    BY <1>1, <1>5, <2>2
  <2> QED BY <1>5, <2>1, <2>2, <2>3 DEF Ordered
<1>6. ASSUME NEW i \in 1..Waiting', id \in owned \ heldIds, Downs(At(i)', id) PROVE FALSE
  BY <1>2, <1>6 DEF Ordered
<1> QED BY <1>4, <1>5, <1>6 DEF Ordered, Downs, Lifts

(* So does a step that leaves the queue.                                     *)
LEMMA SameQueueKeepsOrder ==
  ASSUME Waiting' = Waiting, \A i \in 1..Waiting : At(i)' = At(i), heldIds' = heldIds,
         NEW id \in Id, Ordered(id), owned' \in {owned, heldIds}
  PROVE  Ordered(id)'
BY DEF Ordered, Downs, Lifts

(* Every step keeps the order.                                               *)
LEMMA OrderedStep ==
  ASSUME InteractionTypeOK, [InteractionNext]_interactionVars, ~releasing => owned = {},
         NEW id \in Id, Ordered(id)
  PROVE  Ordered(id)'
<1>1. CASE Calls
  BY <1>1, CallSends, SendKeepsOrder DEF Op
<1>2. CASE LiftNext
  <2>1. /\ \/ Send("cursor", "none")
           \/ Head(plan) \in heldIds /\ Head(plan) \in Id /\ Send("lift", Head(plan))
           \/ UNCHANGED requests
        /\ UNCHANGED <<answers, heldIds, owned>>
    BY <1>2, LiftSends DEF InteractionTypeOK
  <2>2. CASE Send("cursor", "none")
    BY <2>1, <2>2, SendKeepsOrder DEF Op
  <2>3. CASE Head(plan) \in heldIds /\ Head(plan) \in Id /\ Send("lift", Head(plan))
    BY <2>1, <2>3, SendKeepsOrder DEF Op
  <2>4. CASE UNCHANGED requests
    BY <2>1, <2>4, SameQueueKeepsOrder DEF Waiting, At
  <2> QED BY <2>1, <2>2, <2>3, <2>4
<1>3. CASE Aside
  <2>1. UNCHANGED <<requests, answers, heldIds>> /\ owned' \in {owned, heldIds}
    BY <1>3 DEF Aside, OperationSettles, ReleaseInteraction, ReleaseSettles, WithSettles,
        interactionVars
  <2> QED BY <2>1, SameQueueKeepsOrder DEF Waiting, At
<1>4. ASSUME NEW ok \in BOOLEAN, Perform(ok) PROVE Ordered(id)'
  <2>1. UNCHANGED <<heldIds, owned>>
    BY <1>4 DEF Perform
  <2> QED BY <1>4, <2>1, PerformKeepsQueue, SameQueueKeepsOrder
<1>5. CASE AcceptAnswer
  <2> DEFINE r == Head(answers)[1]
             ok == Head(answers)[2]
  <2>1. /\ Waiting' = Waiting - 1 /\ Waiting \in Nat \ {0} /\ \A i \in 1..Waiting' : At(i)' = At(i + 1)
        /\ At(1) = r /\ ok \in BOOLEAN
    BY <1>5, AcceptTakesFirst
  <2>2. /\ owned' = owned
        /\ AfterDown(r, ok) \/ AfterUp(r, ok) \/ AfterOther(r, ok)
    BY <1>5 DEF AcceptAnswer
  <2> HIDE DEF r, ok
  <2>3. \A i \in 1..Waiting' : i + 1 \in 1..Waiting /\ 1 \in 1..Waiting /\ 1 < i + 1
    BY <2>1
  <2>4. \A i, j \in 1..Waiting' : i < j => i + 1 < j + 1
    BY <2>1
  <2>5. CASE id \in heldIds /\ id \in heldIds'
    BY <2>1, <2>3, <2>4, <2>5 DEF Ordered
  <2>6. CASE id \notin heldIds /\ id \notin heldIds'
    BY <2>1, <2>2, <2>3, <2>4, <2>6 DEF Ordered
  <2>7. CASE id \in heldIds /\ id \notin heldIds'
    <3>1. Lifts(At(1), id)
      BY <2>1, <2>2, <2>7 DEF AfterDown, AfterUp, AfterOther, Lifts
    <3>2. \A i \in 1..Waiting' : ~Downs(At(i)', id)
      BY <2>1, <2>3, <2>7, <3>1 DEF Ordered
    <3> QED BY <2>7, <3>2 DEF Ordered, Downs
  <2>8. CASE id \notin heldIds /\ id \in heldIds'
    <3>1. Downs(At(1), id)
      BY <2>1, <2>2, <2>8 DEF AfterDown, AfterUp, AfterOther, Downs
    <3>2. \A i \in 1..Waiting' : ~Lifts(At(i)', id)
      BY <2>1, <2>3, <2>8, <3>1 DEF Ordered
    <3> QED BY <2>8, <3>2 DEF Ordered, Lifts
  <2> QED BY <2>5, <2>6, <2>7, <2>8
<1> QED BY <1>1, <1>2, <1>3, <1>4, <1>5, InteractionSteps

(* Every step keeps what is owned and held planned.                          *)
LEMMA PlannedStep ==
  ASSUME InteractionTypeOK, heldIds \subseteq Range(heldInputs), [InteractionNext]_interactionVars,
         ~releasing => owned = {}, NEW id \in Id, Ordered(id), Planned(id)
  PROVE  Planned(id)'
<1> DEFINE lift == [op |-> "lift", id |-> id]
<1>1. ASSUME NEW op \in Op, NEW name \in Id \cup {"none"}, Send(op, name), answers' = answers,
             UNCHANGED <<heldIds, owned, release>>,
             id \in Range(plan) => id \in Range(plan') \/ (op = "lift" /\ name = id)
      PROVE  Planned(id)'
  <2>1. /\ Waiting' = Waiting + 1 /\ \A i \in 1..Waiting : At(i)' = At(i)
        /\ \A i \in 1..Waiting' : ~(i <= Waiting) => At(i)' = [op |-> op, id |-> name]
        /\ Waiting \in Nat
    BY <1>1, SendQueues, QueueTyped
  <2>2. Waiting' \in 1..Waiting' /\ ~(Waiting' <= Waiting) /\ \A i \in 1..Waiting : i \in 1..Waiting'
    BY <2>1
  <2>3. (\E i \in 1..Waiting : At(i) = lift) => \E i \in 1..Waiting' : At(i)' = lift
    BY <2>1, <2>2
  <2>4. op = "lift" /\ name = id => \E i \in 1..Waiting' : At(i)' = lift
    BY <2>1, <2>2
  <2> QED BY <1>1, <2>3, <2>4 DEF Planned
<1>2. CASE Calls
  BY <1>1, <1>2, CallSends DEF Op
<1>3. CASE LiftNext
  <2>1. /\ plan # <<>> /\ plan' = Tail(plan) /\ plan \in Seq(Id \cup {"cursor"})
        /\ UNCHANGED <<answers, heldIds, owned, release>>
    BY <1>3, LiftSends DEF InteractionTypeOK
  <2>2. id \in Range(plan) => id \in Range(plan') \/ id = Head(plan)
    <3> SUFFICES ASSUME id \in Range(plan), id # Head(plan) PROVE id \in Range(plan')
      OBVIOUS
    <3>1. PICK i \in 1..Len(plan) : plan[i] = id
      BY <2>1, RangeEquality
    <3>2. /\ Len(plan) \in Nat /\ plan' \in Seq(Id \cup {"cursor"}) /\ Len(plan') = Len(plan) - 1
          /\ Head(plan) = plan[1] /\ \A k \in 1..Len(plan') : plan'[k] = plan[k + 1]
      BY <2>1, LenProperties, HeadTailProperties
    <3>3. i - 1 \in 1..Len(plan') /\ (i - 1) + 1 = i
      BY <3>1, <3>2
    <3>4. plan'[i - 1] = id
      BY <3>1, <3>2, <3>3
    <3> QED BY <3>2, <3>3, <3>4, RangeEquality
  <2>3. CASE Head(plan) = "cursor" /\ Send("cursor", "none")
    BY <1>1, <2>1, <2>2, <2>3, CallsAssumption DEF Op
  <2>4. CASE Head(plan) \in heldIds /\ Send("lift", Head(plan))
    BY <1>1, <2>1, <2>2, <2>4 DEF Op, InteractionTypeOK
  <2>5. CASE Head(plan) \notin heldIds /\ UNCHANGED requests
    BY <2>1, <2>2, <2>5 DEF Planned, Waiting, At
  <2> QED BY <1>3, <2>3, <2>4, <2>5, LiftSends
<1>4. CASE Aside
  <2>1. UNCHANGED <<requests, answers, heldIds>>
    BY <1>4 DEF Aside, OperationSettles, ReleaseInteraction, ReleaseSettles, WithSettles,
        interactionVars
  <2>2. CASE UNCHANGED <<release, plan, owned>>
    BY <2>1, <2>2 DEF Planned, Waiting, At
  <2>3. ASSUME NEW restoreCursor \in BOOLEAN, ReleaseInteraction(restoreCursor) PROVE Planned(id)'
    <3>1. release' = "pending" /\ Range(heldInputs) \subseteq Range(plan')
      BY <2>3, PlanTyped DEF ReleaseInteraction
    <3> QED BY <2>1, <3>1 DEF Planned
  <2>4. CASE ReleaseSettles
    <3>1. /\ plan = <<>> /\ ~Lifting /\ release \in {"pending", "failing"}
          /\ release' = IF release = "pending" THEN "ok" ELSE "failed"
          /\ UNCHANGED <<owned, heldIds>>
      BY <2>4 DEF ReleaseSettles
    <3>2. id \notin Range(plan)
      BY <3>1 DEF Range
    <3>3. ~ \E i \in 1..Waiting : At(i) = lift
      <4>1. ASSUME NEW i \in 1..Waiting, At(i) = lift PROVE Outstanding("lift", id)
        <5>0. /\ Len(answers) \in Nat /\ Len(requests) \in Nat
              /\ DOMAIN answers = 1..Len(answers) /\ DOMAIN requests = 1..Len(requests)
          BY QueueTyped, LenProperties DEF InteractionTypeOK
        <5>1. CASE i <= Len(answers)
          BY <4>1, <5>0, <5>1 DEF At, Outstanding
        <5>2. CASE ~(i <= Len(answers))
          <6>1. i - Len(answers) \in DOMAIN requests
            BY <5>0, <5>2 DEF Waiting
          <6> QED BY <4>1, <5>2, <6>1 DEF At, Outstanding
        <5> QED BY <5>1, <5>2
      <4> QED BY <3>1, <4>1 DEF Lifting
    <3>4. ~(release = "pending" /\ id \in owned /\ id \in heldIds)
      BY <3>2, <3>3 DEF Planned
    <3> QED BY <3>1, <3>4 DEF Planned
  <2>5. CASE \E result \in {"succeeded", "failed"} : OperationSettles(result)
    BY <2>2, <2>5 DEF OperationSettles
  <2>6. CASE WithSettles \/ UNCHANGED interactionVars
    BY <2>2, <2>6 DEF WithSettles, interactionVars
  <2> QED BY <1>4, <2>3, <2>4, <2>5, <2>6 DEF Aside
<1>5. ASSUME NEW ok \in BOOLEAN, Perform(ok) PROVE Planned(id)'
  <2>1. UNCHANGED <<heldIds, owned, release, plan>>
    BY <1>5 DEF Perform
  <2> QED BY <1>5, <2>1, PerformKeepsQueue DEF Planned
<1>6. CASE AcceptAnswer
  <2> DEFINE r == Head(answers)[1]
             ok == Head(answers)[2]
  <2>1. /\ Waiting' = Waiting - 1 /\ Waiting \in Nat \ {0} /\ \A i \in 1..Waiting' : At(i)' = At(i + 1)
        /\ At(1) = r /\ ok \in BOOLEAN
    BY <1>6, AcceptTakesFirst
  <2>2. /\ UNCHANGED <<owned, plan>>
        /\ AfterDown(r, ok) \/ AfterUp(r, ok) \/ AfterOther(r, ok)
    BY <1>6 DEF AcceptAnswer
  <2> HIDE DEF r, ok
  <2> SUFFICES ASSUME release' \in {"pending", "ok"}, id \in owned, id \in heldIds' PROVE Planned(id)'
    BY <2>2 DEF Planned
  <2>3. release' = release
    BY <2>2 DEF AfterDown, AfterUp, AfterOther
  <2>4. id \in heldIds
    <3>1. SUFFICES ASSUME id \notin heldIds PROVE FALSE
      OBVIOUS
    <3>2. Downs(At(1), id) /\ 1 \in 1..Waiting
      BY <2>1, <2>2, <3>1 DEF AfterDown, AfterUp, AfterOther, Downs
    <3> QED BY <3>1, <3>2 DEF Ordered
  <2>5. release = "pending" /\ (id \in Range(plan) \/ \E i \in 1..Waiting : At(i) = lift)
    BY <2>3, <2>4 DEF Planned
  <2>6. ASSUME NEW i \in 1..Waiting, At(i) = lift PROVE \E k \in 1..Waiting' : At(k)' = lift
    <3>1. CASE i = 1
      <4>1. r.op = "lift" /\ r.id = id
        BY <2>1, <2>6, <3>1
      <4> QED BY <2>1, <2>2, <2>3, <2>5, <4>1 DEF AfterDown, AfterUp, AfterOther
    <3>2. CASE i # 1
      <4>1. i - 1 \in 1..Waiting' /\ (i - 1) + 1 = i
        BY <2>1, <3>2
      <4> QED BY <2>1, <2>6, <4>1
    <3> QED BY <3>1, <3>2
  <2> QED BY <2>2, <2>3, <2>5, <2>6 DEF Planned
<1> QED BY <1>2, <1>3, <1>4, <1>5, <1>6, InteractionSteps

(* A session begins with nothing held and nothing under way.                 *)
LEMMA InteractionInitInv == InteractionInit => InteractionInv
<1> SUFFICES ASSUME InteractionInit PROVE InteractionInv
  OBVIOUS
<1>1. /\ <<>> \in Seq(Request) /\ <<>> \in Seq(Request \X BOOLEAN) /\ <<>> \in Seq(Id)
      /\ <<>> \in Seq(Id \cup {"cursor"}) /\ Len(<<>>) = 0
  OBVIOUS
<1>2. 0 \in 0..MaxCalls
  BY CallsAssumption
<1>3. InteractionTypeOK
  BY <1>1, <1>2 DEF InteractionInit, InteractionTypeOK
<1>4. Waiting = 0 /\ 1..Waiting = {}
  BY <1>1 DEF InteractionInit, Waiting
<1>5. \A id \in Id : Tracked(id) /\ Ordered(id) /\ Planned(id)
  BY <1>4 DEF InteractionInit, Tracked, Ordered, Planned
<1> QED BY <1>3, <1>4, <1>5 DEF InteractionInit, InteractionInv, Named

(* Every step keeps the invariant.                                           *)
LEMMA InteractionNextInv == InteractionInv /\ [InteractionNext]_interactionVars => InteractionInv'
BY InteractionTyped, NamedStep, HeldHasEntry, OwnedStep, TrackedStep, OrderedStep, PlannedStep
   DEF InteractionInv

(* The calls of a session, however many are under way, overlap and fail, leave its*)
(* record of held keys and buttons true, and a release that succeeds has lifted*)
(* what it held (createInteractionSession, releaseOwnedInputs).              *)
THEOREM InteractionIsSafeHolds == InteractionSpec => []InteractionIsSafe
<1>1. ASSUME InteractionInv PROVE InteractionIsSafe
  <2>1. ASSUME NEW id \in pressed PROVE id \in heldIds \/ Outstanding("down", id)
    <3>1. id \in Id /\ Tracked(id)
      BY <1>1 DEF InteractionInv, InteractionTypeOK
    <3>2. ASSUME NEW i \in 1..Len(answers), Downs(answers[i][1], id) PROVE Outstanding("down", id)
      <4>1. i \in DOMAIN answers /\ answers[i][1] \in Request
        BY <1>1, QueueTyped, LenProperties DEF InteractionInv, InteractionTypeOK
      <4>2. answers[i][1] = [op |-> "down", id |-> id]
        BY <3>2, <4>1 DEF Downs, Request
      <4> QED BY <4>1, <4>2 DEF Outstanding
    <3> QED BY <3>1, <3>2 DEF Tracked
  <2>2. ASSUME release = "ok", NEW id \in pressed \cap owned PROVE FALSE
    <3>1. id \in Id /\ Tracked(id) /\ Ordered(id) /\ Planned(id) /\ InteractionTypeOK
      BY <1>1 DEF InteractionInv, InteractionTypeOK
    <3>2. id \notin heldIds
      BY <2>2, <3>1 DEF Planned
    <3>3. PICK i \in 1..Len(answers) : Downs(answers[i][1], id)
      BY <2>2, <3>1, <3>2 DEF Tracked
    <3>4. i \in 1..Waiting /\ Downs(At(i), id)
      BY <3>1, <3>3, QueueTyped DEF Waiting
    <3> QED BY <2>2, <3>1, <3>2, <3>4 DEF Ordered
  <2> QED BY <1>1, <2>1, <2>2 DEF InteractionInv, InteractionIsSafe, HeldIsTracked, ReleaseLiftsOwned
<1> QED BY InteractionInitInv, InteractionNextInv, <1>1, PTL DEF InteractionSpec

-----------------------------------------------------------------------------
(* Clipboard texts. *)

(* A call that has begun and not settled.                                    *)
Unsettled == {"writing", "operating", "failed", "succeeded"}
ClipboardTypeOK ==
  /\ open \in Seq(Call) /\ disturbed \in BOOLEAN
  /\ textStage \in [Call -> Unsettled \cup {"idle", "rejected", "returned"}]
  /\ previous \in [Call -> Call \cup {Original, Nothing}]
  /\ clipboard \in Call \cup {Original, Nothing}

(* Until calls cross or a write fails, the open calls are those not settled,  *)
(* each once, and the outermost keeps the original text.                      *)
OpenNest ==
  /\ \A c \in Call : textStage[c] \in Unsettled => \E i \in 1..Len(open) : open[i] = c
  /\ \A i \in 1..Len(open) : textStage[open[i]] \in Unsettled
  /\ \A i, j \in 1..Len(open) : open[i] = open[j] => i = j
  /\ IF open = <<>> THEN clipboard = Original ELSE previous[open[1]] = Original
ClipboardInv == ClipboardTypeOK /\ (~disturbed => OpenNest)

(* A call that settles leaves the list of open ones.                          *)
LEMMA ClosesTyped == ASSUME NEW c, open \in Seq(Call), Closes(c) PROVE open' \in Seq(Call)
<1>1. PICK i \in 1..Len(open) : open' = RemoveAt(open, i)
  BY DEF Closes
<1> QED BY <1>1, RemoveAtFacts

(* No call is open at first.                                                 *)
LEMMA ClipboardInitInv == ClipboardInit => ClipboardInv
<1>1. <<>> \in Seq(Call)
  OBVIOUS
<1>2. ASSUME ClipboardInit PROVE OpenNest
  BY <1>2 DEF ClipboardInit, OpenNest, Unsettled
<1> QED BY <1>1, <1>2 DEF ClipboardInit, ClipboardInv, ClipboardTypeOK

(* Every step keeps the types.                                               *)
LEMMA ClipboardTyped ==
  ASSUME ClipboardTypeOK, [ClipboardNext]_clipboardVars PROVE ClipboardTypeOK'
<1> USE DEF ClipboardTypeOK, Unsettled, Go
<1>1. ASSUME NEW c \in Call, ReadPrevious(c) PROVE ClipboardTypeOK'
  <2>1. open' \in Seq(Call)
    BY <1>1, AppendProperties DEF ReadPrevious
  <2> QED BY <1>1, <2>1 DEF ReadPrevious
<1>2. ASSUME NEW c \in Call, WriteText(c) PROVE ClipboardTypeOK'
  BY <1>2 DEF WriteText
<1>3. ASSUME NEW c \in Call, WriteFails(c) \/ Restore(c) \/ RestoreFails(c) PROVE ClipboardTypeOK'
  <2>1. open' \in Seq(Call)
    BY <1>3, ClosesTyped DEF WriteFails, Restore, RestoreFails
  <2> QED BY <1>3, <2>1 DEF WriteFails, Restore, RestoreFails
<1>4. ASSUME NEW c \in Call, NEW result \in {"succeeded", "failed"}, TextOperationSettles(c, result)
      PROVE  ClipboardTypeOK'
  BY <1>4 DEF TextOperationSettles
<1>5. ASSUME NEW c \in Call, NEW text \in {c, Nothing}, Replace(c, text) PROVE ClipboardTypeOK'
  BY <1>5 DEF Replace
<1>6. CASE UNCHANGED clipboardVars
  BY <1>6 DEF clipboardVars
<1> QED BY <1>1, <1>2, <1>3, <1>4, <1>5, <1>6 DEF ClipboardNext

(* A step that neither crosses another call nor fails keeps the calls nested.*)
LEMMA ClipboardNests ==
  ASSUME ClipboardTypeOK, ClipboardTypeOK', OpenNest, ~disturbed, ~disturbed', [ClipboardNext]_clipboardVars
  PROVE  OpenNest'
<1>0. /\ Len(open) \in Nat /\ \A i \in 1..Len(open) : open[i] \in Call
      /\ open = <<>> <=> Len(open) = 0
  BY LenProperties, EmptySeq, ElementOfSeq DEF ClipboardTypeOK
<1>1. ASSUME NEW c \in Call, ReadPrevious(c) PROVE OpenNest'
  <2>1. /\ open' # <<>> /\ Len(open') = Len(open) + 1
        /\ \A i \in 1..Len(open) : open'[i] = open[i]
        /\ open'[Len(open) + 1] = c
    BY <1>1, AppendProperties DEF ReadPrevious, ClipboardTypeOK
  <2>2. /\ textStage[c] = "idle" /\ textStage' = [textStage EXCEPT ![c] = "writing"]
        /\ previous' = [previous EXCEPT ![c] = clipboard]
    BY <1>1 DEF ReadPrevious, Go
  <2>3. \A i \in 1..Len(open) : open[i] # c
    BY <2>2 DEF OpenNest, Unsettled
  <2>4. \A d \in Call : textStage'[d] \in Unsettled => \E i \in 1..Len(open') : open'[i] = d
    BY <1>0, <2>1, <2>2 DEF OpenNest, Unsettled, ClipboardTypeOK
  <2>5. \A i \in 1..Len(open') : textStage'[open'[i]] \in Unsettled
    BY <1>0, <2>1, <2>2 DEF OpenNest, Unsettled, ClipboardTypeOK
  <2>6. \A i, j \in 1..Len(open') : open'[i] = open'[j] => i = j
    BY <1>0, <2>1, <2>3 DEF OpenNest
  <2>7. previous'[open'[1]] = Original
    BY <1>0, <2>1, <2>2, <2>3 DEF OpenNest, ClipboardTypeOK
  <2> QED BY <2>1, <2>4, <2>5, <2>6, <2>7 DEF OpenNest
<1>2. ASSUME NEW c \in Call, WriteText(c) PROVE OpenNest'
  BY <1>0, <1>2 DEF WriteText, Go, OpenNest, Unsettled, ClipboardTypeOK
<1>3. ASSUME NEW c \in Call, NEW result \in {"succeeded", "failed"}, TextOperationSettles(c, result)
      PROVE  OpenNest'
  BY <1>0, <1>3 DEF TextOperationSettles, Go, OpenNest, Unsettled, ClipboardTypeOK
<1>4. ASSUME NEW c \in Call, Restore(c) PROVE OpenNest'
  <2>1. /\ textStage[c] \in Unsettled
        /\ \E s \in {"rejected", "returned"} : textStage' = [textStage EXCEPT ![c] = s]
        /\ clipboard' = previous[c] /\ previous' = previous
    BY <1>4 DEF Restore, Go, Unsettled
  <2>2. PICK i \in 1..Len(open) : open[i] = c /\ open' = RemoveAt(open, i)
    BY <1>4 DEF Restore, Closes
  <2>3. open[Len(open)] = c
    BY <1>4 DEF Restore, Last, ClipboardTypeOK
  <2>4. i = Len(open)
    BY <1>0, <2>2, <2>3 DEF OpenNest
  <2>5. /\ Len(open') = Len(open) - 1
        /\ open' = <<>> <=> Len(open') = 0
        /\ \A k \in 1..Len(open') : open'[k] = open[k] /\ k # i
    <3>1. /\ open' \in Seq(Call) /\ Len(open') = Len(open) - 1
          /\ \A k \in 1..(Len(open) - 1) : open'[k] = IF k < i THEN open[k] ELSE open[k + 1]
      BY <2>2, RemoveAtFacts DEF ClipboardTypeOK
    <3>2. \A k \in 1..(Len(open) - 1) : k < i /\ k # i
      BY <1>0, <2>4
    <3> QED BY <3>1, <3>2, EmptySeq
  <2>6. \A d \in Call : textStage'[d] \in Unsettled => \E k \in 1..Len(open') : open'[k] = d
    <3> SUFFICES ASSUME NEW d \in Call, textStage'[d] \in Unsettled
                 PROVE  \E k \in 1..Len(open') : open'[k] = d
      OBVIOUS
    <3>1. d # c /\ textStage[d] \in Unsettled
      BY <2>1 DEF Unsettled, ClipboardTypeOK
    <3>2. PICK k \in 1..Len(open) : open[k] = d
      BY <3>1 DEF OpenNest
    <3>3. k \in 1..Len(open')
      <4>1. k # Len(open)
        BY <2>3, <3>1, <3>2
      <4> QED BY <1>0, <2>5, <4>1
    <3> QED BY <2>5, <3>2, <3>3
  <2>7. \A k \in 1..Len(open') : textStage'[open'[k]] \in Unsettled
    BY <1>0, <2>1, <2>2, <2>3, <2>4, <2>5 DEF OpenNest, ClipboardTypeOK
  <2>8. \A k, j \in 1..Len(open') : open'[k] = open'[j] => k = j
    BY <1>0, <2>5 DEF OpenNest
  <2>9. IF open' = <<>> THEN clipboard' = Original ELSE previous'[open'[1]] = Original
    BY <1>0, <2>1, <2>2, <2>3, <2>4, <2>5 DEF OpenNest
  <2> QED BY <2>6, <2>7, <2>8, <2>9 DEF OpenNest
<1>5. ASSUME NEW c \in Call, NEW text \in {c, Nothing}, Replace(c, text) PROVE OpenNest'
  <2>1. /\ previous' = previous /\ open' = open /\ open # <<>>
        /\ textStage[c] = "idle" /\ textStage' = [textStage EXCEPT ![c] = "returned"]
    BY <1>0, <1>5 DEF Replace, Go
  <2>2. \A k \in Call :
           IF k = c THEN textStage[k] \notin Unsettled /\ textStage'[k] \notin Unsettled
           ELSE textStage'[k] = textStage[k]
    BY <1>0, <2>1 DEF Unsettled, ClipboardTypeOK
  <2>3. \A k \in 1..Len(open) : open[k] \in Call
    BY <1>0, ElementOfSeq DEF ClipboardTypeOK
  <2>4. \A k \in 1..Len(open) : textStage'[open[k]] \in Unsettled
    BY <1>0, <2>2, <2>3 DEF OpenNest
  <2> QED BY <1>0, <2>1, <2>2, <2>4 DEF OpenNest
<1>6. CASE UNCHANGED clipboardVars
  BY <1>6 DEF clipboardVars, OpenNest
<1>7. ASSUME NEW c \in Call, WriteFails(c) \/ RestoreFails(c) PROVE FALSE
  BY <1>7 DEF WriteFails, RestoreFails
<1> QED BY <1>1, <1>2, <1>3, <1>4, <1>5, <1>6, <1>7 DEF ClipboardNext

(* What has been disturbed stays so.                                         *)
LEMMA DisturbedStays ==
  ASSUME ClipboardTypeOK, disturbed, [ClipboardNext]_clipboardVars PROVE disturbed'
BY DEF ClipboardTypeOK, ClipboardNext, clipboardVars, ReadPrevious, WriteText, WriteFails,
       TextOperationSettles, Restore, RestoreFails, Replace

(* However many calls nest and whether their operations succeed or fail, the *)
(* original text is back when the outermost has settled (withClipboardText). *)
THEOREM TextIsRestoredHolds == ClipboardSpec => []TextIsRestored
<1>1. ClipboardInv /\ [ClipboardNext]_clipboardVars => ClipboardInv'
  BY ClipboardTyped, ClipboardNests, DisturbedStays DEF ClipboardInv
<1>2. ClipboardInv => TextIsRestored
  BY DEF ClipboardInv, OpenNest, TextIsRestored
<1> QED BY ClipboardInitInv, <1>1, <1>2, PTL DEF ClipboardSpec

-----------------------------------------------------------------------------
(* Managed processes. *)

(* Reads are under way only while no stage of a release has begun to take    *)
(* their output away, and stages are reached only by a release.               *)
ReadsInv ==
  /\ phase # "proxy" => ~started /\ reading = {}
  /\ ~started => attempt = "none" /\ ~nativeReleased /\ ~treeReleased /\ ~released
  /\ attempt \notin {"none", "reads"} \/ nativeReleased \/ treeReleased \/ released => reading = {}
  /\ reading # {} => directory = "present"
  /\ released => attempt = "none"
  /\ directory = "present" => phase # "failed" /\ ~released

(* What an older agent's tree looks like to the driver: what it knows is      *)
(* closed under parents and has run; the stages that kill come before the      *)
(* tree counts as released, and once it does no process known can have a child.*)
Killing == {"root", "list", "kill", "rootAgain", "wait"}
TreeReleased == IF native THEN nativeReleased ELSE treeReleased
TreeGone == IF native THEN Running = {} ELSE \A p \in Running : p # Root /\ parent[p] \notin known
KnownIsTree ==
  /\ Root \in known
  /\ \A p \in known \ {Root} : parent[p] \in known /\ tree[p] # "absent"
  /\ phase = "proxy" => tree[Root] # "absent"
  /\ phase # "proxy" => Running = {}
StagesInOrder ==
  /\ attempt \in Killing => ~native /\ killTree /\ ~treeReleased
  /\ attempt = "native" => native
  /\ attempt = "wait" /\ ~rootSeen => ~running(Root)
  /\ killTree /\ (attempt = "remove" \/ released) => TreeReleased
TreeInv == KnownIsTree /\ StagesInOrder /\ (killTree /\ TreeReleased => TreeGone)

ManagedInv == ManagedTypeOK /\ ReadsInv /\ TreeInv

(* Every step keeps the types.                                               *)
LEMMA ManagedTyped == ASSUME ManagedTypeOK, [ManagedNext]_managedVars PROVE ManagedTypeOK'
<1> USE RootAssumption DEF ManagedTypeOK, proc, flags
<1>1. CASE Launch \/ LaunchFails \/ \E ok \in BOOLEAN : LaunchCleanup(ok)
  BY <1>1 DEF Launch, LaunchFails, LaunchCleanup
<1>2. ASSUME NEW p \in Proc, Exit(p) \/ Kill(p) \/ \E q \in Proc : Spawn(p, q) PROVE ManagedTypeOK'
  BY <1>2 DEF Exit, Kill, Spawn
<1>3. CASE Observe
  BY <1>3 DEF Observe, Track, trackedIds
<1>4. ASSUME NEW r \in Reader, StartRead(r) \/ ReadSettles(r) PROVE ManagedTypeOK'
  BY <1>4 DEF StartRead, ReadSettles
<1>5. CASE ReleaseProxy \/ ReadsSettled \/ ReleaseExpires \/ AttemptFails
  BY <1>5 DEF ReleaseProxy, ReadsSettled, Stages, ReleaseExpires, AttemptFails
<1>6. CASE ReleaseNative \/ SeeRoot
  BY <1>6 DEF ReleaseNative, SeeRoot, running
<1>7. CASE List \/ AwaitExit
  BY <1>7 DEF List, AwaitExit, Track, trackedIds, collectTrackedProcesses, Running
<1>8. CASE AllKilled \/ RemoveDirectory
  BY <1>8 DEF AllKilled, RemoveDirectory
<1>9. CASE UNCHANGED managedVars
  BY <1>9 DEF managedVars
<1> QED BY <1>1, <1>2, <1>3, <1>4, <1>5, <1>6, <1>7, <1>8, <1>9 DEF ManagedNext

(* No step takes the output away from a read.                                *)
LEMMA ReadsStep ==
  ASSUME ManagedTypeOK, ReadsInv, [ManagedNext]_managedVars PROVE ReadsInv'
<1> USE DEF ReadsInv, flags
<1>1. CASE Launch \/ LaunchFails \/ \E ok \in BOOLEAN : LaunchCleanup(ok)
  BY <1>1 DEF Launch, LaunchFails, LaunchCleanup
<1>2. ASSUME NEW p \in Proc, Exit(p) \/ Kill(p) \/ \E q \in Proc : Spawn(p, q) PROVE ReadsInv'
  BY <1>2 DEF Exit, Kill, Spawn
<1>3. CASE Observe
  BY <1>3 DEF Observe
<1>4. ASSUME NEW r \in Reader, StartRead(r) \/ ReadSettles(r) PROVE ReadsInv'
  BY <1>4 DEF StartRead, ReadSettles
<1>5. CASE ReleaseProxy \/ ReadsSettled \/ ReleaseExpires \/ AttemptFails
  BY <1>5 DEF ReleaseProxy, ReadsSettled, ReleaseExpires, AttemptFails, ManagedTypeOK, Stages
<1>6. CASE ReleaseNative \/ SeeRoot \/ List \/ AwaitExit \/ AllKilled
  BY <1>6 DEF ReleaseNative, SeeRoot, List, AwaitExit, AllKilled, ManagedTypeOK
<1>7. CASE RemoveDirectory
  BY <1>7 DEF RemoveDirectory, ManagedTypeOK
<1>8. CASE UNCHANGED managedVars
  BY <1>8 DEF managedVars
<1> QED BY <1>1, <1>2, <1>3, <1>4, <1>5, <1>6, <1>7, <1>8 DEF ManagedNext

(* A listing adds to what is known the running processes its parents lead to. *)
LEMMA TrackedFacts ==
  ASSUME known \subseteq Proc
  PROVE  /\ trackedIds \subseteq Proc /\ known \cup {Root} \subseteq trackedIds
         /\ Closed(trackedIds)
         /\ \A p \in trackedIds : p \in known \cup {Root} \/ (running(p) /\ parent[p] \in trackedIds)
<1>1. trackedIds \subseteq Proc /\ known \cup {Root} \subseteq trackedIds
  BY RootAssumption DEF trackedIds
<1>2. Closed(trackedIds)
  BY DEF trackedIds, Closed, Running
<1>3. ASSUME NEW p \in trackedIds, p \notin known \cup {Root}
      PROVE  running(p) /\ parent[p] \in trackedIds
  <2> DEFINE led == {q \in trackedIds : q \in known \cup {Root} \/ (running(q) /\ parent[q] \in trackedIds)}
  <2>1. led \in SUBSET Proc /\ known \cup {Root} \subseteq led
    BY <1>1
  <2>2. Closed(led)
    BY <1>2 DEF Closed, Running
  <2>3. p \in led
    BY <2>1, <2>2 DEF trackedIds
  <2> QED BY <1>3, <2>3
<1> QED BY <1>1, <1>2, <1>3

(* A listing keeps what is known a tree.                                      *)
LEMMA TrackIsTree ==
  ASSUME ManagedTypeOK, KnownIsTree, Track, UNCHANGED <<tree, parent>>, phase' = phase
  PROVE  KnownIsTree'
<1>1. /\ known' = trackedIds /\ known \cup {Root} \subseteq trackedIds
      /\ \A p \in trackedIds : p \in known \cup {Root} \/ (running(p) /\ parent[p] \in trackedIds)
  BY TrackedFacts DEF Track, ManagedTypeOK
<1>2. ASSUME NEW p \in known' \ {Root} PROVE parent'[p] \in known' /\ tree'[p] # "absent"
  BY <1>1 DEF KnownIsTree, running
<1> QED BY <1>1, <1>2 DEF KnownIsTree, Running, running

(* Every step keeps what is known a tree.                                    *)
LEMMA KnownStep ==
  ASSUME ManagedTypeOK, KnownIsTree, [ManagedNext]_managedVars PROVE KnownIsTree'
<1> USE RootAssumption DEF proc
<1>1. CASE Launch
  BY <1>1 DEF Launch, KnownIsTree, ManagedTypeOK
<1>2. ASSUME NEW p \in Proc, Exit(p) \/ Kill(p) PROVE KnownIsTree'
  BY <1>2 DEF Exit, Kill, KnownIsTree, ManagedTypeOK, Running, running
<1>3. ASSUME NEW p \in Proc, NEW q \in Proc, Spawn(p, q) PROVE KnownIsTree'
  <2>1. phase = "proxy" /\ q # Root /\ q \notin known
    BY <1>3 DEF Spawn, KnownIsTree, ManagedTypeOK, Running, running
  <2> QED BY <1>3, <2>1 DEF Spawn, KnownIsTree, ManagedTypeOK
<1>4. CASE Observe \/ List \/ AwaitExit
  BY <1>4, TrackIsTree DEF Observe, List, AwaitExit
<1>5. CASE ReleaseNative
  BY <1>5 DEF ReleaseNative, KnownIsTree, ManagedTypeOK, Running, running
<1>6. CASE LaunchFails \/ \E ok \in BOOLEAN : LaunchCleanup(ok)
  BY <1>6 DEF LaunchFails, LaunchCleanup, KnownIsTree, Running, running
<1>7. CASE \/ \E r \in Reader : StartRead(r) \/ ReadSettles(r)
           \/ ReleaseProxy \/ ReadsSettled \/ ReleaseExpires \/ AttemptFails \/ SeeRoot \/ AllKilled
           \/ RemoveDirectory \/ UNCHANGED managedVars
  <2>1. UNCHANGED <<tree, parent, known, phase>>
    BY <1>7 DEF StartRead, ReadSettles, ReleaseProxy, ReadsSettled, ReleaseExpires, AttemptFails,
        SeeRoot,
       AllKilled, RemoveDirectory, managedVars
  <2> QED BY <2>1 DEF KnownIsTree, Running, running
<1> QED BY <1>1, <1>2, <1>3, <1>4, <1>5, <1>6, <1>7 DEF ManagedNext

(* A root that has been seen not to run never runs again.                     *)
LEMMA StagesStep ==
  ASSUME ManagedInv, [ManagedNext]_managedVars PROVE StagesInOrder'
<1> USE DEF StagesInOrder, TreeReleased, Killing, proc, flags
<1>0. ManagedTypeOK /\ KnownIsTree /\ StagesInOrder /\ ReadsInv
  BY DEF ManagedInv, TreeInv
<1>1. CASE Launch \/ LaunchFails \/ \E ok \in BOOLEAN : LaunchCleanup(ok)
  <2>1. phase # "proxy" /\ UNCHANGED <<attempt, released>>
    BY <1>1 DEF Launch, LaunchFails, LaunchCleanup
  <2> QED BY <1>0, <2>1 DEF ReadsInv
<1>2. ASSUME NEW p \in Proc, Exit(p) \/ Kill(p) \/ \E q \in Proc : Spawn(p, q) PROVE StagesInOrder'
  <2>1. UNCHANGED <<native, killTree, attempt, rootSeen, started, nativeReleased, treeReleased, released>>
    BY <1>2 DEF Exit, Kill, Spawn
  <2>2. ~running(Root) /\ phase = "proxy" => ~running(Root)'
    BY <1>0, <1>2, RootAssumption DEF Exit, Kill, Spawn, running, KnownIsTree, ManagedTypeOK
  <2>3. attempt = "wait" => phase = "proxy"
    BY <1>0 DEF ReadsInv
  <2> QED BY <1>0, <2>1, <2>2, <2>3
<1>3. CASE Observe \/ \E r \in Reader : StartRead(r) \/ ReadSettles(r)
  BY <1>0, <1>3 DEF Observe, StartRead, ReadSettles, running
<1>4. CASE ReleaseProxy \/ ReadsSettled \/ ReleaseExpires \/ AttemptFails
  BY <1>0, <1>4 DEF ReleaseProxy, ReadsSettled, Stages, ReleaseExpires, AttemptFails, running,
      ManagedTypeOK
<1>5. CASE ReleaseNative
  BY <1>0, <1>5 DEF ReleaseNative, ReadsInv, ManagedTypeOK
<1>6. CASE SeeRoot
  BY <1>0, <1>6 DEF SeeRoot, running, ManagedTypeOK
<1>7. CASE List \/ AllKilled \/ AwaitExit
  BY <1>0, <1>7 DEF List, AllKilled, AwaitExit, running, ManagedTypeOK, ReadsInv
<1>8. CASE RemoveDirectory
  BY <1>0, <1>8 DEF RemoveDirectory, ManagedTypeOK
<1>9. CASE UNCHANGED managedVars
  BY <1>0, <1>9 DEF managedVars, running
<1> QED BY <1>1, <1>2, <1>3, <1>4, <1>5, <1>6, <1>7, <1>8, <1>9 DEF ManagedNext

(* Once the tree counts as released it stays gone.                            *)
LEMMA GoneStep ==
  ASSUME ManagedInv, [ManagedNext]_managedVars, killTree', TreeReleased' PROVE TreeGone'
<1> USE DEF TreeReleased, proc, flags
<1>0. /\ ManagedTypeOK /\ KnownIsTree /\ StagesInOrder /\ ReadsInv
      /\ killTree /\ TreeReleased => TreeGone
  BY DEF ManagedInv, TreeInv
<1>1. CASE Launch \/ LaunchFails \/ \E ok \in BOOLEAN : LaunchCleanup(ok)
  <2>1. phase # "proxy" /\ UNCHANGED <<native, nativeReleased, treeReleased>>
    BY <1>1 DEF Launch, LaunchFails, LaunchCleanup
  <2> QED BY <1>0, <2>1 DEF ReadsInv
<1>2. ASSUME NEW p \in Proc, Exit(p) \/ Kill(p) PROVE TreeGone'
  <2>1. /\ UNCHANGED <<native, killTree, nativeReleased, treeReleased, parent, known>>
        /\ Running' \subseteq Running
    BY <1>0, <1>2 DEF Exit, Kill, Running, running, ManagedTypeOK
  <2> QED BY <1>0, <2>1 DEF TreeGone
<1>3. ASSUME NEW p \in Proc, NEW q \in Proc, Spawn(p, q) PROVE TreeGone'
  <2>1. /\ UNCHANGED <<native, killTree, nativeReleased, treeReleased, known>> /\ p \in Running
        /\ Running' = Running \cup {q} /\ parent' = [parent EXCEPT ![q] = p] /\ q \notin Running
    BY <1>0, <1>3 DEF Spawn, Running, running, ManagedTypeOK
  <2>2. TreeGone /\ ~native
    BY <1>0, <2>1 DEF TreeGone
  <2>3. p # Root /\ p \notin known /\ q # Root
    BY <1>0, <1>3, <2>1, <2>2 DEF TreeGone, KnownIsTree, Spawn, Running, running
  <2> QED BY <1>0, <2>1, <2>2, <2>3 DEF TreeGone, ManagedTypeOK, Running
<1>4. CASE Observe
  <2>1. ~started /\ UNCHANGED <<native, nativeReleased, treeReleased>>
    BY <1>4 DEF Observe
  <2> QED BY <1>0, <2>1 DEF ReadsInv
<1>5. CASE List
  <2>1. UNCHANGED <<native, treeReleased>> /\ attempt = "list"
    BY <1>5 DEF List
  <2> QED BY <1>0, <2>1 DEF StagesInOrder, Killing
<1>6. CASE AwaitExit
  <2>1. UNCHANGED <<native, tree, parent>> /\ known' = trackedIds /\ attempt = "wait"
    BY <1>6 DEF AwaitExit, Track
  <2>2. ~native /\ ~treeReleased
    BY <1>0, <2>1 DEF StagesInOrder, Killing
  <2>3. ~rootSeen /\ collectTrackedProcesses = {}
    <3>1. treeReleased'
      BY <1>6, <2>2 DEF AwaitExit
    <3>2. ASSUME treeReleased' = treeReleased PROVE FALSE
      BY <2>2, <3>1, <3>2
    <3> QED BY <1>6, <3>2 DEF AwaitExit
  <2>4. Root \notin Running
    BY <1>0, <2>1, <2>3 DEF StagesInOrder, Running
  <2>5. \A p \in Running : p # Root /\ parent[p] \notin trackedIds
    BY <2>3, <2>4 DEF collectTrackedProcesses
  <2> QED BY <2>1, <2>2, <2>5 DEF TreeGone, Running, running
<1>7. CASE ReleaseNative
  BY <1>0, <1>7 DEF ReleaseNative, StagesInOrder, TreeGone, Running, running, ManagedTypeOK
<1>8. CASE \/ \E r \in Reader : StartRead(r) \/ ReadSettles(r)
           \/ ReleaseProxy \/ ReleaseExpires \/ AttemptFails \/ SeeRoot \/ AllKilled
           \/ RemoveDirectory \/ UNCHANGED managedVars
  <2>1. UNCHANGED <<native, killTree, tree, parent, known, nativeReleased, treeReleased>>
    BY <1>8 DEF StartRead, ReadSettles, ReleaseProxy, ReleaseExpires, AttemptFails, SeeRoot,
       AllKilled, RemoveDirectory, managedVars
  <2> QED BY <1>0, <2>1 DEF TreeGone, Running, running
<1>9. CASE ReadsSettled
  <2>1. UNCHANGED <<native, killTree, tree, parent, known, nativeReleased>>
        /\ treeReleased' = (treeReleased \/ (~native /\ ~killTree))
    BY <1>9 DEF ReadsSettled
  <2>2. treeReleased' => treeReleased
    BY <1>0, <2>1 DEF ManagedTypeOK
  <2> QED BY <1>0, <2>1, <2>2 DEF TreeGone, Running, running
<1> QED BY <1>1, <1>2, <1>3, <1>4, <1>5, <1>6, <1>7, <1>8, <1>9 DEF ManagedNext

(* Nothing has been launched at first.                                       *)
LEMMA ManagedInitInv == ManagedInit => ManagedInv
BY RootAssumption DEF ManagedInit, ManagedInv, ManagedTypeOK, ReadsInv, TreeInv, KnownIsTree,
    StagesInOrder,
   TreeReleased, Killing, Running, running

(* Every step keeps the invariant.                                           *)
LEMMA ManagedNextInv == ManagedInv /\ [ManagedNext]_managedVars => ManagedInv'
<1> SUFFICES ASSUME ManagedInv, [ManagedNext]_managedVars PROVE ManagedInv'
  OBVIOUS
<1>1. ManagedTypeOK' /\ ReadsInv' /\ KnownIsTree' /\ StagesInOrder'
  BY ManagedTyped, ReadsStep, KnownStep, StagesStep DEF ManagedInv, TreeInv
<1>2. killTree' /\ TreeReleased' => TreeGone'
  BY GoneStep
<1> QED BY <1>1, <1>2 DEF ManagedInv, TreeInv

(* Reads of a managed process's output never meet a removed directory, for every*)
(* number of reads, through failed and repeated releases (createManagedProcessProxy).*)
THEOREM ReadsKeepOutputHolds == ManagedSpec => []ReadsKeepOutput
<1>1. ManagedInv => ReadsKeepOutput
  BY DEF ManagedInv, ReadsInv, ReadsKeepOutput, OutputIsKept
<1> QED BY ManagedInitInv, ManagedNextInv, <1>1, PTL DEF ManagedSpec

(* A successful release that kills the tree leaves no process of it that any *)
(* listing could have known, for every number of processes and every way they*)
(* spawn and exit meanwhile (killTrackedProcessTree, collectTrackedProcesses).*)
THEOREM ReleasedTreeIsGoneHolds == ManagedSpec => []ReleasedTreeIsGone
<1>1. ManagedInv => ReleasedTreeIsGone
  BY DEF ManagedInv, TreeInv, StagesInOrder, TreeReleased, TreeGone, ReleasedTreeIsGone
<1> QED BY ManagedInitInv, ManagedNextInv, <1>1, PTL DEF ManagedSpec

-----------------------------------------------------------------------------
(* Mirrored directories.  Names that are apart exclude each other, so that   *)
(* each request changes its own entry and makes the directories above it;    *)
(* what a removal takes along is never local.                                *)

(* The local entries of a mirror, directories and files, and the directories *)
(* above them that are not included themselves.                              *)
LocalDirectories == {p \in localManifest : localTree[p] = "dir"}
LocalFiles == {p \in localManifest : localTree[p] = "new"}
Parents == {p \in Path \ localManifest : \E q \in localManifest : p \in Above(q)}

(* The entries of this loop that are not settled.                           *)
Pending == entries \cup (IF steps = <<>> THEN {} ELSE {entry})
SyncUnderway == sync \in {"running", "done"}

(* What a call may take along though it is not included.                    *)
Lost(p, entryKind) == Replaced(p) \/ (Swept(p) /\ ~excluded(p, entryKind))

SyncTypes ==
  /\ localTree \in [Path -> {"none", "dir", "new"}]
  /\ originalTree \in [Path -> {"none", "dir", "old", "new"}]
  /\ remoteTree \in [Path -> {"none", "dir", "old", "new"}]
  /\ remoteEntries \in [Path -> {"none", "dir", "old", "new"}]
  /\ filter \in Filters /\ deleteExtraneous \in BOOLEAN
  /\ temporaries \subseteq Path \X (0..syncCalls) /\ syncCalls \in Nat
  /\ remoteTemporaries \subseteq Path \X Nat
  /\ loop \in 1..5 /\ entries \subseteq EntriesOf(loop)
  /\ sync \in {"idle", "running", "done", "rejected"}

(* The trees are trees, of names that exist, with temporary files in directories. *)
TreesAreTrees ==
  /\ IsTree(localTree) /\ IsTree(originalTree) /\ IsTree(remoteTree) /\ IsTree(remoteEntries)
  /\ \A p \in Path : remoteTree[p] # "none" \/ remoteEntries[p] # "none" => p \in Existing
  /\ \A t \in temporaries : \A q \in Above(t[1]) : remoteTree[q] = "dir"
  /\ \A t \in remoteTemporaries : \A q \in Above(t[1]) : remoteEntries[q] = "dir"

(* The requests of an entry, and that directories are made from the root down. *)
StepsInOrder ==
  /\ steps # <<>> /\ loop # 4 => entry \in EntriesOf(loop) \ entries
  /\ steps # <<>> /\ Head(steps) = "remove" => entry \in remoteMap
  /\ loop = 1 =>
       /\ steps \in {<<>>, <<"mkdir">>, <<"remove", "mkdir">>}
       /\ steps # <<>> /\ entry \in remoteMap => remoteEntries[entry] # "dir"
       /\ \A p \in LocalDirectories \ entries, q \in Pending : Len(p) <= Len(q)
  /\ loop = 2 =>
       /\ steps \in {<<>>, <<"rename">>, <<"write", "rename">>, <<"remove", "write", "rename">>}
       /\ steps = <<"rename">> => \A q \in Above(entry) : remoteTree[q] = "dir"
  /\ loop \in {3, 5} => steps \in {<<>>, <<"remove">>}
  /\ loop = 4 => steps \in {<<>>, <<"remove temporaries">>}
  /\ sync # "running" => steps = <<>> /\ entries = {}
  /\ sync = "done" => loop = 5

(* What is settled is as in the local tree, what is to come is as it was listed. *)
LocalIsMade ==
  SyncUnderway =>
    /\ \A p \in LocalDirectories :
         IF loop = 1 /\ p \in Pending THEN remoteEntries[p] = "dir" => remoteTree[p] = "dir"
         ELSE remoteTree[p] = "dir"
    /\ \A p \in LocalFiles :
         /\ loop = 1 \/ (loop = 2 /\ p \in entries) => remoteTree[p] = remoteEntries[p]
         /\ loop > 2 \/ (loop = 2 /\ p \notin Pending) => remoteTree[p] = "new"

(* Nothing else is made but the directories above, and what is extraneous goes. *)
OthersAreLeft ==
  SyncUnderway =>
    /\ \A p \in Path \ (localManifest \cup Parents) : remoteTree[p] \in {remoteEntries[p], "none"}
    /\ \A p \in EntriesOf(3) : loop > 3 \/ (loop = 3 /\ p \notin Pending) => remoteTree[p] = "none"
    /\ \A p \in EntriesOf(5) : loop = 5 /\ p \notin Pending => remoteTree[p] = "none"

(* What is not included is as it was listed, and was listed as it was at first. *)
RestIsKept ==
  \A p \in Path, v \in {"dir", "old", "new"} :
    /\ remoteEntries[p] = v /\ ~included(p, KindOf(v)) =>
         remoteTree[p] = v \/ Lost(p, KindOf(v))
    /\ originalTree[p] = v /\ ~included(p, KindOf(v)) =>
         remoteEntries[p] = v \/ Lost(p, KindOf(v))

(* A temporary file of this call is about to be renamed; of the others a     *)
(* mirror removes those that are included, and keeps the excluded ones.      *)
TemporariesPass ==
  SyncUnderway =>
    /\ \A t \in temporaries :
         /\ t[2] = syncCalls => loop = 2 /\ steps = <<"rename">> /\ t[1] = entry
         /\ t[2] # syncCalls => t \in remoteTemporaries
         /\ deleteExtraneous /\ included(t[1], "temporary")
              /\ (loop = 5 \/ (loop = 4 /\ steps = <<>>)) => t[2] = syncCalls
    /\ \A t \in remoteTemporaries :
         /\ t[2] < syncCalls
         /\ excluded(t[1], "temporary") => t \in temporaries \/ Replaced(t[1])

Synchronizing ==
  /\ SyncTypes /\ TreesAreTrees /\ StepsInOrder /\ LocalIsMade
  /\ OthersAreLeft /\ RestIsKept /\ TemporariesPass
SyncInvariant == NamesAreApart => Synchronizing

-----------------------------------------------------------------------------
(* Paths.                                                                   *)

(* A prefix has the elements of the longer sequence.                        *)
LEMMA PrefixIs ==
  ASSUME NEW S, NEW s \in Seq(S), NEW t \in Seq(S)
  PROVE  /\ IsPrefix(s, t) <=> Len(s) <= Len(t) /\ \A i \in 1..Len(s) : s[i] = t[i]
         /\ IsPrefix(s, t) /\ Len(s) = Len(t) => s = t
<1> DEFINE n == Len(s)
<1>1. n \in Nat /\ Len(t) \in Nat /\ s = [i \in 1..n |-> s[i]] /\ t = [i \in 1..Len(t) |-> t[i]]
  BY LenProperties
<1>2. IsPrefix(s, t) <=> Len(s) <= Len(t) /\ \A i \in 1..Len(s) : s[i] = t[i]
  <2>1. ASSUME n <= Len(t)
        PROVE  SubSeq(s, 1, n) = s /\ Len(SubSeq(t, 1, n)) = n
               /\ SubSeq(t, 1, n) = [i \in 1..n |-> t[i]]
    <3>1. n \in Nat /\ \A i \in 1..n : t[i] \in S /\ s[i] \in S
      BY <1>1, <2>1, ElementOfSeq
    <3> HIDE DEF n
    <3>2. /\ SubSeq(t, 1, n) \in Seq(S) /\ Len(SubSeq(t, 1, n)) = n
          /\ \A i \in 1..n : SubSeq(t, 1, n)[i] = t[i]
      <4>1. /\ SubSeq(t, 1, n) \in Seq(S) /\ Len(SubSeq(t, 1, n)) = IF 1 <= n THEN n - 1 + 1 ELSE 0
            /\ \A i \in 1..(n - 1 + 1) : SubSeq(t, 1, n)[i] = t[1 + i - 1]
        BY <3>1, SubSeqProperties
      <4> QED BY <3>1, <4>1
    <3>3. /\ SubSeq(s, 1, n) \in Seq(S) /\ Len(SubSeq(s, 1, n)) = n
          /\ \A i \in 1..n : SubSeq(s, 1, n)[i] = s[i]
      <4>1. /\ SubSeq(s, 1, n) \in Seq(S) /\ Len(SubSeq(s, 1, n)) = IF 1 <= n THEN n - 1 + 1 ELSE 0
            /\ \A i \in 1..(n - 1 + 1) : SubSeq(s, 1, n)[i] = s[1 + i - 1]
        BY <3>1, SubSeqProperties
      <4> QED BY <3>1, <4>1
    <3>4. /\ SubSeq(t, 1, n) = [i \in 1..n |-> SubSeq(t, 1, n)[i]]
          /\ SubSeq(s, 1, n) = [i \in 1..n |-> SubSeq(s, 1, n)[i]]
      BY <3>2, <3>3, LenProperties
    <3> QED BY <1>1, <3>2, <3>3, <3>4
  <2> HIDE DEF n
  <2>2. IsPrefix(s, t) <=> n <= Len(t) /\ SubSeq(s, 1, n) = SubSeq(t, 1, n)
    BY DEF IsPrefix, n
  <2>3. CASE n <= Len(t)
    <3>1. SubSeq(s, 1, n) = s /\ SubSeq(t, 1, n) = [i \in 1..n |-> t[i]]
      BY <2>1, <2>3
    <3>2. s = [i \in 1..n |-> t[i]] <=> \A i \in 1..n : s[i] = t[i]
      BY <1>1
    <3> QED BY <2>2, <2>3, <3>1, <3>2 DEF n
  <2> QED BY <2>2, <2>3 DEF n
<1> QED BY <1>1, <1>2

(* What is above a path is shorter, and lies on one line.                   *)
LEMMA AboveIsALine ==
  ASSUME NEW p \in Path
  PROVE  /\ Len(p) \in Nat
         /\ \A q \in Above(p) : q \in Path /\ q # p /\ Len(q) \in Nat /\ Len(q) < Len(p)
         /\ \A q \in Above(p) : \A r \in Above(q) : r \in Above(p)
         /\ \A q, r \in Above(p) : q = r \/ q \in Above(r) \/ r \in Above(q)
<1>1. \A q \in Path : q \in Seq(STRING) /\ Len(q) \in Nat
  BY SyncAssumption, LenProperties
<1>2. \A q, r \in Path : IsStrictPrefix(q, r) <=>
        q # r /\ Len(q) <= Len(r) /\ \A i \in 1..Len(q) : q[i] = r[i]
  BY <1>1, PrefixIs DEF IsStrictPrefix
<1>3. \A q, r \in Path : q # r /\ Len(q) = Len(r) => \E i \in 1..Len(q) : q[i] # r[i]
  BY <1>1, PrefixIs
<1>4. \A q, r \in Path : IsStrictPrefix(q, r) => Len(q) < Len(r)
  BY <1>1, <1>2, <1>3
<1>5. \A q \in Above(p) : q \in Path /\ q # p /\ Len(q) \in Nat /\ Len(q) < Len(p)
  BY <1>1, <1>2, <1>4 DEF Above
<1>6. ASSUME NEW q \in Above(p), NEW r \in Above(q) PROVE r \in Above(p)
  <2>1. r \in Path /\ q \in Path /\ Len(r) < Len(q) /\ Len(q) < Len(p)
    BY <1>4 DEF Above
  <2>2. /\ \A i \in 1..Len(r) : r[i] = q[i]
        /\ \A i \in 1..Len(q) : q[i] = p[i]
    BY <1>2 DEF Above
  <2> QED BY <1>1, <1>2, <2>1, <2>2 DEF Above
<1>7. ASSUME NEW q \in Above(p), NEW r \in Above(p) PROVE q = r \/ q \in Above(r) \/ r \in Above(q)
  <2>1. /\ q \in Path /\ r \in Path /\ Len(q) < Len(p) /\ Len(r) < Len(p)
        /\ \A i \in 1..Len(q) : q[i] = p[i]
        /\ \A i \in 1..Len(r) : r[i] = p[i]
    BY <1>2, <1>4 DEF Above
  <2>2. CASE Len(q) <= Len(r)
    BY <1>1, <1>2, <2>1, <2>2 DEF Above
  <2>3. CASE Len(r) <= Len(q)
    BY <1>1, <1>2, <2>1, <2>3 DEF Above
  <2> QED BY <1>1, <2>1, <2>2, <2>3
<1> QED BY <1>1, <1>5, <1>6, <1>7

(* A local entry is included, and what is above it is a local directory.    *)
LEMMA ManifestIs ==
  ASSUME SyncTypes, IsTree(localTree), NEW p \in localManifest
  PROVE  /\ p \in Path /\ p \in Existing /\ localTree[p] \in {"dir", "new"}
         /\ included(p, KindOf(localTree[p]))
         /\ p \in LocalDirectories <=> p \notin LocalFiles
         /\ \A q \in Above(p) :
              /\ q \in Path /\ q \in Existing /\ localTree[q] = "dir" /\ ~excluded(q, "dir")
              /\ q \in LocalDirectories \/ q \in Parents
              /\ q \notin LocalFiles
<1>1. /\ p \in Path /\ localTree[p] # "none" /\ included(p, KindOf(localTree[p]))
      /\ \A q \in Above(p) : ~excluded(q, "dir")
  BY DEF localManifest
<1>2. localTree[p] \in {"dir", "new"} /\ p \in Existing
  BY <1>1 DEF SyncTypes, Existing
<1>3. p \in LocalDirectories <=> p \notin LocalFiles
  BY <1>2 DEF LocalDirectories, LocalFiles
<1>4. ASSUME NEW q \in Above(p)
      PROVE  /\ q \in Path /\ q \in Existing /\ localTree[q] = "dir" /\ ~excluded(q, "dir")
             /\ q \in LocalDirectories \/ q \in Parents
             /\ q \notin LocalFiles
  <2>1. q \in Path /\ localTree[q] = "dir" /\ ~excluded(q, "dir")
    BY <1>1 DEF IsTree, Above
  <2>2. q \in Existing /\ q \notin LocalFiles
    BY <2>1 DEF Existing, LocalFiles
  <2>3. q \in LocalDirectories \/ q \in Parents
    BY <2>1 DEF LocalDirectories, Parents
  <2> QED BY <2>1, <2>2, <2>3
<1> QED BY <1>1, <1>2, <1>3, <1>4

(* A directory above a local entry is local itself unless it is not included, *)
(* neither as a directory nor as a file.                                     *)
LEMMA ParentIs ==
  ASSUME SyncTypes, IsTree(localTree), NEW p \in Parents
  PROVE  p \in Path /\ p \in Existing /\ p \notin localManifest
         /\ ~included(p, "dir") /\ ~included(p, "file")
<1>1. PICK q \in localManifest : p \in Above(q)
  BY DEF Parents
<1>2. /\ p \in Path /\ p \in Existing /\ localTree[p] = "dir" /\ ~excluded(p, "dir")
  BY <1>1, ManifestIs
<1>3. \A r \in Above(p) : ~excluded(r, "dir")
  <2>1. q \in Path
    BY <1>1, ManifestIs
  <2> QED BY <1>1, <2>1, ManifestIs, AboveIsALine
<1>4. p \notin localManifest
  BY DEF Parents
<1>5. ~included(p, "dir")
  BY <1>2, <1>3, <1>4 DEF localManifest, KindOf
<1>6. <<p, "dir">> \notin filter.include
  BY <1>2, <1>5 DEF included
<1>7. <<p, "file">> \notin filter.include
  BY <1>2, <1>6, FilterAssumption DEF SyncTypes
<1> QED BY <1>2, <1>4, <1>5, <1>7 DEF included

(* The requests of an entry are made one by one.                            *)
LEMMA RequestsAre ==
  /\ <<"mkdir">> # <<>> /\ Head(<<"mkdir">>) = "mkdir" /\ Tail(<<"mkdir">>) = <<>>
  /\ <<"remove", "mkdir">> # <<>> /\ Head(<<"remove", "mkdir">>) = "remove"
  /\ Tail(<<"remove", "mkdir">>) = <<"mkdir">>
  /\ <<"rename">> # <<>> /\ Head(<<"rename">>) = "rename" /\ Tail(<<"rename">>) = <<>>
  /\ <<"write", "rename">> # <<>> /\ Head(<<"write", "rename">>) = "write"
  /\ Tail(<<"write", "rename">>) = <<"rename">>
  /\ <<"remove", "write", "rename">> # <<>> /\ Head(<<"remove", "write", "rename">>) = "remove"
  /\ Tail(<<"remove", "write", "rename">>) = <<"write", "rename">>
  /\ <<"remove">> # <<>> /\ Head(<<"remove">>) = "remove" /\ Tail(<<"remove">>) = <<>>
  /\ <<"remove temporaries">> # <<>> /\ Head(<<"remove temporaries">>) = "remove temporaries"
  /\ Tail(<<"remove temporaries">>) = <<>>
  /\ <<"mkdir">> # <<"rename">> /\ <<"write", "rename">> # <<"rename">>
  /\ <<"remove", "write", "rename">> # <<"rename">> /\ <<"remove">> # <<"rename">>
  /\ <<"remove", "mkdir">> # <<"rename">> /\ <<"remove temporaries">> # <<"rename">>
<1>1. \A a : <<a>> # <<>> /\ Head(<<a>>) = a /\ Tail(<<a>>) = <<>>
  OBVIOUS
<1>2. \A a, b : <<a, b>> # <<>> /\ Head(<<a, b>>) = a /\ Tail(<<a, b>>) = <<b>>
  OBVIOUS
<1>3. \A a, b, c : <<a, b, c>> # <<>> /\ Head(<<a, b, c>>) = a /\ Tail(<<a, b, c>>) = <<b, c>>
  OBVIOUS
<1>4. \A a, b, c, d : <<a, b>> # <<c>> /\ <<a, b, d>> # <<c>> /\ (<<a>> = <<c>> => a = c)
  OBVIOUS
<1> QED BY <1>1, <1>2, <1>3, <1>4

-----------------------------------------------------------------------------
(* The agent's file system, where names are apart.                          *)

(* A path that exists stands for itself alone.                              *)
LEMMA OnlyOneSpelling ==
  ASSUME SyncTypes, NamesAreApart, TreesAreTrees, NEW e \in Existing
  PROVE  /\ e \in Path /\ e \in Same(e) /\ Above(e) \subseteq Existing
         /\ \A q \in Same(e) : q \in Existing => q = e
         /\ \A q \in Same(e) : q # e => remoteTree[q] = "none"
         /\ \A V : "none" \notin V => (Holds(e, V) <=> remoteTree[e] \in V)
<1>1. e \in Path /\ e \in Same(e)
  BY DEF Existing, Same
<1>2. Above(e) \subseteq Existing
  BY DEF Existing, TreesAreTrees, IsTree, Above
<1>3. \A q \in Same(e) : q \in Existing => q = e
  BY DEF Same, NamesAreApart
<1>4. \A q \in Same(e) : q # e => remoteTree[q] = "none"
  BY <1>3 DEF Same, TreesAreTrees
<1>5. ASSUME NEW V, "none" \notin V PROVE Holds(e, V) <=> remoteTree[e] \in V
  BY <1>1, <1>4, <1>5 DEF Holds
<1> QED BY <1>1, <1>2, <1>3, <1>4, <1>5

(* A removal takes the entry and what is below it.                          *)
LEMMA RemovalIs ==
  ASSUME SyncTypes, NamesAreApart, TreesAreTrees, NEW e \in Existing
  PROVE  /\ Removed(e) \in [Path -> {"none", "dir", "old", "new"}]
         /\ \A q \in Path : Removed(e)[q] =
              IF q = e \/ e \in Above(q) THEN "none" ELSE remoteTree[q]
<1>1. e \in Path /\ e \in Same(e)
  BY OnlyOneSpelling
<1>2. ASSUME NEW q \in Path
      PROVE  Removed(e)[q] = IF q = e \/ e \in Above(q) THEN "none" ELSE remoteTree[q]
  <2>1. Removed(e)[q] = IF q \in Gone(e) THEN "none" ELSE remoteTree[q]
    BY DEF Removed
  <2>2. q = e \/ e \in Above(q) => q \in Gone(e)
    BY <1>1 DEF Gone
  <2>3. ASSUME q \in Gone(e), remoteTree[q] # "none" PROVE q = e \/ e \in Above(q)
    <3>1. q \in Existing
      BY <2>3 DEF TreesAreTrees
    <3>2. Above(q) \subseteq Existing
      BY <3>1, OnlyOneSpelling
    <3> QED BY <2>3, <3>1, <3>2, OnlyOneSpelling DEF Gone
  <2> QED BY <2>1, <2>2, <2>3
<1>3. Removed(e) \in [Path -> {"none", "dir", "old", "new"}]
  BY DEF Removed, SyncTypes
<1> QED BY <1>2, <1>3

-----------------------------------------------------------------------------
(* What a step leaves alone.                                                *)

(* The options decide what is local, what exists and what may be lost.      *)
LEMMA OptionsStay ==
  ASSUME UNCHANGED options
  PROVE  /\ localManifest' = localManifest /\ LocalDirectories' = LocalDirectories
         /\ LocalFiles' = LocalFiles /\ Existing' = Existing /\ Parents' = Parents
         /\ localTree' = localTree /\ originalTree' = originalTree
         /\ filter' = filter /\ deleteExtraneous' = deleteExtraneous
         /\ NamesAreApart' <=> NamesAreApart
         /\ IsTree(localTree)' <=> IsTree(localTree)
         /\ IsTree(originalTree)' <=> IsTree(originalTree)
         /\ \A p, entryKind : included(p, entryKind)' <=> included(p, entryKind)
         /\ \A p, entryKind : excluded(p, entryKind)' <=> excluded(p, entryKind)
         /\ \A p, entryKind : Lost(p, entryKind)' <=> Lost(p, entryKind)
         /\ \A p : Replaced(p)' <=> Replaced(p)
<1>1. localTree' = localTree /\ originalTree' = originalTree
      /\ filter' = filter /\ deleteExtraneous' = deleteExtraneous
  BY DEF options
<1>2. /\ \A p, entryKind : excluded(p, entryKind)' <=> excluded(p, entryKind)
      /\ \A p, entryKind : included(p, entryKind)' <=> included(p, entryKind)
  BY <1>1 DEF excluded, included
<1>3. localManifest' = localManifest
  BY <1>1 DEF localManifest, included, excluded, KindOf
<1>4. LocalDirectories' = LocalDirectories /\ LocalFiles' = LocalFiles
  BY <1>1, <1>3 DEF LocalDirectories, LocalFiles
<1>5. Existing' = Existing /\ Parents' = Parents
  BY <1>1, <1>3 DEF Existing, Parents
<1>6. NamesAreApart' <=> NamesAreApart
  BY <1>5 DEF NamesAreApart
<1>7. /\ IsTree(localTree)' <=> IsTree(localTree)
      /\ IsTree(originalTree)' <=> IsTree(originalTree)
  BY <1>1 DEF IsTree
<1>8. \A p : Replaced(p)' <=> Replaced(p)
  BY <1>1, <1>3 DEF Replaced
<1>9. \A p : Swept(p)' <=> Swept(p)
  BY <1>1, <1>2, <1>3 DEF Swept
<1>10. \A p, entryKind : Lost(p, entryKind)' <=> Lost(p, entryKind)
  BY <1>2, <1>8, <1>9 DEF Lost
<1> QED BY <1>1, <1>2, <1>3, <1>4, <1>5, <1>6, <1>7, <1>8, <1>10

(* With the lists they decide what the loops go through.                    *)
LEMMA ListsStay ==
  ASSUME UNCHANGED options, UNCHANGED lists
  PROVE  /\ remoteEntries' = remoteEntries /\ remoteTemporaries' = remoteTemporaries
         /\ remoteMap' = remoteMap
         /\ \A n : EntriesOf(n)' = EntriesOf(n)
         /\ \A n : \A p \in Path : StepsOf(n, p)' = StepsOf(n, p)
         /\ extraneousTemporaries' = extraneousTemporaries
         /\ IsTree(remoteEntries)' <=> IsTree(remoteEntries)
<1>1. remoteEntries' = remoteEntries /\ remoteTemporaries' = remoteTemporaries
  BY DEF lists
<1>2. /\ localManifest' = localManifest /\ localTree' = localTree /\ filter' = filter
      /\ deleteExtraneous' = deleteExtraneous
      /\ \A p, entryKind : included(p, entryKind)' <=> included(p, entryKind)
  BY OptionsStay
<1>3. remoteMap' = remoteMap
  BY <1>1, <1>2 DEF remoteMap, included, excluded, KindOf
<1>4. Extraneous' = Extraneous
  BY <1>2, <1>3 DEF Extraneous
<1>5. \A p : hasExcludedDescendant(remoteEntries, remoteTemporaries, p)'
               <=> hasExcludedDescendant(remoteEntries, remoteTemporaries, p)
  BY <1>1, <1>2 DEF hasExcludedDescendant, excluded, KindOf
<1>6. ASSUME NEW n PROVE EntriesOf(n)' = EntriesOf(n)
  BY <1>1, <1>2, <1>4, <1>5 DEF EntriesOf
<1>7. ASSUME NEW n, NEW p \in Path PROVE StepsOf(n, p)' = StepsOf(n, p)
  BY <1>1, <1>2, <1>3 DEF StepsOf
<1>8. extraneousTemporaries' = extraneousTemporaries
  BY <1>1, <1>2 DEF extraneousTemporaries
<1>9. IsTree(remoteEntries)' <=> IsTree(remoteEntries)
  BY <1>1 DEF IsTree
<1> QED BY <1>1, <1>3, <1>6, <1>7, <1>8, <1>9

(* The entries of each loop.                                                *)
LEMMA EntriesAre ==
  /\ EntriesOf(1) = LocalDirectories
  /\ EntriesOf(2) = LocalFiles
  /\ EntriesOf(3) = {p \in Extraneous : remoteEntries[p] # "dir"}
  /\ EntriesOf(4) = {}
  /\ EntriesOf(5) = {p \in Extraneous :
       /\ remoteEntries[p] = "dir"
       /\ ~hasExcludedDescendant(remoteEntries, remoteTemporaries, p)}
BY DEF EntriesOf, LocalDirectories, LocalFiles

(* An extraneous entry is listed as included, and above nothing local.      *)
LEMMA ExtraneousIs ==
  ASSUME SyncTypes, TreesAreTrees, NEW e \in Extraneous
  PROVE  /\ e \in Path /\ e \in Existing /\ e \in remoteMap /\ remoteEntries[e] # "none"
         /\ deleteExtraneous /\ included(e, KindOf(remoteEntries[e]))
         /\ e \notin localManifest /\ e \notin Parents
         /\ \A q \in localManifest : q # e /\ e \notin Above(q)
<1>1. /\ e \in Path /\ e \notin localManifest /\ deleteExtraneous /\ e \in remoteMap
      /\ remoteEntries[e] # "none" /\ included(e, KindOf(remoteEntries[e]))
  BY DEF Extraneous, remoteMap
<1>2. e \in Existing
  BY <1>1 DEF TreesAreTrees
<1>3. e \notin Parents
  BY <1>1, ParentIs DEF TreesAreTrees, KindOf
<1>4. \A q \in localManifest : q # e /\ e \notin Above(q)
  BY <1>1, <1>3 DEF Parents
<1> QED BY <1>1, <1>2, <1>3, <1>4

(* The entry of a request.                                                  *)
LEMMA EntryIs ==
  ASSUME SyncTypes, TreesAreTrees, StepsInOrder, steps # <<>>, loop # 4
  PROVE  /\ entry \in Existing /\ entry \in Path
         /\ entry \notin entries /\ entry \in Pending
         /\ loop = 1 => entry \in LocalDirectories /\ entry \in localManifest
         /\ loop = 2 => entry \in LocalFiles /\ entry \in localManifest
         /\ loop \in {3, 5} => entry \in Extraneous
         /\ loop = 3 => remoteEntries[entry] # "dir"
         /\ loop = 5 => /\ remoteEntries[entry] = "dir"
                        /\ ~hasExcludedDescendant(remoteEntries, remoteTemporaries, entry)
<1>1. entry \in EntriesOf(loop) /\ entry \notin entries /\ loop \in 1..5 /\ entry \in Pending
  BY DEF StepsInOrder, SyncTypes, Pending
<1>2. CASE loop = 1
  <2>1. entry \in LocalDirectories /\ entry \in localManifest
    BY <1>1, <1>2, EntriesAre DEF LocalDirectories
  <2>2. entry \in Existing /\ entry \in Path
    BY <2>1, ManifestIs DEF TreesAreTrees
  <2> QED BY <1>1, <1>2, <2>1, <2>2
<1>3. CASE loop = 2
  <2>1. entry \in LocalFiles /\ entry \in localManifest
    BY <1>1, <1>3, EntriesAre DEF LocalFiles
  <2>2. entry \in Existing /\ entry \in Path
    BY <2>1, ManifestIs DEF TreesAreTrees
  <2> QED BY <1>1, <1>3, <2>1, <2>2
<1>4. CASE loop \in {3, 5}
  <2>1. /\ entry \in Extraneous
        /\ loop = 3 => remoteEntries[entry] # "dir"
        /\ loop = 5 => /\ remoteEntries[entry] = "dir"
                       /\ ~hasExcludedDescendant(remoteEntries, remoteTemporaries, entry)
    BY <1>1, <1>4, EntriesAre
  <2>2. entry \in Path /\ entry \in Existing
    BY <2>1, ExtraneousIs
  <2> QED BY <1>1, <1>4, <2>1, <2>2
<1> QED BY <1>1, <1>2, <1>3, <1>4

-----------------------------------------------------------------------------
(* What a request changes, when it is carried out or stops half way.        *)

(* The entry goes, and some of what is below it.                            *)
Removes ==
  /\ loop \in {1, 2, 3, 5} /\ Head(steps) = "remove"
  /\ remoteTree' \in [Path -> {"none", "dir", "old", "new"}] /\ IsTree(remoteTree')
  /\ \A q \in Path :
       remoteTree'[q] # remoteTree[q] => remoteTree'[q] = "none" /\ (q = entry \/ entry \in Above(q))
  /\ temporaries' \subseteq temporaries
  /\ \A t \in temporaries \ temporaries' : entry \in Above(t[1])
  /\ \A t \in temporaries' : \A q \in Above(t[1]) : remoteTree'[q] = "dir"

(* The entry gets a value, and the directories above it are there.          *)
Puts(v) ==
  /\ remoteTree[entry] = "dir" => v = "dir"
  /\ \A q \in Above(entry) : remoteTree[q] \in {"none", "dir"}
  /\ remoteTree' \in [Path -> {"none", "dir", "old", "new"}]
  /\ \A q \in Path : remoteTree'[q] = IF q = entry THEN v
                                      ELSE IF q \in Above(entry) THEN "dir" ELSE remoteTree[q]

DirectoryIsMade ==
  /\ loop = 1 /\ steps = <<"mkdir">> /\ remoteTree[entry] \in {"none", "dir"}
  /\ Puts("dir") /\ temporaries' = temporaries
TemporaryIsWritten ==
  /\ loop = 2 /\ steps = <<"write", "rename">>
  /\ Puts(remoteTree[entry]) /\ temporaries' = temporaries \cup {<<entry, syncCalls>>}
TemporaryIsRenamed ==
  /\ loop = 2 /\ steps = <<"rename">> /\ remoteTree[entry] # "dir"
  /\ Puts("new") /\ temporaries' = temporaries \ {<<entry, syncCalls>>}
TemporariesGo ==
  /\ loop = 4 /\ steps = <<"remove temporaries">> /\ remoteTree' = remoteTree
  /\ temporaries' \subseteq temporaries
  /\ \A t \in temporaries \ temporaries' : t \in extraneousTemporaries

Changes == \/ Removes \/ DirectoryIsMade \/ TemporaryIsWritten \/ TemporaryIsRenamed
           \/ TemporariesGo

(* What a removal takes, whole or in part, leaves a tree.                   *)
LEMMA RemovalIsOfATree ==
  ASSUME SyncTypes, NamesAreApart, TreesAreTrees, NEW e \in Existing
  PROVE  /\ e \in Path
         /\ \A q \in Gone(e) : remoteTree[q] # "none" => q = e \/ e \in Above(q)
         /\ IsTree(Removed(e))
         /\ \A t \in temporaries : t[1] \in Gone(e) \ Same(e) => e \in Above(t[1])
         /\ \A t \in temporaries : t[1] \notin Gone(e) \/ t[1] \in Same(e) =>
              \A q \in Above(t[1]) : Removed(e)[q] = "dir"
<1>1. e \in Path /\ e \in Same(e) /\ \A q \in Same(e) : q \in Existing => q = e
  BY OnlyOneSpelling
<1>2. ASSUME NEW q \in Gone(e), remoteTree[q] # "none" PROVE q = e \/ e \in Above(q)
  <2>1. q \in Path
    BY DEF Gone, Same
  <2>2. q \in Existing
    BY <1>2, <2>1 DEF TreesAreTrees
  <2>3. Above(q) \subseteq Existing
    BY <2>2, OnlyOneSpelling
  <2> QED BY <1>1, <2>2, <2>3 DEF Gone
<1>3. IsTree(Removed(e))
  <2>1. \A q \in Path : Removed(e)[q] =
          IF q = e \/ e \in Above(q) THEN "none" ELSE remoteTree[q]
    BY RemovalIs
  <2>2. ASSUME NEW p \in Path, Removed(e)[p] # "none"
        PROVE  /\ \A q \in Above(p) : Removed(e)[q] = "dir"
               /\ \A q \in Path \ {p} : Canon[q] = Canon[p] => Removed(e)[q] = "none"
    <3>1. p # e /\ e \notin Above(p) /\ remoteTree[p] # "none"
      BY <2>1, <2>2
    <3>2. /\ \A q \in Above(p) : remoteTree[q] = "dir"
          /\ \A q \in Path \ {p} : Canon[q] = Canon[p] => remoteTree[q] = "none"
      BY <3>1 DEF TreesAreTrees, IsTree
    <3>3. \A q \in Above(p) : q \in Path /\ q # e /\ e \notin Above(q)
      BY <3>1, AboveIsALine
    <3> QED BY <2>1, <3>2, <3>3
  <2> QED BY <2>2 DEF IsTree
<1>4. ASSUME NEW t \in temporaries, t[1] \in Gone(e) \ Same(e) PROVE e \in Above(t[1])
  <2>1. PICK q \in Above(t[1]) : q \in Same(e)
    BY <1>4 DEF Gone
  <2>2. remoteTree[q] = "dir" /\ q \in Path
    BY DEF TreesAreTrees, Above
  <2>3. q \in Existing
    BY <2>2 DEF TreesAreTrees
  <2> QED BY <1>1, <2>1, <2>3
<1>5. ASSUME NEW t \in temporaries, t[1] \notin Gone(e) \/ t[1] \in Same(e),
             NEW q \in Above(t[1])
      PROVE  Removed(e)[q] = "dir"
  <2>1. remoteTree[q] = "dir" /\ q \in Path /\ t[1] \in Path /\ t[1] # q
    <3>1. t[1] \in Path
      BY DEF SyncTypes
    <3> QED BY <3>1, AboveIsALine DEF TreesAreTrees
  <2>2. q # e /\ e \notin Above(q)
    <3>1. SUFFICES ASSUME e \in Above(t[1]) PROVE FALSE
      BY <2>1, AboveIsALine
    <3>2. t[1] \in Gone(e)
      BY <1>1, <2>1, <3>1 DEF Gone
    <3>3. t[1] \in Same(e)
      BY <1>5, <3>2
    <3> QED BY <2>1, <3>1, <3>3, CanonAssumption DEF Same, Above
  <2> QED BY <2>1, <2>2, RemovalIs
<1> QED BY <1>1, <1>2, <1>3, <1>4, <1>5

(* Above an existing entry are existing ones, so that none is a file there.  *)
LEMMA PutIs ==
  ASSUME SyncTypes, NamesAreApart, TreesAreTrees, NEW e \in Existing
  PROVE  /\ Reachable(e) => \A q \in Above(e) : remoteTree[q] \in {"none", "dir"}
         /\ Holds(e, {"dir"}) <=> remoteTree[e] = "dir"
         /\ Holds(e, {"old", "new"}) <=> remoteTree[e] \in {"old", "new"}
         /\ \A q \in Above(e) : q \in Path /\ q # e
         /\ (\A q \in Above(e) : remoteTree[q] \in {"none", "dir"}) =>
              \A v \in {"none", "dir", "old", "new"} :
                /\ Put(e, v) \in [Path -> {"none", "dir", "old", "new"}]
                /\ \A q \in Path : Put(e, v)[q] =
                     IF q = e THEN v ELSE IF q \in Above(e) THEN "dir" ELSE remoteTree[q]
<1>1. /\ e \in Path /\ Above(e) \subseteq Existing
      /\ \A q \in Same(e) : q # e => remoteTree[q] = "none"
      /\ \A q \in Same(e) : q \in Existing => q = e
      /\ Holds(e, {"dir"}) <=> remoteTree[e] = "dir"
      /\ Holds(e, {"old", "new"}) <=> remoteTree[e] \in {"old", "new"}
  BY OnlyOneSpelling
<1>2. \A q \in Above(e) : q \in Path /\ q # e
  BY <1>1, AboveIsALine
<1>3. ASSUME Reachable(e), NEW q \in Above(e) PROVE remoteTree[q] \in {"none", "dir"}
  <2>1. q \in Existing /\ q \in Path
    BY <1>1, <1>2
  <2>2. Holds(q, {"old", "new"}) <=> remoteTree[q] \in {"old", "new"}
    BY <2>1, OnlyOneSpelling
  <2> QED BY <1>3, <2>1, <2>2 DEF Reachable, SyncTypes
<1>4. ASSUME \A q \in Above(e) : remoteTree[q] \in {"none", "dir"},
             NEW v \in {"none", "dir", "old", "new"}
      PROVE  /\ Put(e, v) \in [Path -> {"none", "dir", "old", "new"}]
             /\ \A q \in Path : Put(e, v)[q] =
                  IF q = e THEN v ELSE IF q \in Above(e) THEN "dir" ELSE remoteTree[q]
  <2>1. ASSUME NEW q \in Path
        PROVE  Put(e, v)[q] = IF q = e THEN v ELSE IF q \in Above(e) THEN "dir" ELSE remoteTree[q]
    <3>1. Put(e, v)[q] = CASE q = e -> v
                           [] q \in Above(e) /\ remoteTree[q] = "none" -> "dir"
                           [] q \in Same(e) \ {e} -> "none"
                           [] OTHER -> remoteTree[q]
      BY DEF Put
    <3>2. CASE q = e
      BY <3>1, <3>2, <1>2
    <3>3. CASE q # e /\ q \in Above(e)
      <4>1. q \notin Same(e)
        BY <1>1, <3>3
      <4> QED BY <1>4, <3>1, <3>3, <4>1
    <3>4. CASE q # e /\ q \notin Above(e)
      BY <1>1, <3>1, <3>4
    <3> QED BY <3>2, <3>3, <3>4
  <2>2. DOMAIN Put(e, v) = Path /\ Put(e, v) = [q \in Path |-> Put(e, v)[q]]
    BY DEF Put
  <2>3. \A q \in Path : Put(e, v)[q] \in {"none", "dir", "old", "new"}
    BY <2>1 DEF SyncTypes
  <2> QED BY <2>1, <2>2, <2>3
<1> QED BY <1>1, <1>2, <1>3, <1>4

(* The steps of an entry, by the loop.                                      *)
LEMMA StepsInLoop ==
  ASSUME SyncTypes, StepsInOrder, steps # <<>>
  PROVE  /\ loop = 4 => steps = <<"remove temporaries">> /\ Head(steps) = "remove temporaries"
         /\ loop # 4 =>
              \/ loop \in {1, 2, 3, 5} /\ Head(steps) = "remove"
              \/ loop = 1 /\ steps = <<"mkdir">> /\ Head(steps) = "mkdir"
              \/ loop = 2 /\ steps = <<"write", "rename">> /\ Head(steps) = "write"
              \/ loop = 2 /\ steps = <<"rename">> /\ Head(steps) = "rename"
<1>1. loop = 4 \/ loop = 1 \/ loop = 2 \/ loop \in {3, 5}
  BY DEF SyncTypes
<1>2. loop = 1 => Head(steps) = "remove" \/ (steps = <<"mkdir">> /\ Head(steps) = "mkdir")
  BY RequestsAre DEF StepsInOrder
<1>3. loop = 2 => \/ Head(steps) = "remove"
                  \/ steps = <<"write", "rename">> /\ Head(steps) = "write"
                  \/ steps = <<"rename">> /\ Head(steps) = "rename"
  BY RequestsAre DEF StepsInOrder
<1>4. loop \in {3, 5} => Head(steps) = "remove"
  BY RequestsAre DEF StepsInOrder
<1>5. loop = 4 => steps = <<"remove temporaries">> /\ Head(steps) = "remove temporaries"
  BY RequestsAre DEF StepsInOrder
<1> QED BY <1>1, <1>2, <1>3, <1>4, <1>5

(* A request that is carried out is one of these changes, ...               *)
LEMMA RequestIs ==
  ASSUME SyncTypes, NamesAreApart, TreesAreTrees, StepsInOrder, steps # <<>>,
         CarryOut(Head(steps))
  PROVE  \/ Removes /\ remoteTree'[entry] = "none"
         \/ DirectoryIsMade \/ TemporaryIsWritten \/ TemporaryIsRenamed
         \/ TemporariesGo /\ temporaries' = temporaries \ extraneousTemporaries
<1>1. CASE loop = 4
  <2>1. steps = <<"remove temporaries">> /\ Head(steps) = "remove temporaries"
    BY <1>1, StepsInLoop
  <2>2. RemoveTemporaries
    BY <2>1 DEF CarryOut
  <2> QED BY <1>1, <2>1, <2>2 DEF RemoveTemporaries, TemporariesGo
<1>2. CASE loop # 4
  <2>1. entry \in Existing /\ entry \in Path
    BY <1>2, EntryIs
  <2>2. CASE loop \in {1, 2, 3, 5} /\ Head(steps) = "remove"
    <3>1. RemoveEntry(entry)
      BY <2>2 DEF CarryOut
    <3>2. remoteTree' = Removed(entry)
      BY <3>1 DEF RemoveEntry
    <3>3. \A q \in Path : remoteTree'[q] # remoteTree[q] =>
            remoteTree'[q] = "none" /\ (q = entry \/ entry \in Above(q))
      BY <2>1, <3>2, RemovalIs
    <3>4. remoteTree'[entry] = "none" /\ remoteTree' \in [Path -> {"none", "dir", "old", "new"}]
      BY <2>1, <3>2, RemovalIs
    <3>5. IsTree(remoteTree')
      BY <2>1, <3>2, RemovalIsOfATree
    <3>6. temporaries' = {t \in temporaries : t[1] \notin Gone(entry) \/ t[1] \in Same(entry)}
      BY <3>1 DEF RemoveEntry
    <3>7. \A t \in temporaries \ temporaries' : entry \in Above(t[1])
      BY <2>1, <3>6, RemovalIsOfATree
    <3>8. \A t \in temporaries' : \A q \in Above(t[1]) : remoteTree'[q] = "dir"
      BY <2>1, <3>2, <3>6, RemovalIsOfATree
    <3> QED BY <2>2, <3>3, <3>4, <3>5, <3>6, <3>7, <3>8 DEF Removes
  <2>3. CASE loop = 1 /\ steps = <<"mkdir">> /\ Head(steps) = "mkdir"
    <3>1. MakeDirectory(entry)
      BY <2>3 DEF CarryOut
    <3>2. /\ \A q \in Above(entry) : remoteTree[q] \in {"none", "dir"}
          /\ remoteTree[entry] \in {"none", "dir"}
      BY <2>1, <3>1, PutIs DEF MakeDirectory, SyncTypes
    <3>3. CASE remoteTree[entry] = "dir"
      <4>1. remoteTree' = remoteTree /\ temporaries' = temporaries
        BY <2>1, <3>1, <3>3, PutIs DEF MakeDirectory
      <4>2. \A q \in Above(entry) : remoteTree[q] = "dir"
        BY <2>1, <3>3 DEF TreesAreTrees, IsTree
      <4> QED BY <2>1, <2>3, <3>2, <3>3, <4>1, <4>2 DEF DirectoryIsMade, Puts, SyncTypes
    <3>4. CASE remoteTree[entry] = "none"
      <4>1. remoteTree' = Put(entry, "dir") /\ temporaries' = temporaries
        BY <2>1, <3>1, <3>4, PutIs DEF MakeDirectory
      <4> QED BY <2>1, <2>3, <3>2, <3>4, <4>1, PutIs DEF DirectoryIsMade, Puts
    <3> QED BY <3>2, <3>3, <3>4
  <2>4. CASE loop = 2 /\ steps = <<"write", "rename">> /\ Head(steps) = "write"
    <3>1. WriteTemporary(entry)
      BY <2>4 DEF CarryOut
    <3>2. \A q \in Above(entry) : remoteTree[q] \in {"none", "dir"}
      BY <2>1, <3>1, PutIs DEF WriteTemporary
    <3>3. remoteTree' = [q \in Path |-> IF q \in Above(entry) /\ remoteTree[q] = "none"
                                        THEN "dir" ELSE remoteTree[q]]
      BY <3>1 DEF WriteTemporary
    <3>4. /\ remoteTree' \in [Path -> {"none", "dir", "old", "new"}]
          /\ \A q \in Path : remoteTree'[q] =
               IF q = entry THEN remoteTree[entry]
               ELSE IF q \in Above(entry) THEN "dir" ELSE remoteTree[q]
      <4>1. entry \notin Above(entry)
        BY <2>1, PutIs
      <4> QED BY <3>2, <3>3, <4>1 DEF SyncTypes
    <3>5. temporaries' = temporaries \cup {<<entry, syncCalls>>}
      BY <3>1 DEF WriteTemporary
    <3> QED BY <2>1, <2>4, <3>2, <3>4, <3>5 DEF TemporaryIsWritten, Puts
  <2>5. CASE loop = 2 /\ steps = <<"rename">> /\ Head(steps) = "rename"
    <3>1. RenameTemporary(entry) /\ localTree[entry] = "new"
      BY <1>2, <2>5, EntryIs DEF CarryOut, LocalFiles
    <3>2. \A q \in Above(entry) : remoteTree[q] = "dir"
      BY <2>5 DEF StepsInOrder
    <3>3. remoteTree[entry] # "dir" /\ remoteTree' = Put(entry, "new")
      BY <2>1, <3>1, PutIs DEF RenameTemporary
    <3>4. /\ remoteTree' \in [Path -> {"none", "dir", "old", "new"}]
          /\ \A q \in Path : remoteTree'[q] =
               IF q = entry THEN "new" ELSE IF q \in Above(entry) THEN "dir" ELSE remoteTree[q]
      BY <2>1, <3>2, <3>3, PutIs
    <3> QED BY <2>5, <3>1, <3>2, <3>3, <3>4 DEF TemporaryIsRenamed, Puts, RenameTemporary
  <2> QED BY <1>2, <2>2, <2>3, <2>4, <2>5, StepsInLoop
<1> QED BY <1>1, <1>2

(* ... and so is what a failed request has done.                            *)
LEMMA FailureIs ==
  ASSUME SyncTypes, NamesAreApart, TreesAreTrees, StepsInOrder, RequestFails
  PROVE  Changes \/ UNCHANGED <<remoteTree, temporaries>>
<1>1. steps # <<>>
  BY DEF RequestFails
<1>2. CASE UNCHANGED <<remoteTree, temporaries>>
  BY <1>2
<1>3. CASE CarryOut(Head(steps))
  BY <1>1, <1>3, RequestIs DEF Changes
<1>4. CASE Head(steps) = "remove" /\ RemovePart
  <2>1. loop \in {1, 2, 3, 5}
    BY <1>1, <1>4, StepsInLoop
  <2>2. entry \in Existing /\ entry \in Path
    BY <1>1, <2>1, EntryIs
  <2>3. PICK gone \in SUBSET Gone(entry), files \in SUBSET temporaries :
          /\ remoteTree' = [q \in Path |-> IF q \in gone THEN "none" ELSE remoteTree[q]]
          /\ temporaries' = temporaries \ files
          /\ IsTree(remoteTree')
          /\ \A t \in files : t[1] \in Gone(entry) \ Same(entry)
          /\ \A t \in temporaries' : Above(t[1]) \cap gone = {}
    BY <1>4 DEF RemovePart
  <2>4. \A q \in Path : remoteTree'[q] # remoteTree[q] =>
          remoteTree'[q] = "none" /\ (q = entry \/ entry \in Above(q))
    BY <2>2, <2>3, RemovalIsOfATree
  <2>5. remoteTree' \in [Path -> {"none", "dir", "old", "new"}]
    BY <2>3 DEF SyncTypes
  <2>6. \A t \in temporaries \ temporaries' : entry \in Above(t[1])
    BY <2>2, <2>3, RemovalIsOfATree
  <2>7. ASSUME NEW t \in temporaries', NEW q \in Above(t[1]) PROVE remoteTree'[q] = "dir"
    <3>1. t \in temporaries /\ q \notin gone /\ q \in Path
      BY <2>3 DEF Above
    <3>2. remoteTree[q] = "dir"
      BY <3>1 DEF TreesAreTrees
    <3> QED BY <2>3, <3>1, <3>2
  <2> QED BY <1>4, <2>1, <2>3, <2>4, <2>5, <2>6, <2>7 DEF Changes, Removes
<1>5. CASE Head(steps) = "remove temporaries" /\ RemoveSomeTemporaries
  <2>1. loop = 4 /\ steps = <<"remove temporaries">>
    BY <1>1, <1>5, StepsInLoop
  <2> QED BY <1>5, <2>1 DEF Changes, TemporariesGo, RemoveSomeTemporaries
<1> QED BY <1>2, <1>3, <1>4, <1>5 DEF RequestFails

(* The directories above an entry stay or are made, and the tree stays one. *)
LEMMA PutsATree ==
  ASSUME SyncTypes, NamesAreApart, TreesAreTrees, entry \in Existing, entry \in Path,
         NEW v \in {"none", "dir", "old", "new"}, Puts(v)
  PROVE  /\ IsTree(remoteTree')
         /\ \A q \in Path : remoteTree'[q] # "none" => q \in Existing
         /\ \A q \in Above(entry) : remoteTree'[q] = "dir"
         /\ \A q \in Path : remoteTree[q] = "dir" => remoteTree'[q] = "dir"
<1>1. /\ remoteTree[entry] = "dir" => v = "dir"
      /\ \A q \in Path : remoteTree'[q] =
           IF q = entry THEN v ELSE IF q \in Above(entry) THEN "dir" ELSE remoteTree[q]
  BY DEF Puts
<1>2. \A q \in Above(entry) : q \in Existing /\ q \in Path /\ q # entry
  BY OnlyOneSpelling, AboveIsALine
<1>3. \A q \in Path : remoteTree'[q] # "none" => q \in Existing
  BY <1>1, <1>2 DEF TreesAreTrees
<1>4. \A q \in Above(entry) : remoteTree'[q] = "dir"
  BY <1>1, <1>2
<1>5. \A q \in Path : remoteTree[q] = "dir" => remoteTree'[q] = "dir"
  BY <1>1
<1>6. ASSUME NEW p \in Path, remoteTree'[p] # "none"
      PROVE  /\ \A q \in Above(p) : remoteTree'[q] = "dir"
             /\ \A q \in Path \ {p} : Canon[q] = Canon[p] => remoteTree'[q] = "none"
  <2>1. ASSUME NEW q \in Above(p) PROVE remoteTree'[q] = "dir"
    <3>1. q \in Path
      BY DEF Above
    <3>2. CASE p = entry
      BY <1>4, <3>2
    <3>3. CASE p \in Above(entry)
      <4>1. q \in Above(entry)
        BY <3>3, AboveIsALine
      <4> QED BY <1>4, <4>1
    <3>4. CASE p # entry /\ p \notin Above(entry)
      <4>1. remoteTree[q] = "dir"
        BY <1>1, <1>6, <3>4 DEF TreesAreTrees, IsTree
      <4> QED BY <1>5, <3>1, <4>1
    <3> QED BY <3>2, <3>3, <3>4
  <2>2. \A q \in Path \ {p} : Canon[q] = Canon[p] => remoteTree'[q] = "none"
    BY <1>3, <1>6 DEF NamesAreApart
  <2> QED BY <2>1, <2>2
<1> QED BY <1>3, <1>4, <1>5, <1>6 DEF IsTree

(* The remote tree stays a tree, with its temporary files in directories.   *)
LEMMA ChangesKeepTrees ==
  ASSUME SyncTypes, NamesAreApart, TreesAreTrees, StepsInOrder, steps # <<>>,
         Changes, UNCHANGED options, UNCHANGED lists
  PROVE  /\ TreesAreTrees'
         /\ remoteTree' \in [Path -> {"none", "dir", "old", "new"}]
         /\ temporaries' \subseteq Path \X (0..syncCalls)
<1>1. loop # 4 => entry \in Existing /\ entry \in Path
  BY EntryIs
<1>2. /\ IsTree(remoteTree) /\ temporaries \subseteq Path \X (0..syncCalls) /\ syncCalls \in Nat
      /\ \A q \in Path : remoteTree[q] # "none" => q \in Existing
      /\ \A t \in temporaries : \A q \in Above(t[1]) : q \in Path /\ remoteTree[q] = "dir"
  BY DEF SyncTypes, TreesAreTrees, Above
<1>3. SUFFICES /\ IsTree(remoteTree') /\ remoteTree' \in [Path -> {"none", "dir", "old", "new"}]
               /\ \A q \in Path : remoteTree'[q] # "none" => q \in Existing
               /\ \A t \in temporaries' : \A q \in Above(t[1]) : remoteTree'[q] = "dir"
               /\ temporaries' \subseteq Path \X (0..syncCalls)
  <2>1. /\ Existing' = Existing /\ (IsTree(localTree)' <=> IsTree(localTree))
        /\ (IsTree(originalTree)' <=> IsTree(originalTree))
    BY OptionsStay
  <2>2. /\ remoteEntries' = remoteEntries /\ remoteTemporaries' = remoteTemporaries
        /\ (IsTree(remoteEntries)' <=> IsTree(remoteEntries))
    BY ListsStay
  <2>3. IsTree(remoteTree') <=> IsTree(remoteTree)'
    BY DEF IsTree
  <2> QED BY <1>3, <2>1, <2>2, <2>3 DEF TreesAreTrees
<1>4. CASE Removes
  <2>1. \A q \in Path : remoteTree'[q] # "none" => remoteTree[q] # "none"
    BY <1>4 DEF Removes
  <2> QED BY <1>2, <1>4, <2>1 DEF Removes
<1>5. ASSUME loop # 4, NEW v \in {"none", "dir", "old", "new"}, Puts(v),
             temporaries' \subseteq temporaries \cup {<<entry, syncCalls>>}
      PROVE  /\ IsTree(remoteTree') /\ remoteTree' \in [Path -> {"none", "dir", "old", "new"}]
             /\ \A q \in Path : remoteTree'[q] # "none" => q \in Existing
             /\ \A t \in temporaries' : \A q \in Above(t[1]) : remoteTree'[q] = "dir"
             /\ temporaries' \subseteq Path \X (0..syncCalls)
  <2>1. /\ IsTree(remoteTree')
        /\ \A q \in Path : remoteTree'[q] # "none" => q \in Existing
        /\ \A q \in Above(entry) : remoteTree'[q] = "dir"
        /\ \A q \in Path : remoteTree[q] = "dir" => remoteTree'[q] = "dir"
    BY <1>1, <1>5, PutsATree
  <2>2. remoteTree' \in [Path -> {"none", "dir", "old", "new"}]
    BY <1>5 DEF Puts
  <2>3. <<entry, syncCalls>> \in Path \X (0..syncCalls)
    BY <1>1, <1>2, <1>5
  <2> QED BY <1>2, <1>5, <2>1, <2>2, <2>3
<1>6. CASE DirectoryIsMade
  BY <1>5, <1>6 DEF DirectoryIsMade
<1>7. CASE TemporaryIsWritten
  <2>1. remoteTree[entry] \in {"none", "dir", "old", "new"}
    BY <1>1, <1>7 DEF TemporaryIsWritten, SyncTypes
  <2> QED BY <1>5, <1>7, <2>1 DEF TemporaryIsWritten
<1>8. CASE TemporaryIsRenamed
  BY <1>5, <1>8 DEF TemporaryIsRenamed
<1>9. CASE TemporariesGo
  BY <1>2, <1>9 DEF TemporariesGo, SyncTypes
<1> QED BY <1>4, <1>6, <1>7, <1>8, <1>9 DEF Changes

(* What is below an entry that goes was not listed, or is replaced with it, *)
(* or swept away and not excluded.                                         *)
LEMMA BelowIs ==
  ASSUME SyncTypes, TreesAreTrees, StepsInOrder, steps # <<>>, Removes
  PROVE  /\ entry \in remoteMap
         /\ \A q \in Path, v \in {"dir", "old", "new"} :
              entry \in Above(q) /\ remoteEntries[q] = v => Lost(q, KindOf(v))
         /\ \A t \in remoteTemporaries :
              entry \in Above(t[1]) /\ excluded(t[1], "temporary") => Replaced(t[1])
<1>1. loop \in {1, 2, 3, 5} /\ Head(steps) = "remove" /\ entry \in remoteMap
  BY DEF Removes, StepsInOrder
<1>2. CASE loop \in {1, 3}
  <2>1. remoteEntries[entry] # "dir"
    <3>1. loop = 1 => remoteEntries[entry] # "dir"
      BY <1>1 DEF StepsInOrder
    <3>2. loop = 3 => remoteEntries[entry] # "dir"
      BY EntryIs
    <3> QED BY <1>2, <3>1, <3>2
  <2>2. \A q \in Path : entry \in Above(q) => remoteEntries[q] = "none"
    BY <2>1 DEF TreesAreTrees, IsTree
  <2>3. \A t \in remoteTemporaries : entry \notin Above(t[1])
    BY <2>1 DEF TreesAreTrees
  <2> QED BY <1>1, <2>2, <2>3
<1>3. CASE loop = 2
  <2>1. entry \in localManifest /\ localTree[entry] = "new"
    BY <1>3, EntryIs DEF LocalFiles
  <2>2. \A q : entry \in Above(q) => Replaced(q)
    BY <2>1 DEF Replaced
  <2> QED BY <1>1, <2>2 DEF Lost
<1>4. CASE loop = 5
  <2>1. /\ entry \in Extraneous /\ remoteEntries[entry] = "dir"
        /\ ~hasExcludedDescendant(remoteEntries, remoteTemporaries, entry)
    BY <1>1, <1>4, EntryIs
  <2>2. deleteExtraneous /\ included(entry, "dir") /\ entry \notin localManifest
    BY <2>1, ExtraneousIs DEF KindOf
  <2>3. \A q : entry \in Above(q) => Swept(q)
    BY <2>2 DEF Swept
  <2>4. \A q \in Path, v \in {"dir", "old", "new"} :
          entry \in Above(q) /\ remoteEntries[q] = v => ~excluded(q, KindOf(v))
    BY <2>1 DEF hasExcludedDescendant
  <2>5. \A t \in remoteTemporaries : entry \in Above(t[1]) => ~excluded(t[1], "temporary")
    BY <2>1 DEF hasExcludedDescendant
  <2> QED BY <1>1, <2>3, <2>4, <2>5 DEF Lost
<1> QED BY <1>1, <1>2, <1>3, <1>4

(* What is not included is neither removed nor made nor replaced itself.    *)
LEMMA ChangesKeepRest ==
  ASSUME SyncTypes, NamesAreApart, TreesAreTrees, StepsInOrder, RestIsKept, steps # <<>>,
         Changes, UNCHANGED options, UNCHANGED lists
  PROVE  RestIsKept'
<1>1. \A p \in Path, v \in {"dir", "old", "new"} :
        /\ remoteEntries[p] = v /\ ~included(p, KindOf(v)) => remoteTree[p] = v \/ Lost(p, KindOf(v))
        /\ originalTree[p] = v /\ ~included(p, KindOf(v)) =>
             remoteEntries[p] = v \/ Lost(p, KindOf(v))
  BY DEF RestIsKept
<1>2. SUFFICES ASSUME NEW p \in Path, NEW v \in {"dir", "old", "new"},
                      remoteEntries[p] = v, ~included(p, KindOf(v)), ~Lost(p, KindOf(v))
               PROVE  remoteTree'[p] = v
  <2>1. /\ remoteEntries' = remoteEntries /\ originalTree' = originalTree
        /\ \A p, entryKind : included(p, entryKind)' <=> included(p, entryKind)
        /\ \A p, entryKind : Lost(p, entryKind)' <=> Lost(p, entryKind)
    BY OptionsStay, ListsStay
  <2> QED BY <1>1, <1>2, <2>1 DEF RestIsKept
<1>3. remoteTree[p] = v
  BY <1>1, <1>2
<1>4. CASE Removes
  <2>1. entry \in remoteMap /\ ~(entry \in Above(p))
    BY <1>2, <1>4, BelowIs
  <2>2. p # entry
    BY <1>2, <2>1 DEF remoteMap
  <2> QED BY <1>3, <1>4, <2>1, <2>2 DEF Removes
<1>5. ASSUME NEW w, Puts(w), p = entry => w = v PROVE remoteTree'[p] = v
  BY <1>2, <1>3, <1>5 DEF Puts
<1>6. CASE DirectoryIsMade
  <2>1. p = entry => v = "dir"
    BY <1>3, <1>6 DEF DirectoryIsMade
  <2> QED BY <1>5, <1>6, <2>1 DEF DirectoryIsMade
<1>7. CASE TemporaryIsWritten
  BY <1>3, <1>5, <1>7 DEF TemporaryIsWritten
<1>8. CASE TemporaryIsRenamed
  <2>1. p # entry
    <3>1. SUFFICES ASSUME p = entry PROVE FALSE
      OBVIOUS
    <3>2. v # "dir" /\ loop = 2
      BY <1>3, <1>8, <3>1 DEF TemporaryIsRenamed
    <3>3. entry \in localManifest /\ localTree[entry] = "new"
      BY <3>2, EntryIs DEF LocalFiles
    <3>4. included(entry, "file")
      BY <3>3 DEF localManifest, KindOf
    <3> QED BY <1>2, <3>1, <3>2, <3>4 DEF KindOf
  <2> QED BY <1>5, <1>8, <2>1 DEF TemporaryIsRenamed
<1>9. CASE TemporariesGo
  BY <1>3, <1>9 DEF TemporariesGo
<1> QED BY <1>4, <1>6, <1>7, <1>8, <1>9 DEF Changes

-----------------------------------------------------------------------------
(* Every step of the call keeps the invariant.                              *)

(* Before the first call nothing is under way.                              *)
LEMMA SyncStarts == ASSUME SyncInit, NamesAreApart
                    PROVE  Synchronizing
<1>1. SyncTypes
  BY DEF SyncInit, SyncTypes
<1>2. TreesAreTrees
  BY DEF SyncInit, TreesAreTrees, Existing
<1>3. StepsInOrder
  BY DEF SyncInit, StepsInOrder, Pending
<1>4. LocalIsMade /\ TemporariesPass /\ OthersAreLeft
  BY DEF SyncInit, LocalIsMade, TemporariesPass, OthersAreLeft, SyncUnderway
<1>5. RestIsKept
  BY DEF SyncInit, RestIsKept
<1> QED BY <1>1, <1>2, <1>3, <1>4, <1>5 DEF Synchronizing

(* A call starts from the tree it lists.                                    *)
LEMMA SyncDirectoryKeeps ==
  ASSUME Synchronizing, NamesAreApart, SyncDirectory PROVE Synchronizing'
<1> USE DEF Synchronizing
<1>0. UNCHANGED options /\ UNCHANGED <<remoteTree, temporaries>>
  BY DEF SyncDirectory
<1>1. /\ localManifest' = localManifest /\ LocalDirectories' = LocalDirectories
      /\ LocalFiles' = LocalFiles /\ Existing' = Existing /\ Parents' = Parents
      /\ localTree' = localTree /\ originalTree' = originalTree
      /\ filter' = filter /\ deleteExtraneous' = deleteExtraneous
      /\ (IsTree(localTree)' <=> IsTree(localTree))
      /\ (IsTree(originalTree)' <=> IsTree(originalTree))
      /\ \A p, entryKind : included(p, entryKind)' <=> included(p, entryKind)
      /\ \A p, entryKind : excluded(p, entryKind)' <=> excluded(p, entryKind)
      /\ \A p, entryKind : Lost(p, entryKind)' <=> Lost(p, entryKind)
  BY <1>0, OptionsStay
<1>2. /\ sync' = "running" /\ syncCalls' = syncCalls + 1 /\ remoteEntries' = remoteTree
      /\ remoteTemporaries' = temporaries
      /\ loop' = 1 /\ entries' = LocalDirectories /\ steps' = <<>> /\ entry' = <<>>
  BY EntriesAre DEF SyncDirectory
<1>3. EntriesOf(1)' = LocalDirectories
  BY <1>1, EntriesAre DEF EntriesOf, LocalDirectories
<1>4. SyncTypes'
  BY <1>0, <1>1, <1>2, <1>3 DEF SyncTypes
<1>5. TreesAreTrees'
  <2>1. (IsTree(remoteTree)' <=> IsTree(remoteTree)) /\ (IsTree(remoteEntries)' <=> IsTree(remoteTree))
    BY <1>0, <1>2 DEF IsTree
  <2> QED BY <1>0, <1>1, <1>2, <2>1 DEF TreesAreTrees
<1>6. Pending' = LocalDirectories
  BY <1>2 DEF Pending
<1>7. StepsInOrder'
  BY <1>1, <1>2, RequestsAre DEF StepsInOrder
<1>8. LocalIsMade'
  BY <1>0, <1>1, <1>2, <1>6 DEF LocalIsMade
<1>9. OthersAreLeft'
  BY <1>0, <1>1, <1>2 DEF OthersAreLeft
<1>10. RestIsKept'
  BY <1>0, <1>1, <1>2 DEF RestIsKept
<1>11. TemporariesPass'
  BY <1>0, <1>2 DEF TemporariesPass, SyncTypes
<1> QED BY <1>4, <1>5, <1>7, <1>8, <1>9, <1>10, <1>11

(* What one round requests is what the entry lacks.                         *)
LEMMA StepsAre ==
  ASSUME SyncTypes, TreesAreTrees, NEW p \in EntriesOf(loop)
  PROVE  LET s == StepsOf(loop, p) IN
         /\ loop # 4 /\ p \in Path
         /\ s # <<>> /\ Head(s) = "remove" => p \in remoteMap
         /\ loop = 1 => \/ s = <<>> /\ remoteEntries[p] = "dir"
                        \/ s = <<"remove", "mkdir">> /\ remoteEntries[p] # "dir"
                        \/ s = <<"mkdir">> /\ p \notin remoteMap
         /\ loop = 2 => \/ s = <<>> /\ remoteEntries[p] = "new"
                        \/ s = <<"remove", "write", "rename">>
                        \/ s = <<"write", "rename">>
         /\ loop \in {3, 5} => s = <<"remove">>
<1>1. loop \in 1..5 /\ loop # 4
  BY EntriesAre DEF SyncTypes
<1>2. CASE loop = 1
  <2>1. p \in Path
    BY <1>2, EntriesAre, ManifestIs DEF LocalDirectories, TreesAreTrees
  <2>2. CASE p \in remoteMap /\ remoteEntries[p] = "dir"
    BY <1>2, <2>1, <2>2 DEF StepsOf
  <2>3. CASE p \in remoteMap /\ remoteEntries[p] # "dir"
    BY <1>2, <2>1, <2>3, RequestsAre DEF StepsOf
  <2>4. CASE p \notin remoteMap
    BY <1>2, <2>1, <2>4, RequestsAre DEF StepsOf
  <2> QED BY <2>2, <2>3, <2>4
<1>3. CASE loop = 2
  <2>1. p \in Path /\ localTree[p] = "new"
    BY <1>3, EntriesAre, ManifestIs DEF LocalFiles, TreesAreTrees
  <2>2. CASE p \in remoteMap /\ remoteEntries[p] = "new"
    BY <1>3, <2>1, <2>2 DEF StepsOf
  <2>3. CASE p \in remoteMap /\ remoteEntries[p] = "dir"
    BY <1>3, <2>1, <2>3, RequestsAre DEF StepsOf
  <2>4. CASE ~(p \in remoteMap /\ remoteEntries[p] \in {"dir", localTree[p]})
    BY <1>3, <2>1, <2>4, RequestsAre DEF StepsOf
  <2> QED BY <2>1, <2>2, <2>3, <2>4
<1>4. CASE loop \in {3, 5}
  <2>1. p \in Path /\ p \in remoteMap
    BY <1>4, EntriesAre, ExtraneousIs
  <2> QED BY <1>1, <1>4, <2>1, RequestsAre DEF StepsOf
<1> QED BY <1>1, <1>2, <1>3, <1>4

(* An entry is taken up: what needs no request is as it has to be.          *)
LEMMA NextEntryKeeps ==
  ASSUME Synchronizing, NamesAreApart, NEW p \in Path, NextEntry(p) PROVE Synchronizing'
<1> USE DEF Synchronizing
<1>0. /\ UNCHANGED options /\ UNCHANGED lists
      /\ UNCHANGED <<remoteTree, temporaries, loop, sync, syncCalls>>
  BY DEF NextEntry
<1>1. /\ localManifest' = localManifest /\ LocalDirectories' = LocalDirectories
      /\ LocalFiles' = LocalFiles /\ Existing' = Existing /\ Parents' = Parents
      /\ localTree' = localTree /\ originalTree' = originalTree
      /\ filter' = filter /\ deleteExtraneous' = deleteExtraneous
      /\ (IsTree(localTree)' <=> IsTree(localTree))
      /\ (IsTree(originalTree)' <=> IsTree(originalTree))
      /\ \A q, entryKind : included(q, entryKind)' <=> included(q, entryKind)
      /\ \A q, entryKind : excluded(q, entryKind)' <=> excluded(q, entryKind)
      /\ \A q, entryKind : Lost(q, entryKind)' <=> Lost(q, entryKind)
      /\ \A q : Replaced(q)' <=> Replaced(q)
  BY <1>0, OptionsStay
<1>2. /\ remoteEntries' = remoteEntries /\ remoteTemporaries' = remoteTemporaries
      /\ remoteMap' = remoteMap
      /\ \A n : EntriesOf(n)' = EntriesOf(n)
      /\ (IsTree(remoteEntries)' <=> IsTree(remoteEntries))
  BY <1>0, ListsStay
<1>3. /\ sync = "running" /\ steps = <<>> /\ p \in entries /\ InTurn(p)
      /\ entry' = p /\ entries' = entries \ {p} /\ steps' = StepsOf(loop, p)
  BY DEF NextEntry
<1>4. entries \subseteq EntriesOf(loop) /\ p \in EntriesOf(loop) /\ loop \in 1..5
  BY <1>3 DEF SyncTypes
<1>5. /\ loop # 4
      /\ steps' # <<>> /\ Head(steps') = "remove" => p \in remoteMap
      /\ loop = 1 => \/ steps' = <<>> /\ remoteEntries[p] = "dir"
                     \/ steps' = <<"remove", "mkdir">> /\ remoteEntries[p] # "dir"
                     \/ steps' = <<"mkdir">> /\ p \notin remoteMap
      /\ loop = 2 => \/ steps' = <<>> /\ remoteEntries[p] = "new"
                     \/ steps' = <<"remove", "write", "rename">>
                     \/ steps' = <<"write", "rename">>
      /\ loop \in {3, 5} => steps' = <<"remove">>
  BY <1>3, <1>4, StepsAre
<1>6. /\ Pending = entries
      /\ steps' = <<>> => Pending' = entries \ {p}
      /\ steps' # <<>> => Pending' = entries
  BY <1>3 DEF Pending
<1>7. SyncTypes'
  BY <1>0, <1>1, <1>2, <1>3 DEF SyncTypes
<1>8. TreesAreTrees'
  <2>1. IsTree(remoteTree)' <=> IsTree(remoteTree)
    BY <1>0 DEF IsTree
  <2> QED BY <1>0, <1>1, <1>2, <2>1 DEF TreesAreTrees
<1>9. StepsInOrder'
  <2>1. loop = 1 => \A q \in LocalDirectories \ entries', r \in Pending' : Len(q) <= Len(r)
    <3>1. loop = 1 => \A q \in entries : Len(p) <= Len(q)
      BY <1>3 DEF InTurn
    <3>2. loop = 1 => \A q \in LocalDirectories \ entries, r \in entries : Len(q) <= Len(r)
      BY <1>6 DEF StepsInOrder
    <3> QED BY <1>3, <1>6, <3>1, <3>2
  <2>2. sync # "running" => steps' = <<>> /\ entries' = {}
    BY <1>3
  <2>3. loop = 1 => steps' \in {<<>>, <<"mkdir">>, <<"remove", "mkdir">>}
                    /\ (steps' # <<>> /\ p \in remoteMap => remoteEntries[p] # "dir")
    BY <1>5, RequestsAre
  <2>4. loop = 2 => steps' \in {<<>>, <<"write", "rename">>, <<"remove", "write", "rename">>}
    BY <1>5
  <2>5. <<>> # <<"rename">> /\ <<"write", "rename">> # <<"rename">>
        /\ <<"remove", "write", "rename">> # <<"rename">>
    BY RequestsAre
  <2> HIDE DEF Synchronizing
  <2> QED BY <1>0, <1>1, <1>2, <1>3, <1>4, <1>5, <2>1, <2>2, <2>3, <2>4, <2>5 DEF StepsInOrder
<1>10. LocalIsMade'
  <2>1. \A q \in LocalDirectories :
          IF loop = 1 /\ q \in Pending' THEN remoteEntries[q] = "dir" => remoteTree[q] = "dir"
          ELSE remoteTree[q] = "dir"
    BY <1>3, <1>5, <1>6, RequestsAre DEF LocalIsMade, SyncUnderway
  <2>2. \A q \in LocalFiles :
          /\ loop = 1 \/ (loop = 2 /\ q \in entries') => remoteTree[q] = remoteEntries[q]
          /\ loop > 2 \/ (loop = 2 /\ q \notin Pending') => remoteTree[q] = "new"
    BY <1>3, <1>4, <1>5, <1>6, RequestsAre DEF LocalIsMade, SyncUnderway
  <2> QED BY <1>0, <1>1, <1>2, <2>1, <2>2 DEF LocalIsMade
<1>11. OthersAreLeft'
  <2>1. loop \in {3, 5} => Pending' = Pending
    BY <1>5, <1>6, RequestsAre
  <2>2. (SyncUnderway' <=> SyncUnderway) /\ remoteTree' = remoteTree /\ loop' = loop
    BY <1>0 DEF SyncUnderway
  <2> QED BY <1>1, <1>2, <1>4, <2>1, <2>2 DEF OthersAreLeft
<1>12. RestIsKept'
  BY <1>0, <1>1, <1>2 DEF RestIsKept
<1>13. TemporariesPass'
  BY <1>0, <1>1, <1>2, <1>3, <1>5, RequestsAre DEF TemporariesPass, SyncUnderway
<1> QED BY <1>7, <1>8, <1>9, <1>10, <1>11, <1>12, <1>13

(* A loop that is through has settled its entries.                          *)
LEMMA NextLoopKeeps == ASSUME Synchronizing, NamesAreApart, NextLoop PROVE Synchronizing'
<1> USE DEF Synchronizing
<1>0. /\ UNCHANGED options /\ UNCHANGED lists
      /\ UNCHANGED <<remoteTree, temporaries, sync, syncCalls>>
  BY DEF NextLoop
<1>1. /\ localManifest' = localManifest /\ LocalDirectories' = LocalDirectories
      /\ LocalFiles' = LocalFiles /\ Existing' = Existing /\ Parents' = Parents
      /\ localTree' = localTree /\ originalTree' = originalTree
      /\ filter' = filter /\ deleteExtraneous' = deleteExtraneous
      /\ (IsTree(localTree)' <=> IsTree(localTree))
      /\ (IsTree(originalTree)' <=> IsTree(originalTree))
      /\ \A q, entryKind : included(q, entryKind)' <=> included(q, entryKind)
      /\ \A q, entryKind : excluded(q, entryKind)' <=> excluded(q, entryKind)
      /\ \A q, entryKind : Lost(q, entryKind)' <=> Lost(q, entryKind)
      /\ \A q : Replaced(q)' <=> Replaced(q)
  BY <1>0, OptionsStay
<1>2. /\ remoteEntries' = remoteEntries /\ remoteTemporaries' = remoteTemporaries
      /\ remoteMap' = remoteMap
      /\ \A n : EntriesOf(n)' = EntriesOf(n)
      /\ (IsTree(remoteEntries)' <=> IsTree(remoteEntries))
  BY <1>0, ListsStay
<1>3. /\ sync = "running" /\ steps = <<>> /\ entries = {} /\ loop < 5
  BY DEF NextLoop
<1>4. loop \in 1..4 /\ loop' = loop + 1 /\ loop' \in 2..5 /\ entries' = EntriesOf(loop') /\ Pending = {}
  <2>1. loop \in 1..5
    BY DEF SyncTypes
  <2>2. loop < 5 /\ loop' = loop + 1
    BY DEF NextLoop
  <2>3. loop \in 1..4
    BY <2>1, <2>2
  <2>4. loop' \in 2..5
    BY <2>1, <2>2
  <2>5. Pending = {}
    BY <1>3 DEF Pending
  <2>6. entries' = EntriesOf(loop')
    BY DEF NextLoop
  <2> QED BY <2>2, <2>3, <2>4, <2>5, <2>6
<1>5. loop' # 4 => steps' = <<>>
  BY DEF NextLoop
<1>6. loop' = 4 /\ steps' = <<>> => ~deleteExtraneous
  BY RequestsAre DEF NextLoop
<1>7. steps' \in {<<>>, <<"remove temporaries">>}
  BY DEF NextLoop
<1>8. /\ loop' = 2 => Pending' = LocalFiles
      /\ loop' = 3 => Pending' = EntriesOf(3)
      /\ loop' = 5 => Pending' = EntriesOf(5)
  BY <1>4, <1>5, EntriesAre DEF Pending
<1>9. SyncTypes'
  <2>1. entries' \subseteq EntriesOf(loop)'
    BY <1>2, <1>4
  <2> QED BY <1>0, <1>1, <1>2, <1>4, <2>1 DEF SyncTypes
<1>10. TreesAreTrees'
  <2>1. IsTree(remoteTree)' <=> IsTree(remoteTree)
    BY <1>0 DEF IsTree
  <2> QED BY <1>0, <1>1, <1>2, <2>1 DEF TreesAreTrees
<1>11. StepsInOrder'
  <2>1. sync' = "running" /\ loop' # 1
    BY <1>0, <1>3, <1>4
  <2>2. loop' \in {2, 3, 5} => steps' = <<>>
    BY <1>5
  <2>3. loop' # 4 => steps' = <<>>
    BY <1>5
  <2>4. steps' # <<>> => Head(steps') # "remove"
    BY <1>7, RequestsAre
  <2>5. <<>> # <<"rename">>
    BY RequestsAre
  <2> QED BY <1>7, <2>1, <2>2, <2>3, <2>4, <2>5 DEF StepsInOrder
<1>12. LocalIsMade'
  <2>1. \A q \in LocalDirectories : remoteTree[q] = "dir"
    BY <1>3, <1>4 DEF LocalIsMade, SyncUnderway
  <2>2. \A q \in LocalFiles : /\ loop = 1 => remoteTree[q] = remoteEntries[q]
                              /\ loop >= 2 => remoteTree[q] = "new"
    BY <1>3, <1>4 DEF LocalIsMade, SyncUnderway
  <2>3. loop' = 2 => Pending' = LocalFiles
    BY <1>8
  <2> QED BY <1>0, <1>1, <1>2, <1>3, <1>4, <2>1, <2>2, <2>3 DEF LocalIsMade
<1>13. OthersAreLeft'
  <2>1. \A q \in EntriesOf(3) : loop >= 3 => remoteTree[q] = "none"
    BY <1>3, <1>4 DEF OthersAreLeft, SyncUnderway
  <2>2. \A q \in EntriesOf(3) : loop' > 3 \/ (loop' = 3 /\ q \notin Pending') => remoteTree[q] = "none"
    BY <1>4, <1>8, <2>1
  <2>3. \A q \in EntriesOf(5) : loop' = 5 /\ q \notin Pending' => remoteTree[q] = "none"
    BY <1>8
  <2> QED BY <1>0, <1>1, <1>2, <1>3, <2>2, <2>3 DEF OthersAreLeft, SyncUnderway
<1>14. RestIsKept'
  BY <1>0, <1>1, <1>2 DEF RestIsKept
<1>15. TemporariesPass'
  <2>1. \A t \in temporaries : t[2] # syncCalls /\ t \in remoteTemporaries
    BY <1>3, RequestsAre DEF TemporariesPass, SyncUnderway
  <2>2. loop = 4 /\ deleteExtraneous => \A t \in temporaries : ~included(t[1], "temporary")
    BY <1>3, <2>1 DEF TemporariesPass, SyncUnderway
  <2>3. \A t \in remoteTemporaries :
          /\ t[2] < syncCalls
          /\ excluded(t[1], "temporary") => t \in temporaries \/ Replaced(t[1])
    BY <1>3 DEF TemporariesPass, SyncUnderway
  <2>4. loop' = 5 => loop = 4
    BY <1>4
  <2> QED BY <1>0, <1>1, <1>2, <1>4, <1>6, <2>1, <2>2, <2>3, <2>4 DEF TemporariesPass
<1> QED BY <1>9, <1>10, <1>11, <1>12, <1>13, <1>14, <1>15

(* A call that fails leaves what its requests have done.                    *)
LEMMA RequestFailsKeeps == ASSUME Synchronizing, NamesAreApart, RequestFails PROVE Synchronizing'
<1> USE DEF Synchronizing
<1>0. /\ UNCHANGED options /\ UNCHANGED lists /\ UNCHANGED syncCalls
      /\ sync' = "rejected" /\ entries' = {} /\ steps' = <<>> /\ loop' = 1 /\ steps # <<>>
  BY DEF RequestFails
<1>1. /\ localTree' = localTree /\ originalTree' = originalTree /\ Existing' = Existing
      /\ filter' = filter /\ deleteExtraneous' = deleteExtraneous
      /\ (IsTree(localTree)' <=> IsTree(localTree))
      /\ (IsTree(originalTree)' <=> IsTree(originalTree))
      /\ \A q, entryKind : included(q, entryKind)' <=> included(q, entryKind)
      /\ \A q, entryKind : Lost(q, entryKind)' <=> Lost(q, entryKind)
  BY <1>0, OptionsStay
<1>2. /\ remoteEntries' = remoteEntries /\ remoteTemporaries' = remoteTemporaries
      /\ (IsTree(remoteEntries)' <=> IsTree(remoteEntries))
  BY <1>0, ListsStay
<1>3. Changes \/ UNCHANGED <<remoteTree, temporaries>>
  BY FailureIs
<1>4. /\ TreesAreTrees' /\ RestIsKept'
      /\ remoteTree' \in [Path -> {"none", "dir", "old", "new"}]
      /\ temporaries' \subseteq Path \X (0..syncCalls)
  <2>1. CASE Changes
    BY <1>0, <2>1, ChangesKeepTrees, ChangesKeepRest
  <2>2. CASE UNCHANGED <<remoteTree, temporaries>>
    <3>1. IsTree(remoteTree)' <=> IsTree(remoteTree)
      BY <2>2 DEF IsTree
    <3>2. TreesAreTrees'
      BY <1>1, <1>2, <2>2, <3>1 DEF TreesAreTrees
    <3>3. RestIsKept'
      BY <1>1, <1>2, <2>2 DEF RestIsKept
    <3> QED BY <2>2, <3>2, <3>3 DEF SyncTypes
  <2> QED BY <1>3, <2>1, <2>2
<1>5. SyncTypes'
  BY <1>0, <1>1, <1>2, <1>4 DEF SyncTypes
<1>6. Pending' = {}
  BY <1>0 DEF Pending
<1>7. StepsInOrder'
  <2>1. <<>> # <<"rename">>
    BY RequestsAre
  <2> QED BY <1>0, <1>6, <2>1 DEF StepsInOrder
<1>8. LocalIsMade' /\ TemporariesPass' /\ OthersAreLeft'
  BY <1>0 DEF LocalIsMade, TemporariesPass, OthersAreLeft, SyncUnderway
<1> QED BY <1>4, <1>5, <1>7, <1>8

(* A call that ends has nothing left to settle.                             *)
LEMMA SyncEndsKeeps == ASSUME Synchronizing, NamesAreApart, SyncEnds PROVE Synchronizing'
<1> USE DEF Synchronizing
<1>0. /\ UNCHANGED options /\ UNCHANGED lists
      /\ UNCHANGED <<remoteTree, temporaries, loop, entries, entry, steps, syncCalls>>
  BY DEF SyncEnds, progress
<1>1. /\ localManifest' = localManifest /\ LocalDirectories' = LocalDirectories
      /\ LocalFiles' = LocalFiles /\ Existing' = Existing /\ Parents' = Parents
      /\ localTree' = localTree /\ originalTree' = originalTree
      /\ filter' = filter /\ deleteExtraneous' = deleteExtraneous
      /\ (IsTree(localTree)' <=> IsTree(localTree))
      /\ (IsTree(originalTree)' <=> IsTree(originalTree))
      /\ \A q, entryKind : included(q, entryKind)' <=> included(q, entryKind)
      /\ \A q, entryKind : excluded(q, entryKind)' <=> excluded(q, entryKind)
      /\ \A q, entryKind : Lost(q, entryKind)' <=> Lost(q, entryKind)
      /\ \A q : Replaced(q)' <=> Replaced(q)
  BY <1>0, OptionsStay
<1>2. /\ remoteEntries' = remoteEntries /\ remoteTemporaries' = remoteTemporaries
      /\ remoteMap' = remoteMap
      /\ \A n : EntriesOf(n)' = EntriesOf(n)
      /\ (IsTree(remoteEntries)' <=> IsTree(remoteEntries))
  BY <1>0, ListsStay
<1>3. sync = "running" /\ sync' = "done" /\ steps = <<>> /\ entries = {} /\ loop = 5
  BY DEF SyncEnds
<1>4. Pending' = Pending
  BY <1>0 DEF Pending
<1>5. SyncTypes'
  BY <1>0, <1>1, <1>2, <1>3 DEF SyncTypes
<1>6. TreesAreTrees'
  <2>1. IsTree(remoteTree)' <=> IsTree(remoteTree)
    BY <1>0 DEF IsTree
  <2> QED BY <1>0, <1>1, <1>2, <2>1 DEF TreesAreTrees
<1>7. StepsInOrder'
  BY <1>0, <1>2, <1>3 DEF StepsInOrder
<1>8. LocalIsMade'
  BY <1>0, <1>1, <1>2, <1>3, <1>4 DEF LocalIsMade, SyncUnderway
<1>9. OthersAreLeft'
  BY <1>0, <1>1, <1>2, <1>3, <1>4 DEF OthersAreLeft, SyncUnderway
<1>10. RestIsKept'
  BY <1>0, <1>1, <1>2 DEF RestIsKept
<1>11. TemporariesPass'
  BY <1>0, <1>1, <1>2, <1>3 DEF TemporariesPass, SyncUnderway
<1> QED BY <1>5, <1>6, <1>7, <1>8, <1>9, <1>10, <1>11

(* A step that changes nothing keeps everything.                            *)
LEMMA NothingKeeps == ASSUME Synchronizing, UNCHANGED syncVars PROVE Synchronizing'
<1> USE DEF Synchronizing
<1>0. /\ UNCHANGED options /\ UNCHANGED lists
      /\ UNCHANGED <<remoteTree, temporaries, sync, loop, entries, entry, steps, syncCalls>>
  BY DEF syncVars, progress
<1>1. /\ localManifest' = localManifest /\ LocalDirectories' = LocalDirectories
      /\ LocalFiles' = LocalFiles /\ Existing' = Existing /\ Parents' = Parents
      /\ localTree' = localTree /\ originalTree' = originalTree
      /\ filter' = filter /\ deleteExtraneous' = deleteExtraneous
      /\ (IsTree(localTree)' <=> IsTree(localTree))
      /\ (IsTree(originalTree)' <=> IsTree(originalTree))
      /\ \A q, entryKind : included(q, entryKind)' <=> included(q, entryKind)
      /\ \A q, entryKind : excluded(q, entryKind)' <=> excluded(q, entryKind)
      /\ \A q, entryKind : Lost(q, entryKind)' <=> Lost(q, entryKind)
      /\ \A q : Replaced(q)' <=> Replaced(q)
  BY <1>0, OptionsStay
<1>2. /\ remoteEntries' = remoteEntries /\ remoteTemporaries' = remoteTemporaries
      /\ remoteMap' = remoteMap
      /\ \A n : EntriesOf(n)' = EntriesOf(n)
      /\ (IsTree(remoteEntries)' <=> IsTree(remoteEntries))
  BY <1>0, ListsStay
<1>3. Pending' = Pending /\ (SyncUnderway' <=> SyncUnderway)
  BY <1>0 DEF Pending, SyncUnderway
<1>4. SyncTypes'
  BY <1>0, <1>1, <1>2 DEF SyncTypes
<1>5. TreesAreTrees'
  <2>1. IsTree(remoteTree)' <=> IsTree(remoteTree)
    BY <1>0 DEF IsTree
  <2> QED BY <1>0, <1>1, <1>2, <2>1 DEF TreesAreTrees
<1>6. StepsInOrder'
  BY <1>0, <1>1, <1>2, <1>3 DEF StepsInOrder
<1>7. LocalIsMade'
  BY <1>0, <1>1, <1>2, <1>3 DEF LocalIsMade
<1>8. OthersAreLeft'
  BY <1>0, <1>1, <1>2, <1>3 DEF OthersAreLeft
<1>9. RestIsKept'
  BY <1>0, <1>1, <1>2 DEF RestIsKept
<1>10. TemporariesPass'
  BY <1>0, <1>1, <1>2, <1>3 DEF TemporariesPass
<1> QED BY <1>4, <1>5, <1>6, <1>7, <1>8, <1>9, <1>10

(* A request settles its entry, and leaves what is settled or still to come. *)
LEMMA RequestLeaves ==
  ASSUME Synchronizing, NamesAreApart, RequestIsMade
  PROVE  /\ UNCHANGED options /\ UNCHANGED lists
         /\ UNCHANGED <<loop, entries, entry, sync, syncCalls>>
         /\ localManifest' = localManifest /\ LocalDirectories' = LocalDirectories
         /\ LocalFiles' = LocalFiles /\ Existing' = Existing /\ Parents' = Parents
         /\ localTree' = localTree /\ originalTree' = originalTree
         /\ filter' = filter /\ deleteExtraneous' = deleteExtraneous
         /\ \A q, entryKind : included(q, entryKind)' <=> included(q, entryKind)
         /\ \A q, entryKind : excluded(q, entryKind)' <=> excluded(q, entryKind)
         /\ \A q : Replaced(q)' <=> Replaced(q)
         /\ remoteEntries' = remoteEntries /\ remoteTemporaries' = remoteTemporaries
         /\ remoteMap' = remoteMap
         /\ \A n : EntriesOf(n)' = EntriesOf(n)
         /\ sync = "running" /\ SyncUnderway /\ SyncUnderway' /\ steps # <<>> /\ loop \in 1..5
         /\ steps' = <<>> => Pending' = entries
         /\ steps' # <<>> => Pending' = Pending
         /\ Pending = entries \cup {entry}
<1>1. /\ UNCHANGED options /\ UNCHANGED lists
      /\ UNCHANGED <<loop, entries, entry, sync, syncCalls>>
      /\ sync = "running" /\ steps # <<>>
  BY DEF RequestIsMade
<1>2. loop \in 1..5 /\ SyncUnderway /\ SyncUnderway'
  BY <1>1 DEF Synchronizing, SyncTypes, SyncUnderway
<1>3. /\ steps' = <<>> => Pending' = entries
      /\ steps' # <<>> => Pending' = Pending
      /\ Pending = entries \cup {entry}
  BY <1>1 DEF Pending
<1>4. /\ remoteEntries' = remoteEntries /\ remoteTemporaries' = remoteTemporaries
      /\ remoteMap' = remoteMap /\ \A n : EntriesOf(n)' = EntriesOf(n)
  BY <1>1, ListsStay
<1> QED BY <1>1, <1>2, <1>3, <1>4, OptionsStay

(* What a request changes, and what is requested next.                      *)
LEMMA RequestMade ==
  ASSUME Synchronizing, NamesAreApart, RequestIsMade
  PROVE  /\ \/ /\ Removes /\ remoteTree'[entry] = "none" /\ steps # <<"rename">>
               /\ loop = 1 => steps' = <<"mkdir">> /\ steps' # <<>>
               /\ loop = 2 => steps' = <<"write", "rename">> /\ steps' # <<>>
                              /\ steps' # <<"rename">>
               /\ loop \in {3, 5} => steps' = <<>>
            \/ DirectoryIsMade /\ steps' = <<>>
            \/ /\ TemporaryIsWritten /\ steps # <<"rename">>
               /\ steps' = <<"rename">> /\ steps' # <<>>
            \/ TemporaryIsRenamed /\ steps' = <<>>
            \/ /\ TemporariesGo /\ steps' = <<>>
               /\ temporaries' = temporaries \ extraneousTemporaries
         /\ Changes
<1>1. SyncTypes /\ TreesAreTrees /\ StepsInOrder
  BY DEF Synchronizing
<1>2. steps # <<>> /\ steps' = Tail(steps) /\ CarryOut(Head(steps))
  BY DEF RequestIsMade
<1>3. \/ Removes /\ remoteTree'[entry] = "none"
      \/ DirectoryIsMade \/ TemporaryIsWritten \/ TemporaryIsRenamed
      \/ TemporariesGo /\ temporaries' = temporaries \ extraneousTemporaries
  BY <1>1, <1>2, RequestIs
<1>4. CASE Removes
  <2>1. Head(steps) = "remove"
    BY <1>4 DEF Removes
  <2>2. steps # <<"rename">>
    BY <2>1, RequestsAre
  <2>3. loop = 1 => steps = <<"remove", "mkdir">>
    BY <1>1, <1>2, <2>1, RequestsAre DEF StepsInOrder
  <2>4. loop = 2 => steps = <<"remove", "write", "rename">>
    BY <1>1, <1>2, <2>1, RequestsAre DEF StepsInOrder
  <2>5. loop \in {3, 5} => steps = <<"remove">>
    BY <1>1, <1>2 DEF StepsInOrder
  <2> HIDE DEF Removes
  <2>6. CASE remoteTree'[entry] = "none"
    BY <1>2, <1>4, <2>2, <2>3, <2>4, <2>5, <2>6, RequestsAre DEF Changes
  <2>7. CASE remoteTree'[entry] # "none"
    <3>1. Head(steps) \notin {"mkdir", "write", "rename", "remove temporaries"}
      BY <2>1
    <3> QED BY <1>3, <2>7, <3>1, RequestsAre DEF DirectoryIsMade, TemporaryIsWritten,
            TemporaryIsRenamed, TemporariesGo
  <2> QED BY <2>6, <2>7
<1>5. CASE DirectoryIsMade
  BY <1>2, <1>5, RequestsAre DEF DirectoryIsMade, Changes
<1>6. CASE TemporaryIsWritten
  BY <1>2, <1>6, RequestsAre DEF TemporaryIsWritten, Changes
<1>7. CASE TemporaryIsRenamed
  BY <1>2, <1>7, RequestsAre DEF TemporaryIsRenamed, Changes
<1>8. CASE TemporariesGo /\ temporaries' = temporaries \ extraneousTemporaries
  BY <1>2, <1>8, RequestsAre DEF TemporariesGo, Changes
<1> QED BY <1>3, <1>4, <1>5, <1>6, <1>7, <1>8

(* The trees stay trees, and what is not included is kept.                  *)
LEMMA RequestKeepsTrees ==
  ASSUME Synchronizing, NamesAreApart, RequestIsMade
  PROVE  SyncTypes' /\ TreesAreTrees' /\ RestIsKept'
<1>1. SyncTypes /\ TreesAreTrees /\ StepsInOrder /\ RestIsKept
  BY DEF Synchronizing
<1>2. Changes /\ UNCHANGED options /\ UNCHANGED lists /\ steps # <<>>
  BY RequestLeaves, RequestMade
<1>3. /\ TreesAreTrees'
      /\ remoteTree' \in [Path -> {"none", "dir", "old", "new"}]
      /\ temporaries' \subseteq Path \X (0..syncCalls)
  BY <1>1, <1>2, ChangesKeepTrees
<1>4. RestIsKept'
  BY <1>1, <1>2, ChangesKeepRest
<1>5. SyncTypes'
  BY <1>1, <1>3, RequestLeaves DEF SyncTypes
<1> QED BY <1>3, <1>4, <1>5

(* The requests of an entry follow each other.                              *)
LEMMA RequestKeepsSteps ==
  ASSUME Synchronizing, NamesAreApart, RequestIsMade PROVE StepsInOrder'
<1>0. SyncTypes /\ TreesAreTrees /\ StepsInOrder
  BY DEF Synchronizing
<1>1. loop # 4 => entry \in EntriesOf(loop) \ entries
  BY <1>0, RequestLeaves DEF StepsInOrder
<1>2. /\ loop = 1 => steps' \in {<<>>, <<"mkdir">>}
      /\ loop = 2 => steps' \in {<<>>, <<"rename">>, <<"write", "rename">>}
      /\ loop \in {3, 4, 5} => steps' = <<>>
  <2>1. CASE /\ Removes
             /\ loop = 1 => steps' = <<"mkdir">>
             /\ loop = 2 => steps' = <<"write", "rename">>
             /\ loop \in {3, 5} => steps' = <<>>
    <3>1. loop # 4
      BY <2>1 DEF Removes
    <3> QED BY <2>1, <3>1
  <2>2. CASE DirectoryIsMade /\ steps' = <<>>
    BY <2>2 DEF DirectoryIsMade
  <2>3. CASE TemporaryIsWritten /\ steps' = <<"rename">>
    BY <2>3 DEF TemporaryIsWritten
  <2>4. CASE TemporaryIsRenamed /\ steps' = <<>>
    BY <2>4 DEF TemporaryIsRenamed
  <2>5. CASE TemporariesGo /\ steps' = <<>>
    BY <2>5 DEF TemporariesGo
  <2> QED BY <2>1, <2>2, <2>3, <2>4, <2>5, RequestMade
<1>3. steps' # <<>> => Head(steps') # "remove"
  BY <1>2, RequestLeaves, RequestsAre
<1>4. loop = 1 /\ entry \in remoteMap => remoteEntries[entry] # "dir"
  BY <1>0, RequestLeaves DEF StepsInOrder
<1>5. loop = 1 => \A p \in LocalDirectories \ entries, q \in Pending' : Len(p) <= Len(q)
  BY <1>0, RequestLeaves DEF StepsInOrder
<1>6. loop = 2 /\ steps' = <<"rename">> => \A q \in Above(entry) : remoteTree'[q] = "dir"
  <2>1. SUFFICES ASSUME loop = 2, steps' = <<"rename">>, NEW q \in Above(entry)
                 PROVE  remoteTree'[q] = "dir"
    OBVIOUS
  <2>2. TemporaryIsWritten
    BY <2>1, RequestMade, RequestsAre DEF DirectoryIsMade, TemporariesGo, Removes
  <2>3. entry \in Path
    BY <1>0, <2>1, RequestLeaves, EntryIs
  <2>4. q \in Path /\ q # entry
    BY <2>3, AboveIsALine
  <2> QED BY <2>2, <2>4 DEF TemporaryIsWritten, Puts
<1> QED BY <1>1, <1>2, <1>3, <1>4, <1>5, <1>6, RequestLeaves DEF StepsInOrder

(* Local directories and files are made, and stay.                          *)
LEMMA RequestKeepsLocal ==
  ASSUME Synchronizing, NamesAreApart, RequestIsMade PROVE LocalIsMade'
<1>0. SyncTypes /\ TreesAreTrees /\ StepsInOrder /\ LocalIsMade
  BY DEF Synchronizing
<1>1. \A p \in LocalDirectories :
        IF loop = 1 /\ p \in Pending THEN remoteEntries[p] = "dir" => remoteTree[p] = "dir"
        ELSE remoteTree[p] = "dir"
  BY <1>0, RequestLeaves DEF LocalIsMade
<1>2. \A p \in LocalFiles :
        /\ loop = 1 \/ (loop = 2 /\ p \in entries) => remoteTree[p] = remoteEntries[p]
        /\ loop > 2 \/ (loop = 2 /\ p \notin Pending) => remoteTree[p] = "new"
  BY <1>0, RequestLeaves DEF LocalIsMade
<1>3. /\ \A p \in LocalDirectories \cup LocalFiles :
           /\ p \in Path /\ p \in localManifest
           /\ \A q \in Above(p) : q \notin LocalFiles
           /\ p \in LocalDirectories <=> p \notin LocalFiles
      /\ localManifest = LocalDirectories \cup LocalFiles
  BY <1>0, ManifestIs DEF TreesAreTrees, LocalDirectories, LocalFiles
<1>4. loop # 4 =>
        /\ entry \in Path /\ entry \notin entries
        /\ loop = 1 => entry \in LocalDirectories
        /\ loop = 2 => entry \in LocalFiles
        /\ loop \in {3, 5} => entry \in Extraneous
  BY <1>0, RequestLeaves, EntryIs
<1>5. SUFFICES
        /\ \A p \in LocalDirectories :
             IF loop = 1 /\ p \in Pending' THEN remoteEntries[p] = "dir" => remoteTree'[p] = "dir"
             ELSE remoteTree'[p] = "dir"
        /\ \A p \in LocalFiles :
             /\ loop = 1 \/ (loop = 2 /\ p \in entries) => remoteTree'[p] = remoteEntries[p]
             /\ loop > 2 \/ (loop = 2 /\ p \notin Pending') => remoteTree'[p] = "new"
  BY RequestLeaves DEF LocalIsMade
<1>6. CASE /\ Removes
           /\ loop = 1 => steps' = <<"mkdir">> /\ steps' # <<>>
           /\ loop = 2 => steps' = <<"write", "rename">> /\ steps' # <<>>
  <2>1. /\ loop \in {1, 2, 3, 5} /\ Head(steps) = "remove" /\ entry \in remoteMap
        /\ \A q \in Path : q # entry /\ entry \notin Above(q) => remoteTree'[q] = remoteTree[q]
    BY <1>0, <1>6, RequestLeaves DEF Removes, StepsInOrder
  <2>2. CASE loop = 1
    <3>1. /\ remoteEntries[entry] \notin {"none", "dir"} /\ Pending' = Pending /\ entry \in Pending
      BY <1>0, <1>6, <2>1, <2>2, RequestLeaves DEF StepsInOrder, remoteMap
    <3>2. \A p \in Path : entry \in Above(p) => remoteEntries[p] = "none" /\ remoteTree'[p] \in {"none", remoteTree[p]}
      BY <1>0, <1>6, <3>1 DEF TreesAreTrees, IsTree, Removes
    <3>3. \A p \in LocalDirectories : entry \in Above(p) => p \in Pending
      <4>1. \A p \in LocalDirectories \ entries : Len(p) <= Len(entry)
        BY <1>0, <2>2, <3>1 DEF StepsInOrder
      <4>2. \A p \in Path : entry \in Above(p) => Len(entry) < Len(p) /\ Len(p) \in Nat /\ Len(entry) \in Nat
        BY AboveIsALine
      <4> QED BY <1>3, <4>1, <4>2, RequestLeaves
    <3>4. ASSUME NEW p \in LocalDirectories
          PROVE  IF p \in Pending' THEN remoteEntries[p] = "dir" => remoteTree'[p] = "dir"
                 ELSE remoteTree'[p] = "dir"
      BY <1>1, <1>3, <2>1, <2>2, <3>1, <3>2, <3>3
    <3>5. ASSUME NEW p \in LocalFiles PROVE remoteTree'[p] = remoteEntries[p]
      <4>1. remoteTree[p] = remoteEntries[p] /\ p # entry /\ p \in Path
        BY <1>2, <1>3, <1>4, <2>2
      <4> QED BY <2>1, <3>2, <4>1
    <3> QED BY <2>2, <3>4, <3>5
  <2>3. CASE loop = 2
    <3>1. Pending' = Pending /\ entry \in Pending
      BY <1>6, <2>3, RequestLeaves
    <3>2. \A p \in LocalDirectories \cup LocalFiles : entry \notin Above(p)
      BY <1>3, <1>4, <2>3
    <3>3. \A p \in LocalDirectories \cup LocalFiles : p # entry => remoteTree'[p] = remoteTree[p]
      BY <1>3, <2>1, <3>2
    <3> QED BY <1>1, <1>2, <1>3, <1>4, <2>3, <3>1, <3>3
  <2>4. CASE loop \in {3, 5}
    <3>1. \A p \in localManifest : p # entry /\ entry \notin Above(p)
      BY <1>0, <1>4, <2>4, ExtraneousIs
    <3>2. \A p \in LocalDirectories \cup LocalFiles : remoteTree'[p] = remoteTree[p]
      BY <1>3, <2>1, <3>1
    <3> QED BY <1>1, <1>2, <2>4, <3>2
  <2> QED BY <2>1, <2>2, <2>3, <2>4
<1>7. ASSUME NEW v, Puts(v), loop \in {1, 2}
      PROVE  /\ \A p \in LocalDirectories : p # entry =>
                  remoteTree'[p] = remoteTree[p] \/ remoteTree'[p] = "dir"
             /\ \A p \in LocalFiles : p # entry => remoteTree'[p] = remoteTree[p]
             /\ remoteTree'[entry] = v
  <2>1. entry \in LocalDirectories \cup LocalFiles
    BY <1>4, <1>7
  <2>2. \A p \in LocalFiles : p \notin Above(entry)
    BY <1>3, <2>1
  <2> QED BY <1>3, <1>7, <2>1, <2>2 DEF Puts
<1>8. CASE DirectoryIsMade /\ steps' = <<>>
  <2>1. /\ loop = 1 /\ Pending' = entries /\ Pending = entries \cup {entry} /\ Puts("dir")
    BY <1>8, RequestLeaves DEF DirectoryIsMade
  <2> QED BY <1>1, <1>2, <1>3, <1>4, <1>7, <2>1
<1>9. CASE TemporaryIsWritten /\ steps' # <<>>
  <2>1. loop = 2 /\ Pending' = Pending /\ Puts(remoteTree[entry])
    BY <1>9, RequestLeaves DEF TemporaryIsWritten
  <2> QED BY <1>1, <1>2, <1>3, <1>4, <1>7, <2>1
<1>10. CASE TemporaryIsRenamed /\ steps' = <<>>
  <2>1. loop = 2 /\ Pending' = entries /\ Pending = entries \cup {entry} /\ Puts("new")
    BY <1>10, RequestLeaves DEF TemporaryIsRenamed
  <2> QED BY <1>1, <1>2, <1>3, <1>4, <1>7, <2>1
<1>11. CASE TemporariesGo
  <2>1. loop = 4 /\ remoteTree' = remoteTree
    BY <1>11 DEF TemporariesGo
  <2> QED BY <1>1, <1>2, <2>1
<1> QED BY <1>6, <1>8, <1>9, <1>10, <1>11, RequestMade

(* Only what is extraneous goes, and only directories above are made.       *)
LEMMA RequestKeepsOthers ==
  ASSUME Synchronizing, NamesAreApart, RequestIsMade PROVE OthersAreLeft'
<1>0. SyncTypes /\ TreesAreTrees /\ StepsInOrder /\ OthersAreLeft
  BY DEF Synchronizing
<1>1. /\ \A p \in Path \ (localManifest \cup Parents) : remoteTree[p] \in {remoteEntries[p], "none"}
      /\ \A p \in EntriesOf(3) : loop > 3 \/ (loop = 3 /\ p \notin Pending) => remoteTree[p] = "none"
      /\ \A p \in EntriesOf(5) : loop = 5 /\ p \notin Pending => remoteTree[p] = "none"
  BY <1>0, RequestLeaves DEF OthersAreLeft
<1>2. \A p \in EntriesOf(3) \cup EntriesOf(5) : p \in Path
  BY EntriesAre DEF Extraneous, remoteMap
<1>3. loop # 4 => entry \in Path /\ (loop \in {1, 2} => entry \in localManifest)
  BY <1>0, RequestLeaves, EntryIs
<1>4. SUFFICES
        /\ \A p \in Path \ (localManifest \cup Parents) : remoteTree'[p] \in {remoteEntries[p], "none"}
        /\ \A p \in EntriesOf(3) : loop > 3 \/ (loop = 3 /\ p \notin Pending') => remoteTree'[p] = "none"
        /\ \A p \in EntriesOf(5) : loop = 5 /\ p \notin Pending' => remoteTree'[p] = "none"
  BY RequestLeaves DEF OthersAreLeft
<1>5. CASE Removes /\ remoteTree'[entry] = "none" /\ (loop \in {3, 5} => steps' = <<>>)
  <2>1. /\ \A q \in Path : remoteTree'[q] \in {remoteTree[q], "none"}
        /\ loop \in {1, 2, 3, 5}
    BY <1>5 DEF Removes
  <2>2. loop \in {3, 5} => Pending' = entries /\ Pending = entries \cup {entry}
    BY <1>5, RequestLeaves
  <2> QED BY <1>1, <1>2, <1>5, <2>1, <2>2
<1>6. CASE \E v : Puts(v) /\ loop \in {1, 2}
  <2>1. PICK v : Puts(v) /\ loop \in {1, 2}
    BY <1>6
  <2>2. \A q \in Path \ (localManifest \cup Parents) : q # entry /\ q \notin Above(entry)
    BY <1>3, <2>1 DEF Parents
  <2>3. \A q \in Path \ (localManifest \cup Parents) : remoteTree'[q] = remoteTree[q]
    BY <2>1, <2>2 DEF Puts
  <2> QED BY <1>1, <2>1, <2>3
<1>7. CASE TemporariesGo
  <2>1. loop = 4 /\ remoteTree' = remoteTree
    BY <1>7 DEF TemporariesGo
  <2>2. \A p \in EntriesOf(3) : remoteTree[p] = "none"
    BY <1>1, <2>1
  <2> QED BY <1>1, <2>1, <2>2
<1>8. DirectoryIsMade \/ TemporaryIsWritten \/ TemporaryIsRenamed => \E v : Puts(v) /\ loop \in {1, 2}
  BY DEF DirectoryIsMade, TemporaryIsWritten, TemporaryIsRenamed
<1> QED BY <1>5, <1>6, <1>7, <1>8, RequestMade

(* A temporary file stays only until its rename, an excluded one stays.     *)
LEMMA RequestKeepsTemporaries ==
  ASSUME Synchronizing, NamesAreApart, RequestIsMade PROVE TemporariesPass'
<1>0. SyncTypes /\ TreesAreTrees /\ StepsInOrder
  BY DEF Synchronizing
<1>1. /\ \A t \in temporaries :
           /\ t[2] = syncCalls => loop = 2 /\ steps = <<"rename">> /\ t[1] = entry
           /\ t[2] # syncCalls => t \in remoteTemporaries
           /\ deleteExtraneous /\ included(t[1], "temporary")
                /\ (loop = 5 \/ (loop = 4 /\ steps = <<>>)) => t[2] = syncCalls
      /\ \A t \in remoteTemporaries :
           /\ t[2] < syncCalls
           /\ excluded(t[1], "temporary") => t \in temporaries \/ Replaced(t[1])
  BY RequestLeaves DEF Synchronizing, TemporariesPass
<1>2. /\ \A t \in temporaries : t[2] \in 0..syncCalls /\ t = <<t[1], t[2]>>
      /\ \A t \in remoteTemporaries : t[2] \in Nat /\ t = <<t[1], t[2]>>
      /\ syncCalls \in Nat
  BY <1>0 DEF SyncTypes
<1>3. SUFFICES
        /\ \A t \in temporaries' :
             /\ t[2] = syncCalls => loop = 2 /\ steps' = <<"rename">> /\ t[1] = entry
             /\ t[2] # syncCalls => t \in remoteTemporaries
             /\ deleteExtraneous /\ included(t[1], "temporary")
                  /\ (loop = 5 \/ (loop = 4 /\ steps' = <<>>)) => t[2] = syncCalls
        /\ \A t \in remoteTemporaries :
             excluded(t[1], "temporary") => t \in temporaries' \/ Replaced(t[1])
  BY <1>1, RequestLeaves DEF TemporariesPass
<1>4. CASE Removes /\ steps # <<"rename">>
  <2>1. /\ temporaries' \subseteq temporaries /\ loop # 4
        /\ \A t \in temporaries \ temporaries' : entry \in Above(t[1])
    BY <1>4 DEF Removes
  <2>2. \A t \in remoteTemporaries :
          entry \in Above(t[1]) /\ excluded(t[1], "temporary") => Replaced(t[1])
    BY <1>0, <1>4, RequestLeaves, BelowIs
  <2> QED BY <1>1, <1>4, <2>1, <2>2
<1>5. CASE DirectoryIsMade
  <2>1. loop = 1 /\ temporaries' = temporaries
    BY <1>5 DEF DirectoryIsMade
  <2> QED BY <1>1, <2>1
<1>6. CASE TemporaryIsWritten /\ steps # <<"rename">> /\ steps' = <<"rename">>
  <2>1. loop = 2 /\ temporaries' = temporaries \cup {<<entry, syncCalls>>}
    BY <1>6 DEF TemporaryIsWritten
  <2> QED BY <1>1, <1>6, <2>1
<1>7. CASE TemporaryIsRenamed
  <2>1. loop = 2 /\ temporaries' = temporaries \ {<<entry, syncCalls>>}
    BY <1>7 DEF TemporaryIsRenamed
  <2>2. \A t \in temporaries' : t[2] # syncCalls
    BY <1>1, <1>2, <2>1
  <2>3. \A t \in remoteTemporaries : t[2] # syncCalls
    BY <1>1, <1>2
  <2>4. \A t \in remoteTemporaries : t # <<entry, syncCalls>>
    BY <2>3
  <2> QED BY <1>1, <2>1, <2>2, <2>4
<1>8. CASE TemporariesGo /\ temporaries' = temporaries \ extraneousTemporaries
  <2>1. loop = 4
    BY <1>8 DEF TemporariesGo
  <2>2. \A t \in temporaries : t[2] # syncCalls /\ t \in remoteTemporaries
    BY <1>1, <2>1
  <2>3. \A t \in temporaries' : ~included(t[1], "temporary")
    BY <1>8, <2>2 DEF extraneousTemporaries
  <2>4. \A t \in extraneousTemporaries : ~excluded(t[1], "temporary")
    BY DEF extraneousTemporaries, included
  <2> QED BY <1>1, <1>8, <2>1, <2>2, <2>3, <2>4
<1> QED BY <1>4, <1>5, <1>6, <1>7, <1>8, RequestMade

-----------------------------------------------------------------------------
(* What the invariant means when a call is done.                            *)

(* Below what is not local no local file has taken the place of a directory. *)
LEMMA NothingIsReplaced ==
  ASSUME Synchronizing, sync = "done", NEW p \in Path, p \notin localManifest, p \notin Parents,
         remoteTree[p] # "none", NEW q \in Path, p \in Above(q)
  PROVE  ~Replaced(q)
<1>0. SyncTypes /\ TreesAreTrees /\ StepsInOrder /\ LocalIsMade
  BY DEF Synchronizing
<1>1. SUFFICES ASSUME NEW r \in Above(q), r \in localManifest, localTree[r] = "new" PROVE FALSE
  BY DEF Replaced
<1>2. remoteTree[r] = "new" /\ r \in Path
  BY <1>0, <1>1 DEF LocalIsMade, LocalFiles, SyncUnderway, StepsInOrder, Above
<1>3. r # p /\ p \notin Above(r)
  BY <1>1 DEF Parents
<1>4. r \in Above(p)
  BY <1>1, <1>3, AboveIsALine
<1> QED BY <1>0, <1>2, <1>4 DEF TreesAreTrees, IsTree

LEMMA SynchronizingIsMirror ==
  ASSUME Synchronizing, NamesAreApart PROVE Synchronized /\ OthersAreKept
<1>0. /\ SyncTypes /\ TreesAreTrees /\ StepsInOrder /\ LocalIsMade /\ OthersAreLeft
      /\ RestIsKept /\ TemporariesPass
  BY DEF Synchronizing
<1>1. OthersAreKept
  <2>1. SUFFICES ASSUME NEW p \in Path, NEW v \in {"dir", "old", "new"},
                        originalTree[p] = v, ~included(p, KindOf(v)), ~Lost(p, KindOf(v))
                 PROVE  remoteTree[p] = v
    BY <1>0 DEF OthersAreKept, Lost, SyncTypes
  <2>2. remoteEntries[p] = v
    BY <1>0, <2>1 DEF RestIsKept
  <2> QED BY <1>0, <2>1, <2>2 DEF RestIsKept
<1>2. ASSUME sync = "done"
      PROVE  /\ \A p \in localManifest : remoteTree[p] = localTree[p]
             /\ deleteExtraneous => \A t \in temporaries : ~included(t[1], "temporary")
             /\ deleteExtraneous => \A p \in Path \ localManifest :
                  remoteTree[p] # "none" /\ included(p, KindOf(remoteTree[p])) =>
                    hasExcludedDescendant(remoteTree, temporaries, p)
  <2>1. loop = 5 /\ entries = {} /\ steps = <<>> /\ Pending = {} /\ SyncUnderway
    BY <1>0, <1>2 DEF StepsInOrder, Pending, SyncUnderway
  <2>2. ASSUME NEW p \in localManifest PROVE remoteTree[p] = localTree[p]
    <3>1. localTree[p] \in {"dir", "new"}
      BY <1>0, ManifestIs DEF TreesAreTrees
    <3> QED BY <1>0, <2>1, <3>1 DEF LocalIsMade, LocalDirectories, LocalFiles
  <2>3. deleteExtraneous => \A t \in temporaries : ~included(t[1], "temporary")
    BY <1>0, <2>1 DEF TemporariesPass
  <2>4. ASSUME NEW p \in Path \ localManifest, deleteExtraneous,
               remoteTree[p] # "none", included(p, KindOf(remoteTree[p]))
        PROVE  hasExcludedDescendant(remoteTree, temporaries, p)
    <3>1. p \notin Parents
      BY <1>0, <2>4, ParentIs DEF TreesAreTrees, KindOf
    <3>2. remoteTree[p] = remoteEntries[p]
      BY <1>0, <2>1, <2>4, <3>1 DEF OthersAreLeft
    <3>3. p \in Extraneous
      BY <2>4, <3>2 DEF Extraneous, remoteMap
    <3>4. p \notin EntriesOf(3) /\ p \notin EntriesOf(5)
      BY <1>0, <2>1, <2>4 DEF OthersAreLeft
    <3>5. hasExcludedDescendant(remoteEntries, remoteTemporaries, p)
      BY <3>3, <3>4, EntriesAre
    <3>6. CASE \E q \in Path : /\ remoteEntries[q] # "none"
                               /\ excluded(q, KindOf(remoteEntries[q])) /\ p \in Above(q)
      <4>1. PICK q \in Path : /\ remoteEntries[q] # "none"
                              /\ excluded(q, KindOf(remoteEntries[q])) /\ p \in Above(q)
        BY <3>6
      <4>2. ~Replaced(q)
        BY <1>2, <2>4, <3>1, <4>1, NothingIsReplaced
      <4>3. remoteEntries[q] \in {"dir", "old", "new"}
        BY <1>0, <4>1 DEF SyncTypes
      <4>4. remoteTree[q] = remoteEntries[q]
        BY <1>0, <4>1, <4>2, <4>3 DEF RestIsKept, Lost, included
      <4> QED BY <4>1, <4>4 DEF hasExcludedDescendant
    <3>7. CASE \E t \in remoteTemporaries : excluded(t[1], "temporary") /\ p \in Above(t[1])
      <4>1. PICK t \in remoteTemporaries : excluded(t[1], "temporary") /\ p \in Above(t[1])
        BY <3>7
      <4>2. t[1] \in Path
        BY <1>0 DEF SyncTypes
      <4>3. ~Replaced(t[1])
        BY <1>2, <2>4, <3>1, <4>1, <4>2, NothingIsReplaced
      <4>4. t \in temporaries
        BY <1>0, <2>1, <4>1, <4>3 DEF TemporariesPass
      <4> QED BY <4>1, <4>4 DEF hasExcludedDescendant
    <3> QED BY <3>5, <3>6, <3>7 DEF hasExcludedDescendant
  <2> QED BY <2>2, <2>3, <2>4
<1>3. Synchronized
  BY <1>2 DEF Synchronized
<1> QED BY <1>1, <1>3

(* MirrorIsExact, for all trees, filters and numbers of calls.              *)
THEOREM MirrorIsAlwaysExact == SyncSpec => []MirrorIsExact
<1>1. SyncInit => SyncInvariant
  BY SyncStarts DEF SyncInvariant
<1>2. SyncInvariant /\ [SyncNext]_syncVars => SyncInvariant'
  <2> SUFFICES ASSUME SyncInvariant, [SyncNext]_syncVars, NamesAreApart'
               PROVE  Synchronizing'
    BY DEF SyncInvariant, Synchronizing
  <2>1. UNCHANGED options
    BY DEF SyncNext, syncVars, SyncDirectory, NextEntry, NextLoop, RequestIsMade, RequestFails,
       SyncEnds
  <2>2. NamesAreApart /\ Synchronizing
    BY <2>1, OptionsStay DEF SyncInvariant, Synchronizing
  <2>3. CASE SyncDirectory
    BY <2>2, <2>3, SyncDirectoryKeeps
  <2>4. CASE NextLoop
    BY <2>2, <2>4, NextLoopKeeps
  <2>5. CASE RequestIsMade
    BY <2>2, <2>5, RequestKeepsTrees, RequestKeepsSteps, RequestKeepsLocal, RequestKeepsOthers,
       RequestKeepsTemporaries DEF Synchronizing
  <2>6. CASE RequestFails
    BY <2>2, <2>6, RequestFailsKeeps
  <2>7. CASE SyncEnds
    BY <2>2, <2>7, SyncEndsKeeps
  <2>8. ASSUME NEW p \in Path, NextEntry(p) PROVE Synchronizing'
    BY <2>2, <2>8, NextEntryKeeps
  <2>9. CASE UNCHANGED syncVars
    BY <2>2, <2>9, NothingKeeps
  <2> QED BY <2>3, <2>4, <2>5, <2>6, <2>7, <2>8, <2>9 DEF SyncNext
<1>3. SyncInvariant => MirrorIsExact
  BY SynchronizingIsMirror DEF SyncInvariant, Synchronizing, MirrorIsExact
<1> QED BY <1>1, <1>2, <1>3, PTL DEF SyncSpec

-----------------------------------------------------------------------------
(* Binary transfers.  The frames on their way, decoded, buffered or on the   *)
(* wire, lie one behind the other; the numbers of their messages, and for a  *)
(* faultless sender the sequences of every transfer's chunks, are those from *)
(* what has been accepted to what has been sent.                             *)

(* A counter runs through the first m entries of V: those that are not -1    *)
(* are a .. b - 1, in this order.                                            *)
Counted(V, m, a, b) ==
  /\ a <= b
  /\ \A k \in 1..m : V[k] # -1 => a <= V[k] /\ V[k] < b
  /\ \A j, k \in 1..m : j < k /\ V[j] # -1 /\ V[k] # -1 => V[j] < V[k]
  /\ \A n \in a..(b - 1) : \E k \in 1..m : V[k] = n

(* One more entry: the next number, or none.                                 *)
LEMMA CountedAppend ==
  ASSUME NEW m \in Nat, NEW V, NEW W, NEW a \in Nat, NEW b \in Nat, NEW c \in Nat,
         \A k \in 1..m : W[k] = V[k] /\ V[k] \in Int,
         (W[m + 1] = b /\ c = b + 1) \/ (W[m + 1] = -1 /\ c = b),
         Counted(V, m, a, b)
  PROVE  Counted(W, m + 1, a, c)
<1>1. /\ a <= b
      /\ \A k \in 1..m : V[k] # -1 => a <= V[k] /\ V[k] < b
      /\ \A j, k \in 1..m : j < k /\ V[j] # -1 /\ V[k] # -1 => V[j] < V[k]
      /\ \A n \in a..(b - 1) : \E k \in 1..m : V[k] = n
  BY DEF Counted
<1>2. a <= c /\ \A k \in 1..(m + 1) : W[k] # -1 => a <= W[k] /\ W[k] < c
  BY <1>1
<1>3. \A j, k \in 1..(m + 1) : j < k /\ W[j] # -1 /\ W[k] # -1 => W[j] < W[k]
  BY <1>1
<1>4. \A n \in a..(c - 1) : \E k \in 1..(m + 1) : W[k] = n
  <2>1. ASSUME NEW n \in a..(c - 1), n < b
        PROVE  \E k \in 1..(m + 1) : W[k] = n
    <3>1. PICK k \in 1..m : V[k] = n
      BY <1>1, <2>1
    <3> QED BY <3>1
  <2>2. ASSUME NEW n \in a..(c - 1), ~ n < b
        PROVE  \E k \in 1..(m + 1) : W[k] = n
    <3>1. n = W[m + 1] /\ m + 1 \in 1..(m + 1)
      BY <2>2
    <3> QED BY <3>1
  <2> QED BY <2>1, <2>2
<1> QED BY <1>2, <1>3, <1>4 DEF Counted

(* One entry less: it was the first number left, or none.                    *)
LEMMA CountedTail ==
  ASSUME NEW m \in Nat \ {0}, NEW V, NEW W, NEW a \in Nat, NEW b \in Nat,
         \A k \in 1..m : V[k] \in Int, \A k \in 1..(m - 1) : W[k] = V[k + 1],
         Counted(V, m, a, b)
  PROVE  /\ V[1] = -1 => Counted(W, m - 1, a, b)
         /\ V[1] # -1 => V[1] = a /\ a < b /\ Counted(W, m - 1, a + 1, b)
<1>1. /\ a <= b
      /\ \A k \in 1..m : V[k] # -1 => a <= V[k] /\ V[k] < b
      /\ \A j, k \in 1..m : j < k /\ V[j] # -1 /\ V[k] # -1 => V[j] < V[k]
      /\ \A n \in a..(b - 1) : \E k \in 1..m : V[k] = n
  BY DEF Counted
<1>2. 1 \in 1..m
  OBVIOUS
<1>3. V[1] # -1 => V[1] = a /\ a < b
  <2>1. SUFFICES ASSUME V[1] # -1 PROVE V[1] = a /\ a < b
    OBVIOUS
  <2>2. a <= V[1] /\ V[1] < b /\ V[1] \in Int
    BY <1>1, <1>2, <2>1
  <2>3. PICK k \in 1..m : V[k] = a
    BY <1>1, <2>2
  <2>4. V[k] # -1
    BY <2>3
  <2>5. k = 1 \/ 1 < k
    OBVIOUS
  <2>6. k = 1
    BY <1>1, <1>2, <2>1, <2>2, <2>3, <2>4, <2>5
  <2> QED BY <2>2, <2>3, <2>6
<1>4. ASSUME NEW c \in Nat, (V[1] = -1 /\ c = a) \/ (V[1] # -1 /\ c = a + 1)
      PROVE  Counted(W, m - 1, c, b)
  <2>1. c <= b
    BY <1>1, <1>3, <1>4
  <2>2. ASSUME NEW k \in 1..(m - 1), W[k] # -1
        PROVE  c <= W[k] /\ W[k] < b
    <3>1. W[k] = V[k + 1] /\ k + 1 \in 1..m /\ 1 < k + 1 /\ V[k + 1] \in Int
      BY <2>2
    <3>2. a <= V[k + 1] /\ V[k + 1] < b
      BY <1>1, <2>2, <3>1
    <3>3. V[1] # -1 => V[1] < V[k + 1]
      BY <1>1, <1>2, <2>2, <3>1
    <3> QED BY <1>3, <1>4, <3>1, <3>2, <3>3
  <2>3. \A j, k \in 1..(m - 1) : j < k /\ W[j] # -1 /\ W[k] # -1 => W[j] < W[k]
    BY <1>1
  <2>4. ASSUME NEW n \in c..(b - 1)
        PROVE  \E k \in 1..(m - 1) : W[k] = n
    <3>1. PICK k \in 1..m : V[k] = n
      BY <1>1, <1>4, <2>4
    <3>2. k # 1
      BY <1>3, <1>4, <2>4, <3>1
    <3>3. k - 1 \in 1..(m - 1) /\ W[k - 1] = V[k]
      BY <3>1, <3>2
    <3> QED BY <3>1, <3>3
  <2> QED BY <2>1, <2>2, <2>3, <2>4 DEF Counted
<1> QED BY <1>3, <1>4

(* Nothing is left to count where there is nothing.                          *)
LEMMA CountedEmpty ==
  ASSUME NEW V, NEW a \in Nat, NEW b \in Nat, Counted(V, 0, a, b)
  PROVE  a = b
<1>1. /\ a <= b
      /\ \A n \in a..(b - 1) : \E k \in 1..0 : V[k] = n
  BY DEF Counted
<1> QED BY <1>1

(* Sequences whose concatenation has a name.                                 *)
LEMMA Joined ==
  ASSUME NEW S, NEW s \in Seq(S), NEW t \in Seq(S), NEW c, c = s \o t
  PROVE  /\ c \in Seq(S) /\ Len(c) = Len(s) + Len(t)
         /\ Len(s) \in Nat /\ Len(t) \in Nat
         /\ \A i \in 1..(Len(s) + Len(t)) : c[i] = IF i <= Len(s) THEN s[i] ELSE t[i - Len(s)]
<1> DEFINE d == s \o t
<1>1. /\ d \in Seq(S) /\ Len(d) = Len(s) + Len(t)
      /\ \A i \in 1..(Len(s) + Len(t)) : d[i] = IF i <= Len(s) THEN s[i] ELSE t[i - Len(s)]
  BY ConcatProperties
<1>2. c = d
  OBVIOUS
<1> HIDE DEF d
<1> QED BY <1>1, <1>2, LenProperties

(* What follows the same sequence in the same whole is the same.             *)
LEMMA Cancelled ==
  ASSUME NEW S, NEW s \in Seq(S), NEW t \in Seq(S), NEW v \in Seq(S), s \o t = s \o v
  PROVE  t = v
BY ConcatSimplifications

-----------------------------------------------------------------------------
(* What is in flight. *)

Message == Malformed \cup
  {[kind |-> form, valid |-> Required[form], invalid |-> {}] : form \in DOMAIN Required}
Chunk == [id : TransferId, sequence : Nat, final : BOOLEAN, data : Seq(Int),
          totalBytes : Int, sha256 : Seq(Int)]
FrameKind == {"binary", "json", "unsupported"}
Fault == {NoFault, "message", "altered", "sequence", "shortened", "unsummed", "empty",
          "header", "oversized"}
Unit ==
  [unit : {"header"}, kind : FrameKind, length : Nat] \cup [unit : {"header.end"}]
    \cup [unit : {"metadata"}, chunk : Chunk] \cup [unit : {"data"}, value : Int]
    \cup [unit : {"message"}, number : Nat, message : Message]
FrameOf == [kind : FrameKind, payload : Seq(Unit)]

(* The units u are the frames of P from the d-th on: rest[k] are those of    *)
(* the k-th frame and of the later ones.                                     *)
Spells(P, d, u) ==
  \E rest \in [1..(Len(P) + 1) -> Seq(Unit)] :
    /\ rest[d + 1] = u /\ rest[Len(P) + 1] = <<>>
    /\ \A k \in 1..Len(P) : rest[k] = Frame(P[k].kind, P[k].payload) \o rest[k + 1]

(* Concatenation is associative.                                             *)
LEMMA Associates ==
  \A s, t, v \in Seq(Unit) : (s \o t) \o v = s \o (t \o v)
BY ConcatAssociative

(* A frame is its header, which has its length, and its payload.             *)
LEMMA FrameFacts ==
  ASSUME NEW f \in FrameOf
  PROVE  LET frame == Frame(f.kind, f.payload)
         IN /\ frame \in Seq(Unit) /\ Len(f.payload) \in Nat
            /\ Len(frame) = HeaderUnits + Len(f.payload)
            /\ frame[1] = [unit |-> "header", kind |-> f.kind, length |-> Len(f.payload)]
            /\ SubSeq(frame, HeaderUnits + 1, HeaderUnits + Len(f.payload)) = f.payload
<1> DEFINE p == f.payload
           header == <<[unit |-> "header", kind |-> f.kind, length |-> Len(p)],
                       [unit |-> "header.end"]>>
           frame == header \o p
<1>1. f.kind \in FrameKind /\ p \in Seq(Unit) /\ Len(p) \in Nat
  BY LenProperties DEF FrameOf
<1>2. [unit |-> "header", kind |-> f.kind, length |-> Len(p)] \in Unit
  BY <1>1 DEF Unit
<1>3. [unit |-> "header.end"] \in Unit
  BY DEF Unit
<1>4. /\ header \in Seq(Unit) /\ Len(header) = 2
      /\ header[1] = [unit |-> "header", kind |-> f.kind, length |-> Len(p)]
  BY <1>2, <1>3
<1> HIDE DEF header, p
<1>0. frame = header \o p
  OBVIOUS
<1> HIDE DEF frame
<1>5. /\ frame \in Seq(Unit) /\ Len(frame) = 2 + Len(p) /\ frame[1] = header[1]
  <2>1. /\ frame \in Seq(Unit) /\ Len(frame) = Len(header) + Len(p)
        /\ \A i \in 1..(Len(header) + Len(p)) :
             frame[i] = IF i <= Len(header) THEN header[i] ELSE p[i - Len(header)]
    <3>1. header \in Seq(Unit) /\ p \in Seq(Unit)
      BY <1>1, <1>4
    <3> QED BY <1>0, <3>1, Joined
  <2>2. Len(header) = 2 /\ Len(p) \in Nat
    BY <1>1, <1>4
  <2> QED BY <2>1, <2>2
<1>7. SubSeq(frame, 3, 2 + Len(p)) = p
  <2>1. CASE Len(p) = 0
    <3>1. SubSeq(frame, 3, 2 + Len(p)) = <<>>
      BY <2>1, SubSeqEmpty
    <3>2. p = <<>>
      BY <1>1, <2>1, EmptySeq
    <3> QED BY <3>1, <3>2
  <2>2. CASE Len(p) # 0
    <3>1. /\ 3 \in (Len(header) + 1)..(Len(header) + Len(p))
          /\ 2 + Len(p) \in (Len(header) + 1)..(Len(header) + Len(p))
          /\ 3 - Len(header) = 1 /\ 2 + Len(p) - Len(header) = Len(p)
      BY <1>1, <1>4, <2>2
    <3>2. SubSeq(header \o p, 3, 2 + Len(p))
            = SubSeq(p, 3 - Len(header), 2 + Len(p) - Len(header))
      <4>1. header \in Seq(Unit) /\ p \in Seq(Unit)
        BY <1>1, <1>4
      <4> QED BY <3>1, <4>1, SubSeqOfConcat2
    <3>3. SubSeq(p, 1, Len(p)) = p
      BY <1>1, SubSeqFull
    <3> QED BY <1>0, <3>1, <3>2, <3>3
  <2> QED BY <2>1, <2>2
<1> QED BY <1>1, <1>4, <1>5, <1>7 DEF Frame, HeaderUnits, frame, header, p

(* A frame more on the wire is a frame more on its way.                      *)
LEMMA SpellsAppend ==
  ASSUME NEW P \in Seq(FrameOf), NEW d \in 0..Len(P), NEW u, Spells(P, d, u),
         NEW f \in FrameOf
  PROVE  Spells(Append(P, f), d, u \o Frame(f.kind, f.payload))
<1> DEFINE n == Len(P)
           Q == Append(P, f)
           last == Frame(f.kind, f.payload)
<1>1. PICK rest \in [1..(n + 1) -> Seq(Unit)] :
        /\ rest[d + 1] = u /\ rest[n + 1] = <<>>
        /\ \A k \in 1..n : rest[k] = Frame(P[k].kind, P[k].payload) \o rest[k + 1]
  BY DEF Spells
<1>0. /\ \A k \in 1..(n + 1) : rest[k] \in Seq(Unit)
      /\ rest[d + 1] = u /\ rest[n + 1] = <<>>
  BY <1>1
<1>2. /\ n \in Nat /\ Len(Q) = n + 1 /\ Q[n + 1] = f
      /\ \A k \in 1..n : Q[k] = P[k] /\ P[k] \in FrameOf
  BY LenProperties, AppendProperties, ElementOfSeq
<1>3. last \in Seq(Unit)
  BY FrameFacts
<1>4. d \in 0..n
  OBVIOUS
<1> HIDE DEF n, Q, last
<1> DEFINE joined == [k \in 1..(n + 1) |-> rest[k] \o last]
<1>5. /\ \A k \in 1..(n + 1) : joined[k] \in Seq(Unit)
      /\ \A k \in 1..(n + 1) : joined[k] = rest[k] \o last
  BY <1>0, <1>3, ConcatProperties
<1>6. joined[d + 1] = u \o last /\ joined[n + 1] = <<>> \o last
  <2>1. d + 1 \in 1..(n + 1) /\ n + 1 \in 1..(n + 1)
    BY <1>2, <1>4
  <2>2. joined[d + 1] = rest[d + 1] \o last /\ joined[n + 1] = rest[n + 1] \o last
    BY <2>1
  <2>3. rest[d + 1] = u /\ rest[n + 1] = <<>>
    BY <1>0
  <2> HIDE DEF joined
  <2> QED BY <2>2, <2>3
<1> HIDE DEF joined
<1> DEFINE more == [k \in 1..(n + 2) |-> IF k <= n + 1 THEN joined[k] ELSE <<>>]
<1>9. /\ more \in [1..(n + 2) -> Seq(Unit)] /\ more[d + 1] = joined[d + 1] /\ more[n + 2] = <<>>
      /\ \A k \in 1..(n + 1) : more[k] = joined[k]
  <2>1. <<>> \in Seq(Unit)
    BY EmptySeq
  <2>2. \A k \in 1..(n + 1) : joined[k] \in Seq(Unit)
    BY <1>5
  <2> QED BY <1>2, <1>4, <2>1, <2>2
<1> HIDE DEF more
<1>7. ASSUME NEW k \in 1..(n + 1)
      PROVE  more[k] = Frame(Q[k].kind, Q[k].payload) \o more[k + 1]
  <2>1. CASE k = n + 1
    <3>1. more[k] = joined[n + 1] /\ more[k + 1] = <<>> /\ Q[k] = f
      <4>1. n + 1 + 1 = n + 2 /\ n + 1 \in 1..(n + 1)
        BY <1>2
      <4> QED BY <1>2, <1>9, <2>1, <4>1
    <3>2. last \o <<>> = last /\ <<>> \o last = last
      BY <1>3, ConcatEmptySeq
    <3> QED BY <1>6, <3>1, <3>2 DEF last
  <2>2. CASE k # n + 1
    <3>1. k \in 1..n /\ k + 1 \in 1..(n + 1)
      BY <1>2, <2>2
    <3>2. more[k] = rest[k] \o last /\ more[k + 1] = rest[k + 1] \o last
      BY <1>5, <1>9, <3>1
    <3> DEFINE first == Frame(P[k].kind, P[k].payload)
    <3>3. first \in Seq(Unit)
      BY <1>2, <3>1, FrameFacts
    <3>4. rest[k + 1] \in Seq(Unit)
      BY <1>0, <3>1
    <3>5. rest[k] = first \o rest[k + 1] /\ Q[k] = P[k]
      BY <1>1, <1>2, <3>1
    <3>6. first = Frame(Q[k].kind, Q[k].payload)
      BY <3>5
    <3> DEFINE others == rest[k + 1]
    <3>8. others \in Seq(Unit) /\ rest[k] = first \o others /\ more[k + 1] = others \o last
      BY <3>2, <3>4, <3>5
    <3> HIDE DEF first, others
    <3>9. first \in Seq(Unit) /\ others \in Seq(Unit) /\ last \in Seq(Unit)
      BY <1>3, <3>3, <3>8
    <3>7. (first \o others) \o last = first \o (others \o last)
      BY <3>9, Associates, Zenon
    <3> QED BY <3>2, <3>6, <3>7, <3>8
  <2> QED BY <2>1, <2>2
<1>8. n + 1 + 1 = n + 2
  BY <1>2
<1>10. more[d + 1] = u \o last
  BY <1>6, <1>9
<1>11. Spells(Q, d, u \o last)
  <2>1. Len(Q) = n + 1
    BY <1>2
  <2>2. /\ more[d + 1] = u \o last /\ more[Len(Q) + 1] = <<>>
        /\ more \in [1..(Len(Q) + 1) -> Seq(Unit)]
        /\ \A k \in 1..Len(Q) : more[k] = Frame(Q[k].kind, Q[k].payload) \o more[k + 1]
    BY <1>7, <1>8, <1>9, <1>10, <2>1
  <2> QED BY <2>2 DEF Spells
<1> QED BY <1>11 DEF Q, last

(* The first frame that is not decoded stands at the front of what is not.   *)
LEMMA SpellsFirst ==
  ASSUME NEW P \in Seq(FrameOf), NEW d \in 0..Len(P),
         NEW b \in Seq(Unit), NEW w \in Seq(Unit), Spells(P, d, b \o w)
  PROVE  /\ d = Len(P) => b = <<>> /\ w = <<>>
         /\ d < Len(P) /\ Len(b) >= HeaderUnits =>
              b[1] = [unit |-> "header", kind |-> P[d + 1].kind,
                      length |-> Len(P[d + 1].payload)]
         /\ d < Len(P) => Len(b \o w) >= HeaderUnits + Len(P[d + 1].payload)
         /\ d < Len(P) /\ Len(b) >= HeaderUnits + Len(P[d + 1].payload) =>
              LET n == HeaderUnits + Len(P[d + 1].payload)
              IN /\ SubSeq(b, HeaderUnits + 1, n) = P[d + 1].payload
                 /\ Spells(P, d + 1, SubSeq(b, n + 1, Len(b)) \o w)
<1>1. PICK rest \in [1..(Len(P) + 1) -> Seq(Unit)] :
        /\ rest[d + 1] = b \o w /\ rest[Len(P) + 1] = <<>>
        /\ \A k \in 1..Len(P) : rest[k] = Frame(P[k].kind, P[k].payload) \o rest[k + 1]
  BY DEF Spells
<1>2. Len(P) \in Nat /\ Len(b) \in Nat /\ Len(w) \in Nat
  BY LenProperties
<1>3. d = Len(P) => b = <<>> /\ w = <<>>
  BY <1>1, ConcatEqualIffEmpty
<1>4. SUFFICES ASSUME d < Len(P)
      PROVE  /\ Len(b) >= HeaderUnits =>
                  b[1] = [unit |-> "header", kind |-> P[d + 1].kind,
                          length |-> Len(P[d + 1].payload)]
             /\ Len(b \o w) >= HeaderUnits + Len(P[d + 1].payload)
             /\ Len(b) >= HeaderUnits + Len(P[d + 1].payload) =>
                  LET n == HeaderUnits + Len(P[d + 1].payload)
                  IN /\ SubSeq(b, HeaderUnits + 1, n) = P[d + 1].payload
                     /\ Spells(P, d + 1, SubSeq(b, n + 1, Len(b)) \o w)
  BY <1>3
<1> DEFINE f == P[d + 1]
           frame == Frame(f.kind, f.payload)
           later == rest[d + 2]
           n == HeaderUnits + Len(f.payload)
<1>5. d + 1 \in 1..Len(P) /\ d + 2 \in 1..(Len(P) + 1) /\ d + 1 + 1 = d + 2
  BY <1>2, <1>4
<1>6. f \in FrameOf /\ later \in Seq(Unit) /\ b \o w = frame \o later
  BY <1>1, <1>5, ElementOfSeq
<1>7. /\ frame \in Seq(Unit) /\ Len(frame) = n /\ n \in Nat /\ 2 <= n
      /\ frame[1] = [unit |-> "header", kind |-> f.kind, length |-> Len(f.payload)]
      /\ SubSeq(frame, HeaderUnits + 1, n) = f.payload
  <2> HIDE DEF f
  <2>1. /\ frame \in Seq(Unit) /\ Len(f.payload) \in Nat
        /\ Len(frame) = HeaderUnits + Len(f.payload)
        /\ frame[1] = [unit |-> "header", kind |-> f.kind, length |-> Len(f.payload)]
        /\ SubSeq(frame, HeaderUnits + 1, HeaderUnits + Len(f.payload)) = f.payload
    BY <1>6, FrameFacts
  <2> HIDE DEF frame
  <2> QED BY <2>1 DEF HeaderUnits
<1> HIDE DEF f, frame, later, n
<1> DEFINE all == b \o w
<1>13. all = b \o w /\ all = frame \o later
  BY <1>6
<1> HIDE DEF all
<1>8. /\ \A i \in 1..(Len(b) + Len(w)) : all[i] = IF i <= Len(b) THEN b[i] ELSE w[i - Len(b)]
      /\ Len(all) = Len(b) + Len(w) /\ all \in Seq(Unit)
  <2>1. all = b \o w /\ b \in Seq(Unit) /\ w \in Seq(Unit)
    BY <1>13
  <2> QED BY <2>1, Joined
<1>9. /\ Len(all) = n + Len(later) /\ Len(later) \in Nat
      /\ all[1] = frame[1]
  <2>1. /\ \A i \in 1..(Len(frame) + Len(later)) :
             all[i] = IF i <= Len(frame) THEN frame[i] ELSE later[i - Len(frame)]
        /\ Len(all) = Len(frame) + Len(later) /\ Len(later) \in Nat
    BY <1>6, <1>7, <1>13, Joined
  <2>2. Len(frame) = n /\ n \in Nat /\ 2 <= n
    BY <1>7
  <2> QED BY <2>1, <2>2
<1>10. Len(b) >= HeaderUnits => b[1] = frame[1]
  <2>1. SUFFICES ASSUME Len(b) >= 2 PROVE b[1] = frame[1]
    BY DEF HeaderUnits
  <2>2. Len(b) \in Nat /\ Len(w) \in Nat
    BY <1>2, LenProperties
  <2>3. 1 \in 1..(Len(b) + Len(w)) /\ 1 <= Len(b)
    BY <2>1, <2>2
  <2>4. all[1] = b[1]
    BY <1>8, <2>3
  <2> QED BY <1>9, <2>4
<1>14. Len(b \o w) >= n
  <2>1. Len(all) >= n
    BY <1>7, <1>9
  <2> QED BY <2>1 DEF all
<1>11. ASSUME Len(b) >= n
       PROVE  /\ SubSeq(b, HeaderUnits + 1, n) = f.payload
              /\ SubSeq(b, n + 1, Len(b)) \o w = later
  <2>2. \A i \in 1..Len(b) : b[i] \in Unit
    BY ElementOfSeq
  <2>3. SubSeq(b, 1, n) = frame
    <3>1. /\ 1 \in 1..Len(b) /\ n \in 1..Len(b)
          /\ 1 \in 1..Len(frame) /\ n \in 1..Len(frame)
      BY <1>2, <1>7, <1>11
    <3>2. SubSeq(b \o w, 1, n) = SubSeq(b, 1, n)
      BY <3>1, SubSeqOfConcat1
    <3>3. SubSeq(frame \o later, 1, n) = SubSeq(frame, 1, n)
      BY <1>6, <1>7, <3>1, SubSeqOfConcat1
    <3>4. SubSeq(frame, 1, Len(frame)) = frame /\ Len(frame) = n
      BY <1>7, SubSeqFull
    <3>5. b \o w = frame \o later
      BY <1>13
    <3> QED BY <3>2, <3>3, <3>4, <3>5
  <2> DEFINE tail == SubSeq(b, n + 1, Len(b))
  <2>4. frame \o tail = b
    <3>1. 1 \in 1..(Len(b) + 1) /\ n \in (1 - 1)..Len(b) /\ Len(b) \in n..Len(b)
      BY <1>2, <1>7, <1>11
    <3>2. SubSeq(b, 1, n) \o SubSeq(b, n + 1, Len(b)) = SubSeq(b, 1, Len(b))
      BY <3>1, ConcatAdjacentSubSeq
    <3>3. SubSeq(b, 1, Len(b)) = b
      BY SubSeqFull
    <3> QED BY <2>3, <3>2, <3>3
  <2>5. tail \in Seq(Unit)
    BY <1>2, <1>7, <2>2, SubSeqProperties
  <2> HIDE DEF tail
  <2>6. tail \o w = later
    <3>1. tail \o w \in Seq(Unit) /\ frame \in Seq(Unit) /\ later \in Seq(Unit)
      BY <1>6, <1>7, <2>5, ConcatProperties
    <3>2. (frame \o tail) \o w = frame \o (tail \o w)
      <4>1. tail \in Seq(Unit) /\ frame \in Seq(Unit) /\ w \in Seq(Unit)
        BY <2>5, <3>1
      <4> QED BY <4>1, Associates, Zenon
    <3>3. b \o w = frame \o later
      BY <1>13
    <3>4. frame \o (tail \o w) = frame \o later
      BY <2>4, <3>2, <3>3
    <3> DEFINE x == tail \o w
    <3>5. x \in Seq(Unit) /\ frame \o x = frame \o later
      BY <3>1, <3>4
    <3> HIDE DEF x
    <3>6. x = later
      BY <3>1, <3>5, Cancelled
    <3> QED BY <3>6 DEF x
  <2>7. SubSeq(b, HeaderUnits + 1, n) = f.payload
    <3>1. CASE n = 2
      <4>1. SubSeq(b, HeaderUnits + 1, n) = <<>> /\ SubSeq(frame, HeaderUnits + 1, n) = <<>>
        BY <3>1, SubSeqEmpty DEF HeaderUnits
      <4> QED BY <1>7, <4>1
    <3>2. CASE n # 2
      <4>1. 3 \in 1..n /\ n \in 1..n
        BY <1>7, <3>2
      <4>2. SubSeq(frame \o tail, 3, n) = SubSeq(frame, 3, n)
        BY <1>7, <2>5, <4>1, SubSeqOfConcat1
      <4> QED BY <1>7, <2>4, <4>2 DEF HeaderUnits
    <3> QED BY <3>1, <3>2
  <2> QED BY <2>6, <2>7 DEF tail
<1>12. Spells(P, d + 1, later)
  BY <1>1, <1>5 DEF Spells, later
<1> QED BY <1>7, <1>10, <1>11, <1>12, <1>14 DEF f, n

(* The first frame has been handed on; the units left are the same.          *)
LEMMA SpellsTail ==
  ASSUME NEW P \in Seq(FrameOf), NEW d \in 1..Len(P), NEW u, Spells(P, d, u)
  PROVE  Spells(Tail(P), d - 1, u)
<1> DEFINE n == Len(P)
           Q == Tail(P)
<1>1. PICK rest \in [1..(n + 1) -> Seq(Unit)] :
        /\ rest[d + 1] = u /\ rest[n + 1] = <<>>
        /\ \A k \in 1..n : rest[k] = Frame(P[k].kind, P[k].payload) \o rest[k + 1]
  BY DEF Spells
<1>0. /\ \A k \in 1..(n + 1) : rest[k] \in Seq(Unit)
      /\ rest[d + 1] = u /\ rest[n + 1] = <<>>
  BY <1>1
<1>2. n \in Nat /\ d \in 1..n
  BY LenProperties
<1>3. P # <<>>
  BY <1>2, EmptySeq
<1>4. Len(Q) = n - 1 /\ \A k \in 1..(n - 1) : Q[k] = P[k + 1]
  BY <1>3, HeadTailProperties
<1> HIDE DEF n, Q
<1> DEFINE fewer == [k \in 1..n |-> rest[k + 1]]
<1>5. fewer \in [1..n -> Seq(Unit)]
  BY <1>0, <1>2
<1>6. fewer[d] = u /\ fewer[n] = <<>>
  BY <1>0, <1>2
<1>7. ASSUME NEW k \in 1..(n - 1)
      PROVE  fewer[k] = Frame(Q[k].kind, Q[k].payload) \o fewer[k + 1]
  <2>1. k + 1 \in 1..n /\ k \in 1..n
    BY <1>2
  <2>2. fewer[k] = rest[k + 1] /\ fewer[k + 1] = rest[k + 1 + 1] /\ Q[k] = P[k + 1]
    BY <1>4, <2>1
  <2> HIDE DEF fewer
  <2> QED BY <1>1, <2>1, <2>2
<1> HIDE DEF fewer
<1>8. d - 1 + 1 = d /\ n - 1 + 1 = n
  BY <1>2
<1> QED BY <1>4, <1>5, <1>6, <1>7, <1>8 DEF Spells, Q

-----------------------------------------------------------------------------
(* The chunks of a payload. *)

(* Products with naturals keep their order.                                  *)
LEMMA Times ==
  ASSUME NEW c \in Nat, NEW m \in Nat, NEW n \in Nat, m <= n
  PROVE  m * c <= n * c /\ m * c \in Nat
<1>1. PICK k \in Nat : n = m + k
  <2>1. n - m \in Nat /\ n = m + (n - m)
    OBVIOUS
  <2> QED BY <2>1
<1>2. n * c = m * c + k * c
  BY <1>1
<1>3. m * c \in Nat /\ k * c \in Nat
  OBVIOUS
<1> QED BY <1>2, <1>3

(* Rounding up.                                                              *)
LEMMA Division ==
  ASSUME NEW t \in Nat, NEW c \in Nat \ {0}
  PROVE  LET q == (t + c - 1) \div c
         IN q \in Nat /\ q * c <= t + c - 1 /\ t <= q * c /\ (t = 0 => q = 0)
OBVIOUS

(* A payload has at least one chunk, and every chunk but the last is full.   *)
LEMMA ChunkCountFacts ==
  ASSUME NEW id \in TransferId
  PROVE  /\ Data[id] \in Seq(Int) /\ Len(Data[id]) \in Nat
         /\ ChunkCount(id) \in Nat \ {0}
         /\ Len(Data[id]) <= ChunkCount(id) * ChunkSize
         /\ \A n \in Nat : n < ChunkCount(id) => n * ChunkSize \in 0..Len(Data[id])
<1> DEFINE t == Len(Data[id])
           c == ChunkSize
           q == (t + c - 1) \div c
           count == ChunkCount(id)
<1>1. Data[id] \in Seq(Int) /\ t \in Nat /\ c \in Nat \ {0}
  BY TransferAssumption, LenProperties DEF TransferId
<1>2. q \in Nat /\ q * c <= t + c - 1 /\ t <= q * c
  BY <1>1, Division
<1>3. count = IF q >= 1 THEN q ELSE 1
  <2>1. count = Max({1, q})
    BY DEF ChunkCount
  <2> HIDE DEF q, count
  <2> QED BY <1>2, <2>1 DEF Max
<1> HIDE DEF t, c, q, count
<1>4. count \in Nat \ {0}
  BY <1>2, <1>3
<1>5. t <= count * c
  <2>1. CASE q >= 1
    BY <1>2, <1>3, <2>1
  <2>2. CASE ~ q >= 1
    <3>1. q = 0 /\ count = 1
      BY <1>2, <1>3, <2>2
    <3> QED BY <1>1, <1>2, <3>1
  <2> QED BY <2>1, <2>2
<1>6. (count - 1) * c <= t
  <2>1. CASE q >= 1
    <3>1. q = count /\ (count - 1) * c = count * c - c
      BY <1>1, <1>3, <1>4, <2>1
    <3>2. count * c \in Nat
      BY <1>1, <1>4
    <3> HIDE DEF c
    <3>3. count * c <= t + c - 1
      BY <1>2, <3>1
    <3> QED BY <1>1, <3>1, <3>2, <3>3
  <2>2. CASE ~ q >= 1
    <3>1. count - 1 = 0
      BY <1>2, <1>3, <2>2
    <3> QED BY <1>1, <3>1
  <2> QED BY <2>1, <2>2
<1>7. ASSUME NEW n \in Nat, n < count
      PROVE  n * c \in 0..t
  <2>1. count - 1 \in Nat /\ n <= count - 1
    BY <1>4, <1>7
  <2> DEFINE last == count - 1
  <2>2. c \in Nat /\ last \in Nat /\ n <= last
    BY <1>1, <2>1
  <2> HIDE DEF last
  <2>3. n * c <= last * c /\ n * c \in Nat
    BY <2>2, Times
  <2>4. last * c \in Nat
    BY <2>2, Times
  <2> QED BY <1>1, <1>6, <2>3, <2>4 DEF last
<1> QED BY <1>1, <1>4, <1>5, <1>7 DEF t, c, count

(* The chunks of a payload follow each other and fit a frame's limit; the    *)
(* final one carries size and checksum.                                      *)
LEMMA ChunkFacts ==
  ASSUME NEW id \in TransferId, NEW n \in 1..ChunkCount(id)
  PROVE  LET chunk == Chunks(id)[n]
             total == Len(Data[id])
         IN /\ Len(Chunks(id)) = ChunkCount(id)
            /\ chunk \in Chunk /\ chunk.id = id /\ chunk.sequence = n - 1
            /\ chunk.final = (n = ChunkCount(id))
            /\ Len(chunk.data) <= ChunkSize
            /\ chunk.final => /\ chunk.totalBytes = total /\ chunk.sha256 = Data[id]
                              /\ chunk.data = SubSeq(Data[id], (n - 1) * ChunkSize + 1, total)
            /\ ~chunk.final =>
                 chunk.data = SubSeq(Data[id], (n - 1) * ChunkSize + 1, n * ChunkSize)
<1> DEFINE t == Len(Data[id])
           c == ChunkSize
           count == ChunkCount(id)
           from == (n - 1) * c
           to == Min({n * c, t})
           data == SubSeq(Data[id], from + 1, to)
           chunk == [id |-> id, sequence |-> n - 1, final |-> n = count, data |-> data,
                     totalBytes |-> IF n = count THEN t ELSE -1,
                     sha256 |-> IF n = count THEN Data[id] ELSE <<>>]
<1>1. /\ Data[id] \in Seq(Int) /\ t \in Nat /\ count \in Nat \ {0} /\ t <= count * c
      /\ \A m \in Nat : m < count => m * c \in 0..t
      /\ c \in Nat \ {0} /\ n \in 1..count
  BY ChunkCountFacts, TransferAssumption
<1>2. Chunks(id)[n] = chunk /\ Len(Chunks(id)) = count
  <2>1. Chunks(id) = [m \in 1..count |->
          [id |-> id, sequence |-> m - 1, final |-> m = count,
           data |-> SubSeq(Data[id], (m - 1) * ChunkSize + 1, Min({m * ChunkSize, t})),
           totalBytes |-> IF m = count THEN t ELSE -1,
           sha256 |-> IF m = count THEN Data[id] ELSE <<>>]]
    BY DEF Chunks
  <2> HIDE DEF count, t
  <2> QED BY <1>1, <2>1
<1>3. from \in 0..t /\ n * c = from + c
  <2>1. n - 1 \in Nat /\ n - 1 < count
    BY <1>1
  <2>2. n * c = (n - 1) * c + c
    BY <1>1
  <2> QED BY <1>1, <2>1, <2>2
<1>4. to = IF n = count THEN t ELSE n * c
  <2>1. n = count => t <= n * c
    BY <1>1
  <2>2. n # count => n * c <= t
    BY <1>1
  <2>3. n * c \in Nat
    BY <1>1
  <2>4. \A x \in Nat, y \in Nat : Min({x, y}) = IF x <= y THEN x ELSE y
    BY DEF Min
  <2> HIDE DEF c, t, count
  <2> DEFINE x == n * c
  <2>5. x \in Nat /\ t \in Nat /\ (n = count => t <= x) /\ (n # count => x <= t) /\ to = Min({x, t})
    BY <1>1, <2>1, <2>2, <2>3
  <2> HIDE DEF x, to
  <2>6. to = IF n = count THEN t ELSE x
    BY <2>4, <2>5
  <2> QED BY <2>6 DEF x
<1>5. to \in 0..t /\ to - from <= c
  <2>1. n = count => t <= from + c
    BY <1>1, <1>3
  <2>2. n # count => n * c \in 0..t
    BY <1>1
  <2> DEFINE x == n * c
  <2>3. x = from + c /\ (n # count => x \in 0..t) /\ to = IF n = count THEN t ELSE x
    BY <1>3, <1>4, <2>2
  <2> HIDE DEF x, from, to, c, t, count
  <2> QED BY <1>1, <1>3, <2>1, <2>3
<1> HIDE DEF from, to
<1>6. data \in Seq(Int) /\ Len(data) <= c
  <2>1. \A i \in 1..t : Data[id][i] \in Int
    BY <1>1, ElementOfSeq
  <2>2. from + 1 \in Int /\ to \in Int /\ \A i \in (from + 1)..to : Data[id][i] \in Int
    BY <1>1, <1>3, <1>5, <2>1
  <2>3. data \in Seq(Int) /\ Len(data) = IF from + 1 <= to THEN to - (from + 1) + 1 ELSE 0
    BY <2>2, SubSeqProperties
  <2> HIDE DEF data
  <2> QED BY <1>1, <1>3, <1>5, <2>3
<1>7. chunk \in Chunk
  <2>1. /\ id \in TransferId /\ n - 1 \in Nat /\ (n = count) \in BOOLEAN /\ data \in Seq(Int)
        /\ (IF n = count THEN t ELSE -1) \in Int
        /\ (IF n = count THEN Data[id] ELSE <<>>) \in Seq(Int)
    BY <1>1, <1>6, EmptySeq
  <2> HIDE DEF data, t, count
  <2> QED BY <2>1 DEF Chunk
<1>8. /\ chunk.id = id /\ chunk.sequence = n - 1 /\ chunk.final = (n = count)
      /\ chunk.data = data
      /\ chunk.final => chunk.totalBytes = t /\ chunk.sha256 = Data[id]
  OBVIOUS
<1>9. chunk.final => chunk.data = SubSeq(Data[id], from + 1, t)
  BY <1>4, <1>8
<1>10. ~chunk.final => chunk.data = SubSeq(Data[id], from + 1, n * c)
  BY <1>4, <1>8
<1> HIDE DEF chunk
<1> QED BY <1>2, <1>6, <1>7, <1>8, <1>9, <1>10 DEF from

(* The payload of a chunk's frame, and what the receiver takes from it.      *)
LEMMA PayloadFacts ==
  ASSUME NEW chunk \in Chunk
  PROVE  LET p == ChunkPayload(chunk)
         IN /\ p \in Seq(Unit) /\ p # <<>> /\ Len(p) = Len(chunk.data) + 1
            /\ p[1].chunk = [chunk EXCEPT !.data = <<>>]
            /\ [n \in 1..(Len(p) - 1) |-> p[n + 1].value] = chunk.data
<1> DEFINE meta == <<[unit |-> "metadata", chunk |-> [chunk EXCEPT !.data = <<>>]]>>
           units == [n \in 1..Len(chunk.data) |-> [unit |-> "data", value |-> chunk.data[n]]]
           p == meta \o units
           m == Len(chunk.data)
<1>1. chunk.data \in Seq(Int) /\ m \in Nat /\ \A n \in 1..m : chunk.data[n] \in Int
  BY LenProperties, ElementOfSeq DEF Chunk
<1>2. meta \in Seq(Unit) /\ Len(meta) = 1 /\ meta[1].chunk = [chunk EXCEPT !.data = <<>>]
  <2>1. [chunk EXCEPT !.data = <<>>] \in Chunk
    <3>1. <<>> \in Seq(Int)
      BY EmptySeq
    <3> QED BY <3>1 DEF Chunk
  <2> QED BY <2>1 DEF Unit
<1>3. /\ units \in Seq(Unit) /\ Len(units) = m
      /\ \A n \in 1..m : units[n].value = chunk.data[n]
  <2>1. \A n \in 1..m : [unit |-> "data", value |-> chunk.data[n]] \in Unit
    BY <1>1 DEF Unit
  <2>2. units \in [1..m -> Unit]
    BY <1>1, <2>1
  <2>3. units \in Seq(Unit) /\ Len(units) = m
    <3> HIDE DEF units, m
    <3> QED BY <1>1, <2>2
  <2> QED BY <2>3
<1>4. ChunkPayload(chunk) = p
  BY DEF ChunkPayload
<1>5. p = meta \o units
  OBVIOUS
<1> HIDE DEF meta, units, p
<1>6. /\ p \in Seq(Unit) /\ Len(p) = 1 + m
      /\ \A i \in 1..(1 + m) : p[i] = IF i <= 1 THEN meta[i] ELSE units[i - 1]
  <2>1. meta \in Seq(Unit) /\ units \in Seq(Unit)
    BY <1>2, <1>3
  <2>2. /\ p \in Seq(Unit) /\ Len(p) = Len(meta) + Len(units)
        /\ \A i \in 1..(Len(meta) + Len(units)) :
             p[i] = IF i <= Len(meta) THEN meta[i] ELSE units[i - Len(meta)]
    BY <1>5, <2>1, Joined
  <2>3. Len(meta) = 1 /\ Len(units) = m
    BY <1>2, <1>3
  <2> QED BY <2>2, <2>3
<1>7. p[1] = meta[1] /\ p # <<>> /\ \A n \in 1..m : p[n + 1] = units[n]
  <2> HIDE DEF m
  <2>1. p[1] = meta[1]
    BY <1>1, <1>6
  <2>2. p # <<>>
    BY <1>1, <1>6, EmptySeq
  <2>3. \A n \in 1..m : n + 1 \in 1..(1 + m) /\ ~ n + 1 <= 1 /\ n + 1 - 1 = n
    BY <1>1
  <2>4. \A n \in 1..m : p[n + 1] = units[n]
    BY <1>6, <2>3
  <2> QED BY <2>1, <2>2, <2>4
<1>8. [n \in 1..(Len(p) - 1) |-> p[n + 1].value] = chunk.data
  <2>1. Len(p) - 1 = m
    BY <1>1, <1>6
  <2>2. [n \in 1..m |-> p[n + 1].value] = [n \in 1..m |-> chunk.data[n]]
    BY <1>3, <1>7
  <2>3. chunk.data = [n \in 1..m |-> chunk.data[n]]
    <3>1. chunk.data \in [1..m -> Int]
      BY <1>1, LenProperties
    <3> QED BY <3>1
  <2> QED BY <2>1, <2>2, <2>3
<1>9. Len(p) = m + 1
  BY <1>1, <1>6
<1>10. p[1].chunk = [chunk EXCEPT !.data = <<>>]
  BY <1>2, <1>7
<1> QED BY <1>4, <1>6, <1>7, <1>8, <1>9, <1>10 DEF p

-----------------------------------------------------------------------------
(* The invariant. *)

(* What the receiver relies on in any frame it can read.                     *)
Readable(f) ==
  /\ f.kind = "json" =>
       \E n \in Nat, m \in Message :
         f.payload = <<[unit |-> "message", number |-> n, message |-> m]>>
  /\ f.kind = "binary" /\ f.payload # <<>> =>
       \E chunk \in Chunk : /\ f.payload = ChunkPayload(chunk)
                            /\ chunk.final => chunk.sha256 = Data[chunk.id]

(* A frame of a faultless sender.                                            *)
Proper(f) ==
  \/ /\ f.kind = "json"
     /\ \E n \in Nat, m \in Message :
          /\ f.payload = <<[unit |-> "message", number |-> n, message |-> m]>>
          /\ parseProtocolMessage(m)
  \/ /\ f.kind = "binary"
     /\ \E id \in TransferId : \E n \in 1..ChunkCount(id) :
          f.payload = ChunkPayload(Chunks(id)[n])

(* The number of the message and the sequence of the chunk a frame carries.  *)
NumberOf(f) == IF f.kind = "json" THEN f.payload[1].number ELSE -1
SequenceOf(f, id) ==
  IF f.kind = "binary" /\ f.payload # <<>> /\ f.payload[1].chunk.id = id
  THEN f.payload[1].chunk.sequence ELSE -1
Numbers(P) == [k \in 1..Len(P) |-> NumberOf(P[k])]
SequenceNumbers(P, id) == [k \in 1..Len(P) |-> SequenceOf(P[k], id)]

(* The stream may still be read.                                             *)
Alive == readLoop # "idle" \/ stream # "closed"
(* No frame was faulty and no reader gave up.                                *)
Faultless == fault = NoFault /\ cancelled = {}
(* How many chunks of a transfer were accepted.                              *)
Accepted(id) == IF completed[id] # {} THEN ChunkCount(id) ELSE transfers[id].next

(* P are the frames on their way: the decoded ones, and those whose units    *)
(* wait in the buffer and on the wire.                                       *)
Flies(P, ready, units) ==
  /\ Len(ready) <= Len(P) /\ \A k \in 1..Len(ready) : ready[k] = P[k]
  /\ Spells(P, Len(ready), units)
  /\ \A k \in 1..Len(P) : Readable(P[k])
InFlight(P) ==
  /\ Flies(P, decoded, buffered \o wire)
  /\ Counted(Numbers(P), Len(P), Len(handed) + 1, messages + 1)
  /\ Faultless => \A k \in 1..Len(P) : Proper(P[k])
  /\ Faultless => \A id \in TransferId :
       Counted(SequenceNumbers(P, id), Len(P), Accepted(id), sent[id])

(* What a faultless sender's frames have become.                             *)
Assembled ==
  /\ stream = "open"
  /\ readLoop # "decoding" => ~ (HeaderIsThere /\ FrameLength <= Len(buffered))
  /\ \A id \in TransferId : completed[id] = {} =>
       /\ transfers[id].next < ChunkCount(id)
       /\ transfers[id].data = SubSeq(Data[id], 1, transfers[id].next * ChunkSize)

(* What has been handed over is what was sent.                               *)
HandedOver ==
  /\ \A id \in TransferId : completed[id] \subseteq {Data[id]}
  /\ \A n \in DOMAIN handed : handed[n] = n

FrameTypeOK ==
  /\ sent \in [TransferId -> Nat] /\ messages \in Nat /\ fault \in Fault
  /\ wire \in Seq(Unit) /\ buffered \in Seq(Unit) /\ decoded \in Seq(FrameOf)
  /\ readLoop \in {"idle", "decoding", "accepting", "awaiting"}
  /\ transfers \in [TransferId -> [next : Nat, data : Seq(Int)]]
  /\ cancelled \subseteq TransferId
  /\ completed \in [TransferId -> SUBSET Seq(Int)]
  /\ handed \in Seq(Nat) /\ stream \in {"open", "closing", "closed"}

FrameInv ==
  /\ FrameTypeOK /\ HandedOver
  /\ readLoop = "idle" => decoded = <<>>
  /\ Alive => \E P \in Seq(FrameOf) : InFlight(P)
  /\ Faultless => Assembled

-----------------------------------------------------------------------------
(* One frame. *)

(* The frame of a message has its number and no sequence.                    *)
LEMMA MessageFacts ==
  ASSUME NEW f \in FrameOf, NEW n \in Nat, NEW m \in Message, f.kind = "json",
         f.payload = <<[unit |-> "message", number |-> n, message |-> m]>>
  PROVE  /\ f.payload # <<>> /\ Len(f.payload) = 1
         /\ f.payload[1].number = n /\ f.payload[1].message = m
         /\ NumberOf(f) = n /\ \A id \in TransferId : SequenceOf(f, id) = -1
BY DEF NumberOf, SequenceOf

(* A chunk's frame gives the chunk and its data back.                        *)
LEMMA ChunkFrameFacts ==
  ASSUME NEW f \in FrameOf, NEW chunk \in Chunk, f.kind = "binary",
         f.payload = ChunkPayload(chunk)
  PROVE  /\ f.payload # <<>> /\ Len(f.payload) = Len(chunk.data) + 1
         /\ f.payload[1].chunk = [chunk EXCEPT !.data = <<>>]
         /\ [n \in 1..(Len(f.payload) - 1) |-> f.payload[n + 1].value] = chunk.data
         /\ NumberOf(f) = -1
         /\ \A id \in TransferId :
              SequenceOf(f, id) = IF chunk.id = id THEN chunk.sequence ELSE -1
<1>1. /\ f.payload # <<>> /\ Len(f.payload) = Len(chunk.data) + 1
      /\ f.payload[1].chunk = [chunk EXCEPT !.data = <<>>]
      /\ [n \in 1..(Len(f.payload) - 1) |-> f.payload[n + 1].value] = chunk.data
  BY PayloadFacts
<1>2. NumberOf(f) = -1
  BY DEF NumberOf
<1> DEFINE meta == f.payload[1].chunk
<1>3. meta.id = chunk.id /\ meta.sequence = chunk.sequence
  BY <1>1 DEF Chunk
<1> HIDE DEF meta
<1>4. \A id : SequenceOf(f, id) = IF meta.id = id THEN meta.sequence ELSE -1
  BY <1>1 DEF SequenceOf, meta
<1> QED BY <1>1, <1>2, <1>3, <1>4

(* What is read in a frame are numbers.                                      *)
LEMMA ReadableFacts ==
  ASSUME NEW f \in FrameOf, Readable(f)
  PROVE  /\ NumberOf(f) \in Int /\ (f.kind = "json" => NumberOf(f) \in Nat)
         /\ \A id \in TransferId : SequenceOf(f, id) \in Int
<1>1. CASE f.kind = "json"
  <2>1. PICK n \in Nat, m \in Message :
          f.payload = <<[unit |-> "message", number |-> n, message |-> m]>>
    BY <1>1 DEF Readable
  <2> QED BY <1>1, <2>1, MessageFacts
<1>2. CASE f.kind = "binary" /\ f.payload # <<>>
  <2>1. PICK chunk \in Chunk : f.payload = ChunkPayload(chunk)
    BY <1>2 DEF Readable
  <2>2. chunk.sequence \in Int
    BY DEF Chunk
  <2>3. /\ NumberOf(f) = -1
        /\ \A id \in TransferId :
             SequenceOf(f, id) = IF chunk.id = id THEN chunk.sequence ELSE -1
    BY <1>2, <2>1, ChunkFrameFacts
  <2>4. -1 \in Int /\ \A id \in TransferId : SequenceOf(f, id) \in Int
    BY <2>2, <2>3
  <2> QED BY <1>2, <2>3, <2>4
<1>3. CASE f.kind # "json" /\ ~ (f.kind = "binary" /\ f.payload # <<>>)
  BY <1>3 DEF NumberOf, SequenceOf
<1> QED BY <1>1, <1>2, <1>3

(* A faultless sender's frame is accepted.                                   *)
LEMMA ProperFacts ==
  ASSUME NEW f \in FrameOf, Proper(f)
  PROVE  /\ f.kind \in {"binary", "json"} /\ Len(f.payload) \in Nat
         /\ Len(f.payload) <= MaxPayload
         /\ f.payload # <<>> /\ (f.kind = "json" => parseProtocolMessage(f.payload[1].message))
<1>1. CASE f.kind = "json"
  <2>1. PICK n \in Nat, m \in Message :
          /\ f.payload = <<[unit |-> "message", number |-> n, message |-> m]>>
          /\ parseProtocolMessage(m)
    BY <1>1 DEF Proper
  <2>2. Len(f.payload) = 1 /\ f.payload # <<>> /\ f.payload[1].message = m
    BY <1>1, <2>1, MessageFacts
  <2> QED BY <1>1, <2>1, <2>2, TransferAssumption
<1>2. CASE f.kind = "binary"
  <2>0. PICK id \in TransferId :
          \E n \in 1..ChunkCount(id) : f.payload = ChunkPayload(Chunks(id)[n])
    BY <1>2 DEF Proper
  <2>1. PICK n \in 1..ChunkCount(id) : f.payload = ChunkPayload(Chunks(id)[n])
    BY <2>0
  <2> DEFINE chunk == Chunks(id)[n]
  <2>2. chunk \in Chunk /\ Len(chunk.data) <= ChunkSize
    BY ChunkFacts
  <2>3. Len(chunk.data) \in Nat
    BY <2>2, LenProperties DEF Chunk
  <2>4. f.payload # <<>> /\ Len(f.payload) = Len(chunk.data) + 1
    BY <1>2, <2>1, <2>2, ChunkFrameFacts
  <2> HIDE DEF chunk
  <2> QED BY <1>2, <2>2, <2>3, <2>4, TransferAssumption
<1> QED BY <1>1, <1>2 DEF Proper

(* A frame is added behind those on their way ...                            *)
LEMMA Appended ==
  ASSUME NEW P \in Seq(FrameOf), NEW ready \in Seq(FrameOf), NEW u, Flies(P, ready, u),
         NEW f \in FrameOf, Readable(f)
  PROVE  /\ Append(P, f) \in Seq(FrameOf)
         /\ Len(P) \in Nat /\ Len(Append(P, f)) = Len(P) + 1
         /\ \A k \in 1..Len(P) : Append(P, f)[k] = P[k]
         /\ Append(P, f)[Len(P) + 1] = f
         /\ Flies(Append(P, f), ready, u \o Frame(f.kind, f.payload))
<1> DEFINE Q == Append(P, f)
<1>1. /\ Q \in Seq(FrameOf) /\ Len(P) \in Nat /\ Len(Q) = Len(P) + 1
      /\ \A k \in 1..Len(P) : Q[k] = P[k]
      /\ Q[Len(P) + 1] = f
  BY AppendProperties, LenProperties
<1>2. Len(ready) \in Nat /\ Len(ready) <= Len(P)
      /\ \A k \in 1..Len(ready) : ready[k] = P[k]
  BY LenProperties DEF Flies
<1>3. Spells(Q, Len(ready), u \o Frame(f.kind, f.payload))
  <2>1. Len(ready) \in 0..Len(P) /\ Spells(P, Len(ready), u)
    BY <1>1, <1>2 DEF Flies
  <2> QED BY <2>1, SpellsAppend
<1>4. \A k \in 1..Len(P) : Readable(P[k])
  BY DEF Flies
<1> HIDE DEF Q
<1>5. \A k \in 1..Len(Q) : Readable(Q[k])
  <2>1. SUFFICES ASSUME NEW k \in 1..Len(Q) PROVE Readable(Q[k])
    OBVIOUS
  <2>2. k \in 1..Len(P) \/ k = Len(P) + 1
    BY <1>1
  <2>3. k \in 1..Len(P) => Q[k] = P[k]
    BY <1>1
  <2>4. k = Len(P) + 1 => Q[k] = f
    BY <1>1
  <2> QED BY <1>4, <2>2, <2>3, <2>4
<1>6. Len(ready) <= Len(Q) /\ \A k \in 1..Len(ready) : ready[k] = Q[k]
  BY <1>1, <1>2
<1> QED BY <1>1, <1>3, <1>5, <1>6 DEF Flies, Q

(* ... and the first of them is taken.                                       *)
LEMMA FirstTaken ==
  ASSUME NEW P \in Seq(FrameOf), NEW ready \in Seq(FrameOf), ready # <<>>,
         NEW u, Flies(P, ready, u)
  PROVE  /\ Tail(P) \in Seq(FrameOf) /\ Len(P) \in Nat \ {0} /\ Len(Tail(P)) = Len(P) - 1
         /\ \A k \in 1..(Len(P) - 1) : Tail(P)[k] = P[k + 1]
         /\ P[1] = Head(ready) /\ P[1] \in FrameOf /\ Readable(P[1])
         /\ Flies(Tail(P), Tail(ready), u)
<1> DEFINE Q == Tail(P)
           rest == Tail(ready)
<1>1. Len(ready) \in Nat \ {0} /\ Len(P) \in Nat
  BY EmptySeq, LenProperties
<1>2. Len(ready) <= Len(P) /\ \A k \in 1..Len(ready) : ready[k] = P[k]
  BY DEF Flies
<1>3. P # <<>> /\ Len(P) \in Nat \ {0}
  BY <1>1, <1>2, EmptySeq
<1>4. /\ Q \in Seq(FrameOf) /\ Len(Q) = Len(P) - 1
      /\ \A k \in 1..Len(Q) : Q[k] = P[k + 1]
  BY <1>3, HeadTailProperties
<1>5. /\ rest \in Seq(FrameOf) /\ Len(rest) = Len(ready) - 1
      /\ \A k \in 1..Len(rest) : rest[k] = ready[k + 1]
  BY HeadTailProperties
<1>6. P[1] = Head(ready) /\ P[1] \in FrameOf /\ Readable(P[1])
  <2>1. 1 \in 1..Len(P) /\ 1 \in 1..Len(ready)
    BY <1>1, <1>3
  <2>2. Head(ready) = ready[1]
    BY DEF Head
  <2> QED BY <1>2, <2>1, <2>2, ElementOfSeq DEF Flies
<1>7. Spells(Q, Len(rest), u)
  <2>1. Spells(P, Len(ready), u) /\ Len(ready) \in 1..Len(P)
    BY <1>1, <1>2 DEF Flies
  <2>2. Spells(Q, Len(ready) - 1, u)
    BY <2>1, SpellsTail
  <2> QED BY <1>5, <2>2
<1> HIDE DEF Q, rest
<1>8. Len(rest) <= Len(Q) /\ \A k \in 1..Len(rest) : rest[k] = Q[k]
  <2>1. Len(rest) <= Len(Q)
    BY <1>1, <1>2, <1>4, <1>5
  <2>2. ASSUME NEW k \in 1..Len(rest) PROVE rest[k] = Q[k]
    <3>1. k \in 1..Len(Q) /\ k + 1 \in 1..Len(ready)
      BY <1>1, <1>2, <1>4, <1>5
    <3> QED BY <1>2, <1>4, <1>5, <3>1
  <2> QED BY <2>1, <2>2
<1>9. \A k \in 1..Len(Q) : Readable(Q[k])
  <2>1. SUFFICES ASSUME NEW k \in 1..Len(Q) PROVE Readable(Q[k])
    OBVIOUS
  <2>2. k + 1 \in 1..Len(P) /\ Q[k] = P[k + 1]
    BY <1>3, <1>4
  <2>3. Readable(P[k + 1])
    BY <2>2 DEF Flies
  <2> QED BY <2>2, <2>3
<1>10. Flies(Q, rest, u)
  BY <1>7, <1>8, <1>9 DEF Flies
<1> QED BY <1>3, <1>4, <1>6, <1>10 DEF Q, rest

-----------------------------------------------------------------------------
(* The sender's steps. *)

(* What all of them do.                                                      *)
Sending(f) ==
  /\ SendFrame(Frame(f.kind, f.payload)) /\ Readable(f)
  /\ sent' \in [TransferId -> Nat] /\ messages' \in Nat /\ fault' \in Fault
  /\ \/ NumberOf(f) = -1 /\ messages' = messages
     \/ NumberOf(f) = messages + 1 /\ messages' = messages + 1
  /\ Faultless' =>
       /\ Faultless /\ Proper(f)
       /\ \A id \in TransferId :
            \/ SequenceOf(f, id) = -1 /\ sent'[id] = sent[id]
            \/ SequenceOf(f, id) = sent[id] /\ sent'[id] = sent[id] + 1

(* Whatever is sent, the invariant holds.                                    *)
LEMMA Sends ==
  ASSUME FrameInv, NEW f \in FrameOf, Sending(f)
  PROVE  FrameInv'
<1> DEFINE frame == Frame(f.kind, f.payload)
<1>1. /\ stream # "closed" /\ wire' = wire \o frame
      /\ buffered' = buffered /\ readLoop' = readLoop /\ decoded' = decoded
      /\ transfers' = transfers /\ completed' = completed /\ handed' = handed
      /\ cancelled' = cancelled /\ stream' = stream
  BY DEF Sending, SendFrame, reader, receiver
<1>2. frame \in Seq(Unit)
  BY FrameFacts
<1>3. FrameTypeOK /\ HandedOver /\ (readLoop = "idle" => decoded = <<>>)
  BY DEF FrameInv
<1>4. wire \in Seq(Unit) /\ buffered \in Seq(Unit) /\ decoded \in Seq(FrameOf)
      /\ handed \in Seq(Nat) /\ messages \in Nat /\ sent \in [TransferId -> Nat]
  BY <1>3 DEF FrameTypeOK
<1> HIDE DEF frame
<1>5. FrameTypeOK'
  <2>1. wire' \in Seq(Unit)
    BY <1>1, <1>2, <1>4, ConcatProperties
  <2> QED BY <1>1, <1>3, <2>1 DEF FrameTypeOK, Sending
<1>6. HandedOver' /\ (readLoop' = "idle" => decoded' = <<>>)
  BY <1>1, <1>3 DEF HandedOver
<1>7. PICK P \in Seq(FrameOf) : InFlight(P)
  BY <1>1 DEF FrameInv, Alive
<1> DEFINE Q == Append(P, f)
<1>8. /\ Q \in Seq(FrameOf) /\ Len(P) \in Nat /\ Len(Q) = Len(P) + 1
      /\ \A k \in 1..Len(P) : Q[k] = P[k]
      /\ Q[Len(P) + 1] = f
      /\ Flies(Q, decoded, (buffered \o wire) \o frame)
  <2>1. Flies(P, decoded, buffered \o wire)
    BY <1>7 DEF InFlight
  <2>2. Readable(f)
    BY DEF Sending
  <2> QED BY <1>4, <2>1, <2>2, Appended DEF frame
<1>9. Flies(Q, decoded', buffered' \o wire')
  <2>1. (buffered \o wire) \o frame = buffered \o (wire \o frame)
    <3>1. buffered \in Seq(Unit) /\ wire \in Seq(Unit) /\ frame \in Seq(Unit)
      BY <1>2, <1>4
    <3> QED BY <3>1, Associates, Zenon
  <2> QED BY <1>1, <1>8, <2>1
<1>10. \A k \in 1..Len(P) : Readable(P[k]) /\ P[k] \in FrameOf
  BY <1>7, ElementOfSeq DEF InFlight, Flies
<1> HIDE DEF Q
<1>11. Counted(Numbers(Q), Len(Q), Len(handed') + 1, messages' + 1)
  <2> DEFINE V == Numbers(P)
             W == Numbers(Q)
             a == Len(handed) + 1
             b == messages + 1
             c == messages' + 1
             m == Len(P)
  <2>1. Counted(V, m, a, b)
    BY <1>7 DEF InFlight
  <2>2. a \in Nat /\ b \in Nat /\ c \in Nat /\ m \in Nat
    <3>1. Len(handed) \in Nat
      BY <1>4, LenProperties
    <3>2. messages \in Nat /\ m \in Nat /\ (messages' = messages \/ messages' = messages + 1)
      BY <1>4, <1>8 DEF Sending
    <3>3. a \in Nat
      BY <3>1
    <3>4. b \in Nat
      BY <3>2
    <3>5. c \in Nat
      BY <3>2
    <3> HIDE DEF a, b, c, m
    <3> QED BY <3>2, <3>3, <3>4, <3>5
  <2>3. \A k \in 1..m : W[k] = V[k] /\ V[k] \in Int
    <3>1. SUFFICES ASSUME NEW k \in 1..m PROVE W[k] = V[k] /\ V[k] \in Int
      OBVIOUS
    <3>2. k \in 1..Len(P) /\ k \in 1..Len(Q) /\ Q[k] = P[k]
      BY <1>8
    <3>3. W[k] = NumberOf(Q[k]) /\ V[k] = NumberOf(P[k])
      BY <3>2 DEF Numbers
    <3> QED BY <1>10, <3>2, <3>3, ReadableFacts
  <2>4. (W[m + 1] = b /\ c = b + 1) \/ (W[m + 1] = -1 /\ c = b)
    <3>1. W[m + 1] = NumberOf(f)
      BY <1>8 DEF Numbers
    <3>2. \/ NumberOf(f) = -1 /\ messages' = messages
          \/ NumberOf(f) = messages + 1 /\ messages' = messages + 1
      BY DEF Sending
    <3> HIDE DEF W
    <3> QED BY <1>4, <3>1, <3>2
  <2> HIDE DEF V, W, a, b, c, m
  <2>5. Counted(W, m + 1, a, c)
    BY <2>1, <2>2, <2>3, <2>4, CountedAppend
  <2> QED BY <1>1, <1>8, <2>5 DEF W, m, a, c
<1>12. ASSUME Faultless'
       PROVE  /\ \A k \in 1..Len(Q) : Proper(Q[k])
              /\ \A id \in TransferId :
                   Counted(SequenceNumbers(Q, id), Len(Q), Accepted(id)', sent'[id])
  <2>1. Faultless /\ Proper(f) /\ \A id \in TransferId :
          \/ SequenceOf(f, id) = -1 /\ sent'[id] = sent[id]
          \/ SequenceOf(f, id) = sent[id] /\ sent'[id] = sent[id] + 1
    BY <1>12 DEF Sending
  <2>2. \A k \in 1..Len(P) : Proper(P[k])
    BY <1>7, <2>1 DEF InFlight
  <2>3. ASSUME NEW k \in 1..Len(Q) PROVE Proper(Q[k])
    <3>1. k \in 1..Len(P) \/ k = Len(P) + 1
      BY <1>8
    <3>2. k \in 1..Len(P) => Q[k] = P[k]
      BY <1>8
    <3>3. k = Len(P) + 1 => Q[k] = f
      BY <1>8
    <3> QED BY <2>1, <2>2, <3>1, <3>2, <3>3
  <2>4. ASSUME NEW id \in TransferId
        PROVE  Counted(SequenceNumbers(Q, id), Len(Q), Accepted(id)', sent'[id])
    <3> DEFINE V == SequenceNumbers(P, id)
               W == SequenceNumbers(Q, id)
               a == Accepted(id)
               b == sent[id]
               c == sent'[id]
               m == Len(P)
    <3>1. Counted(V, m, a, b)
      BY <1>7, <2>1 DEF InFlight
    <3>2. a \in Nat /\ b \in Nat /\ c \in Nat /\ m \in Nat
      <4>1. a \in Nat
        BY <1>3, ChunkCountFacts DEF FrameTypeOK, Accepted
      <4>2. b \in Nat /\ c \in Nat
        BY <1>4 DEF Sending
      <4> QED BY <1>8, <4>1, <4>2
    <3>3. \A k \in 1..m : W[k] = V[k] /\ V[k] \in Int
      <4>1. SUFFICES ASSUME NEW k \in 1..m PROVE W[k] = V[k] /\ V[k] \in Int
        OBVIOUS
      <4>2. k \in 1..Len(P) /\ k \in 1..Len(Q) /\ Q[k] = P[k]
        BY <1>8
      <4>3. W[k] = SequenceOf(Q[k], id) /\ V[k] = SequenceOf(P[k], id)
        BY <4>2 DEF SequenceNumbers
      <4> QED BY <1>10, <4>2, <4>3, ReadableFacts
    <3>4. (W[m + 1] = b /\ c = b + 1) \/ (W[m + 1] = -1 /\ c = b)
      <4>1. W[m + 1] = SequenceOf(f, id)
        BY <1>8 DEF SequenceNumbers
      <4> HIDE DEF W
      <4> QED BY <2>1, <4>1
    <3>5. Accepted(id)' = a
      BY <1>1 DEF Accepted
    <3> HIDE DEF V, W, a, b, c, m
    <3>6. Counted(W, m + 1, a, c)
      BY <3>1, <3>2, <3>3, <3>4, CountedAppend
    <3> QED BY <1>8, <3>5, <3>6 DEF W, m, c
  <2> QED BY <2>3, <2>4
<1>13. InFlight(Q)'
  BY <1>9, <1>11, <1>12 DEF InFlight
<1>14. Faultless' => Assembled'
  <2>1. Faultless' => Assembled
    BY DEF FrameInv, Sending
  <2> QED BY <1>1, <2>1 DEF Assembled, HeaderIsThere, FrameLength
<1> QED BY <1>5, <1>6, <1>8, <1>13, <1>14 DEF FrameInv

(* A kind and a payload are a frame.                                         *)
LEMMA FrameMade ==
  ASSUME NEW k \in FrameKind, NEW p \in Seq(Unit)
  PROVE  [kind |-> k, payload |-> p] \in FrameOf
BY DEF FrameOf

(* The types of the state, one by one.                                       *)
LEMMA FrameTyped ==
  ASSUME FrameInv
  PROVE  /\ sent \in [TransferId -> Nat] /\ messages \in Nat /\ fault \in Fault
         /\ wire \in Seq(Unit) /\ buffered \in Seq(Unit) /\ decoded \in Seq(FrameOf)
         /\ readLoop \in {"idle", "decoding", "accepting", "awaiting"}
         /\ transfers \in [TransferId -> [next : Nat, data : Seq(Int)]]
         /\ cancelled \subseteq TransferId
         /\ completed \in [TransferId -> SUBSET Seq(Int)]
         /\ handed \in Seq(Nat) /\ stream \in {"open", "closing", "closed"}
         /\ HandedOver /\ (readLoop = "idle" => decoded = <<>>)
BY DEF FrameInv, FrameTypeOK

(* The chunk a transfer is about to send.                                    *)
LEMMA NextChunk ==
  ASSUME NEW id \in TransferId, NEW n \in Nat, n < Len(Chunks(id))
  PROVE  /\ n + 1 \in 1..ChunkCount(id)
         /\ Chunks(id)[n + 1] \in Chunk /\ Chunks(id)[n + 1].id = id
         /\ Chunks(id)[n + 1].sequence = n
         /\ Chunks(id)[n + 1].final => Chunks(id)[n + 1].sha256 = Data[id]
<1>1. ChunkCount(id) \in Nat \ {0}
  BY ChunkCountFacts
<1>2. 1 \in 1..ChunkCount(id)
  BY <1>1
<1>3. Len(Chunks(id)) = ChunkCount(id)
  BY <1>2, ChunkFacts
<1>4. n + 1 \in 1..ChunkCount(id) /\ n + 1 - 1 = n
  BY <1>1, <1>3
<1> DEFINE k == n + 1
<1>5. k \in 1..ChunkCount(id) /\ k - 1 = n
  BY <1>4
<1> HIDE DEF k
<1>6. /\ Chunks(id)[k] \in Chunk /\ Chunks(id)[k].id = id /\ Chunks(id)[k].sequence = k - 1
      /\ Chunks(id)[k].final => Chunks(id)[k].sha256 = Data[id]
  BY <1>5, ChunkFacts
<1> QED BY <1>5, <1>6 DEF k

(* A chunk is sent: the transfer's next number.                              *)
LEMMA SendChunkKeeps ==
  ASSUME FrameInv, NEW id \in TransferId, SendChunk(id)
  PROVE  FrameInv'
<1> DEFINE n == sent[id]
           chunk == Chunks(id)[n + 1]
           f == [kind |-> "binary", payload |-> ChunkPayload(chunk)]
<1>1. /\ fault = NoFault /\ n < Len(Chunks(id)) /\ SendFrame(Frame(f.kind, f.payload))
      /\ sent' = [sent EXCEPT ![id] = n + 1] /\ messages' = messages /\ fault' = fault
  BY DEF SendChunk
<1>2. n \in Nat /\ sent \in [TransferId -> Nat] /\ messages \in Nat /\ fault \in Fault
  BY FrameTyped
<1>3. /\ n + 1 \in 1..ChunkCount(id) /\ chunk \in Chunk /\ chunk.id = id
      /\ chunk.sequence = n /\ (chunk.final => chunk.sha256 = Data[id])
  BY <1>1, <1>2, NextChunk
<1>4. f.kind = "binary" /\ f.payload = ChunkPayload(chunk) /\ f \in FrameOf
  <2>1. ChunkPayload(chunk) \in Seq(Unit) /\ "binary" \in FrameKind
    BY <1>3, PayloadFacts DEF FrameKind
  <2>2. f \in FrameOf
    BY <2>1, FrameMade
  <2> QED BY <2>2
<1>5. Proper(f)
  BY <1>3, <1>4 DEF Proper
<1> HIDE DEF f, chunk, n
<1>6. Readable(f)
  BY <1>3, <1>4 DEF Readable
<1>7. /\ NumberOf(f) = -1
      /\ \A i \in TransferId : SequenceOf(f, i) = IF id = i THEN n ELSE -1
  <2>1. /\ NumberOf(f) = -1
        /\ \A i \in TransferId :
             SequenceOf(f, i) = IF chunk.id = i THEN chunk.sequence ELSE -1
    BY <1>3, <1>4, ChunkFrameFacts
  <2> QED BY <1>3, <2>1
<1>8. sent' \in [TransferId -> Nat] /\ messages' \in Nat /\ fault' \in Fault
  <2>1. sent' \in [TransferId -> Nat]
    BY <1>1, <1>2
  <2> QED BY <1>1, <1>2, <2>1
<1>9. Faultless' => Faultless
  BY <1>1 DEF Faultless, SendFrame
<1>10. \A i \in TransferId :
         \/ SequenceOf(f, i) = -1 /\ sent'[i] = sent[i]
         \/ SequenceOf(f, i) = sent[i] /\ sent'[i] = sent[i] + 1
  BY <1>1, <1>2, <1>7 DEF n
<1>11. Sending(f)
  BY <1>1, <1>5, <1>6, <1>7, <1>8, <1>9, <1>10 DEF Sending
<1> QED BY <1>4, <1>11, Sends

(* The frame of a message is readable, and proper when it parses.            *)
LEMMA MessageFrameFacts ==
  ASSUME FrameInv, NEW m \in Message
  PROVE  LET f == [kind |-> "json",
                   payload |-> <<[unit |-> "message", number |-> messages + 1, message |-> m]>>]
         IN /\ f \in FrameOf /\ MessageFrame(m) = Frame(f.kind, f.payload)
            /\ Readable(f) /\ NumberOf(f) = messages + 1
            /\ \A id \in TransferId : SequenceOf(f, id) = -1
            /\ parseProtocolMessage(m) => Proper(f)
<1> DEFINE unit == [unit |-> "message", number |-> messages + 1, message |-> m]
           f == [kind |-> "json", payload |-> <<unit>>]
<1>1. messages \in Nat /\ messages + 1 \in Nat
  BY FrameTyped
<1>2. unit \in Unit
  BY <1>1 DEF Unit
<1>3. f \in FrameOf /\ f.kind = "json" /\ f.payload = <<unit>>
  <2> HIDE DEF unit
  <2>1. <<unit>> \in Seq(Unit) /\ "json" \in FrameKind
    BY <1>2 DEF FrameKind
  <2>2. f \in FrameOf
    BY <2>1, FrameMade
  <2> QED BY <2>2
<1>4. MessageFrame(m) = Frame(f.kind, f.payload)
  BY DEF MessageFrame
<1>5. Readable(f) /\ (parseProtocolMessage(m) => Proper(f))
  BY <1>1 DEF Readable, Proper
<1>6. NumberOf(f) = messages + 1 /\ \A id \in TransferId : SequenceOf(f, id) = -1
  <2> HIDE DEF f
  <2> QED BY <1>1, <1>3, MessageFacts
<1> QED BY <1>3, <1>4, <1>5, <1>6

(* A message is sent: the next number.                                       *)
LEMMA SendMessageKeeps ==
  ASSUME FrameInv, NEW form \in DOMAIN Required, SendMessage(form)
  PROVE  FrameInv'
<1> DEFINE m == [kind |-> form, valid |-> Required[form], invalid |-> {}]
           f == [kind |-> "json",
                 payload |-> <<[unit |-> "message", number |-> messages + 1, message |-> m]>>]
<1>1. /\ messages' = messages + 1 /\ SendFrame(MessageFrame(m))
      /\ sent' = sent /\ fault' = fault
  BY DEF SendMessage
<1>2. m \in Message
  BY DEF Message
<1>3. parseProtocolMessage(m)
  BY DEF parseProtocolMessage
<1> HIDE DEF m
<1>4. /\ f \in FrameOf /\ MessageFrame(m) = Frame(f.kind, f.payload)
      /\ Readable(f) /\ NumberOf(f) = messages + 1 /\ Proper(f)
      /\ \A id \in TransferId : SequenceOf(f, id) = -1
  BY <1>2, <1>3, MessageFrameFacts
<1> HIDE DEF f
<1>5. SendFrame(Frame(f.kind, f.payload))
  BY <1>1, <1>4
<1>6. sent' \in [TransferId -> Nat] /\ messages' \in Nat /\ fault' \in Fault
  <2>1. messages + 1 \in Nat /\ sent \in [TransferId -> Nat] /\ fault \in Fault
    BY FrameTyped
  <2> QED BY <1>1, <2>1
<1>7. Faultless' => Faultless
  BY <1>1 DEF Faultless, SendFrame
<1>8. Sending(f)
  BY <1>1, <1>4, <1>5, <1>6, <1>7 DEF Sending
<1> QED BY <1>4, <1>8, Sends

(* A malformed message ends the faultless stream; its number still counts.   *)
LEMMA SendMalformedKeeps ==
  ASSUME FrameInv, SendMalformed
  PROVE  FrameInv'
<1>1. /\ fault' = "message" /\ messages' = messages + 1 /\ sent' = sent
  BY DEF SendMalformed
<1>2. PICK m \in Malformed : SendFrame(MessageFrame(m))
  BY DEF SendMalformed
<1> DEFINE f == [kind |-> "json",
                 payload |-> <<[unit |-> "message", number |-> messages + 1, message |-> m]>>]
<1>3. m \in Message
  BY DEF Message
<1>4. /\ f \in FrameOf /\ MessageFrame(m) = Frame(f.kind, f.payload)
      /\ Readable(f) /\ NumberOf(f) = messages + 1
  BY <1>3, MessageFrameFacts
<1> HIDE DEF f
<1>5. SendFrame(Frame(f.kind, f.payload))
  BY <1>2, <1>4
<1>6. sent' \in [TransferId -> Nat] /\ messages' \in Nat /\ fault' \in Fault
  <2>1. messages + 1 \in Nat /\ sent \in [TransferId -> Nat]
    BY FrameTyped
  <2>2. fault' \in Fault
    BY <1>1 DEF Fault
  <2>3. messages' \in Nat
    BY <1>1, <2>1
  <2>4. sent' \in [TransferId -> Nat]
    BY <1>1, <2>1
  <2> QED BY <2>2, <2>3, <2>4
<1>7. ~ Faultless'
  BY <1>1 DEF Faultless, NoFault
<1>8. Sending(f)
  BY <1>1, <1>4, <1>5, <1>6, <1>7 DEF Sending
<1> QED BY <1>4, <1>8, Sends

(* So does a faulty chunk, which says nothing false about the checksum.      *)
LEMMA SendFaultKeeps ==
  ASSUME FrameInv, NEW id \in TransferId, SendFault(id)
  PROVE  FrameInv'
<1> DEFINE n == sent[id]
           chunk == Chunks(id)[n + 1]
<1>1. /\ n < Len(Chunks(id)) /\ messages' = messages
      /\ sent' = [sent EXCEPT ![id] = n + 1]
  BY DEF SendFault
<1>2. PICK faulty \in Faulty(chunk) : fault' = faulty.kind /\ SendFrame(faulty.frame)
  BY DEF SendFault
<1>3. n \in Nat /\ sent \in [TransferId -> Nat] /\ messages \in Nat
  BY FrameTyped
<1>4. /\ chunk \in Chunk /\ chunk.id = id /\ (chunk.final => chunk.sha256 = Data[id])
  BY <1>1, <1>3, NextChunk
<1> HIDE DEF n, chunk
<1>5. ASSUME NEW f \in FrameOf, faulty.frame = Frame(f.kind, f.payload),
             Readable(f), f.kind # "json", faulty.kind \in Fault \ {NoFault}
      PROVE  FrameInv'
  <2>1. SendFrame(Frame(f.kind, f.payload))
    BY <1>2, <1>5
  <2>2. NumberOf(f) = -1
    BY <1>5 DEF NumberOf
  <2>3. sent' \in [TransferId -> Nat] /\ messages' \in Nat /\ fault' \in Fault
    <3>1. sent' \in [TransferId -> Nat]
      BY <1>1, <1>3
    <3> QED BY <1>1, <1>2, <1>3, <1>5, <3>1
  <2>4. ~ Faultless'
    BY <1>2, <1>5 DEF Faultless
  <2>5. Sending(f)
    BY <1>1, <1>5, <2>1, <2>2, <2>3, <2>4 DEF Sending
  <2> QED BY <1>5, <2>5, Sends
<1>6. ASSUME NEW c \in Chunk, c.id = id, c.final = chunk.final, c.sha256 = chunk.sha256,
             faulty.frame = Frame("binary", ChunkPayload(c)),
             faulty.kind \in Fault \ {NoFault}
      PROVE  FrameInv'
  <2> DEFINE f == [kind |-> "binary", payload |-> ChunkPayload(c)]
  <2>1. f \in FrameOf /\ f.kind = "binary" /\ f.payload = ChunkPayload(c)
    <3>1. ChunkPayload(c) \in Seq(Unit) /\ "binary" \in FrameKind
      BY PayloadFacts DEF FrameKind
    <3>2. f \in FrameOf
      BY <3>1, FrameMade
    <3> QED BY <3>2
  <2> HIDE DEF f
  <2>2. Readable(f)
    BY <1>4, <1>6, <2>1 DEF Readable
  <2> QED BY <1>5, <1>6, <2>1, <2>2
<1>7. /\ chunk.data \in Seq(Int) /\ chunk.sequence \in Nat
      /\ Len(chunk.data) \in Nat /\ DOMAIN chunk.data = 1..Len(chunk.data)
      /\ \A i \in 1..Len(chunk.data) : chunk.data[i] \in Int
  BY <1>4, LenProperties, ElementOfSeq DEF Chunk
<1>8. CASE faulty = [kind |-> "altered", frame |-> Frame("binary",
             ChunkPayload([chunk EXCEPT !.data = [i \in DOMAIN @ |-> @[i] + 1]]))]
  <2> DEFINE c == [chunk EXCEPT !.data = [i \in DOMAIN @ |-> @[i] + 1]]
  <2>1. [i \in DOMAIN chunk.data |-> chunk.data[i] + 1] \in Seq(Int)
    BY <1>7
  <2>2. c \in Chunk /\ c.id = id /\ c.final = chunk.final /\ c.sha256 = chunk.sha256
    BY <1>4, <2>1 DEF Chunk
  <2>3. faulty.frame = Frame("binary", ChunkPayload(c)) /\ faulty.kind = "altered"
    BY <1>8
  <2>4. faulty.kind \in Fault \ {NoFault}
    BY <2>3 DEF Fault, NoFault
  <2> HIDE DEF c
  <2> QED BY <1>6, <2>2, <2>3, <2>4
<1>9. CASE faulty = [kind |-> "sequence", frame |->
             Frame("binary", ChunkPayload([chunk EXCEPT !.sequence = @ + 1]))]
  <2> DEFINE c == [chunk EXCEPT !.sequence = @ + 1]
  <2>2. c \in Chunk /\ c.id = id /\ c.final = chunk.final /\ c.sha256 = chunk.sha256
    BY <1>4, <1>7 DEF Chunk
  <2>3. faulty.frame = Frame("binary", ChunkPayload(c)) /\ faulty.kind = "sequence"
    BY <1>9
  <2>4. faulty.kind \in Fault \ {NoFault}
    BY <2>3 DEF Fault, NoFault
  <2> HIDE DEF c
  <2> QED BY <1>6, <2>2, <2>3, <2>4
<1>10. CASE faulty = [kind |-> "shortened", frame |->
              Frame("binary", ChunkPayload([chunk EXCEPT !.data = <<>>]))]
  <2> DEFINE c == [chunk EXCEPT !.data = <<>>]
  <2>1. <<>> \in Seq(Int)
    BY EmptySeq
  <2>2. c \in Chunk /\ c.id = id /\ c.final = chunk.final /\ c.sha256 = chunk.sha256
    BY <1>4, <2>1 DEF Chunk
  <2>3. faulty.frame = Frame("binary", ChunkPayload(c)) /\ faulty.kind = "shortened"
    BY <1>10
  <2>4. faulty.kind \in Fault \ {NoFault}
    BY <2>3 DEF Fault, NoFault
  <2> HIDE DEF c
  <2> QED BY <1>6, <2>2, <2>3, <2>4
<1>11. CASE faulty = [kind |-> "unsummed", frame |->
              Frame("binary", ChunkPayload([chunk EXCEPT !.totalBytes = -1]))]
  <2> DEFINE c == [chunk EXCEPT !.totalBytes = -1]
  <2>1. -1 \in Int
    OBVIOUS
  <2>2. c \in Chunk /\ c.id = id /\ c.final = chunk.final /\ c.sha256 = chunk.sha256
    BY <1>4, <2>1 DEF Chunk
  <2>3. faulty.frame = Frame("binary", ChunkPayload(c)) /\ faulty.kind = "unsummed"
    BY <1>11
  <2>4. faulty.kind \in Fault \ {NoFault}
    BY <2>3 DEF Fault, NoFault
  <2> HIDE DEF c
  <2> QED BY <1>6, <2>2, <2>3, <2>4
<1>12. CASE faulty = [kind |-> "empty", frame |-> Frame("binary", <<>>)]
  <2> DEFINE f == [kind |-> "binary", payload |-> <<>>]
  <2>1. f \in FrameOf
    <3>1. <<>> \in Seq(Unit) /\ "binary" \in FrameKind
      BY EmptySeq DEF FrameKind
    <3> QED BY <3>1, FrameMade
  <2>2. Readable(f)
    BY DEF Readable
  <2>3. f.kind = "binary" /\ f.payload = <<>>
    OBVIOUS
  <2>4. faulty.frame = Frame(f.kind, f.payload) /\ faulty.kind = "empty"
    BY <1>12, <2>3
  <2>5. faulty.kind \in Fault \ {NoFault} /\ f.kind # "json"
    BY <2>3, <2>4 DEF Fault, NoFault
  <2> HIDE DEF f
  <2> QED BY <1>5, <2>1, <2>2, <2>4, <2>5
<1>13. CASE faulty = [kind |-> "header", frame |-> Frame("unsupported", ChunkPayload(chunk))]
  <2> DEFINE f == [kind |-> "unsupported", payload |-> ChunkPayload(chunk)]
  <2>1. f \in FrameOf
    <3>1. ChunkPayload(chunk) \in Seq(Unit) /\ "unsupported" \in FrameKind
      BY <1>4, PayloadFacts DEF FrameKind
    <3> QED BY <3>1, FrameMade
  <2>2. Readable(f)
    BY DEF Readable
  <2>3. f.kind = "unsupported" /\ f.payload = ChunkPayload(chunk)
    OBVIOUS
  <2>4. faulty.frame = Frame(f.kind, f.payload) /\ faulty.kind = "header"
    BY <1>13, <2>3
  <2>5. faulty.kind \in Fault \ {NoFault} /\ f.kind # "json"
    BY <2>3, <2>4 DEF Fault, NoFault
  <2> HIDE DEF f
  <2> QED BY <1>5, <2>1, <2>2, <2>4, <2>5
<1>14. CASE faulty = [kind |-> "oversized", frame |-> Frame("binary",
              ChunkPayload([chunk EXCEPT !.data = [i \in 1..MaxPayload |-> 0]]))]
  <2> DEFINE c == [chunk EXCEPT !.data = [i \in 1..MaxPayload |-> 0]]
  <2>1. [i \in 1..MaxPayload |-> 0] \in Seq(Int)
    BY TransferAssumption
  <2>2. c \in Chunk /\ c.id = id /\ c.final = chunk.final /\ c.sha256 = chunk.sha256
    BY <1>4, <2>1 DEF Chunk
  <2>3. faulty.frame = Frame("binary", ChunkPayload(c)) /\ faulty.kind = "oversized"
    BY <1>14
  <2>4. faulty.kind \in Fault \ {NoFault}
    BY <2>3 DEF Fault, NoFault
  <2> HIDE DEF c
  <2> QED BY <1>6, <2>2, <2>3, <2>4
<1> QED BY <1>2, <1>8, <1>9, <1>10, <1>11, <1>12, <1>13, <1>14 DEF Faulty

-----------------------------------------------------------------------------
(* The decoder's steps. *)

(* At first nothing is on its way.                                           *)
LEMMA InitFlies == ASSUME FrameInit PROVE FrameInv
<1>1. /\ sent = [id \in TransferId |-> 0] /\ messages = 0 /\ fault = NoFault
      /\ wire = <<>> /\ buffered = <<>> /\ readLoop = "idle" /\ decoded = <<>>
      /\ cancelled = {} /\ stream = "open" /\ handed = <<>>
      /\ transfers = [id \in TransferId |-> Fresh]
      /\ completed = [id \in TransferId |-> {}]
  BY DEF FrameInit
<1>2. /\ <<>> \in Seq(Unit) /\ <<>> \in Seq(FrameOf) /\ <<>> \in Seq(Nat) /\ <<>> \in Seq(Int)
      /\ Len(<<>>) = 0
  BY EmptySeq
<1>3. FrameTypeOK
  <2>1. Fresh \in [next : Nat, data : Seq(Int)]
    BY <1>2 DEF Fresh
  <2>2. transfers \in [TransferId -> [next : Nat, data : Seq(Int)]]
    BY <1>1, <2>1
  <2>3. sent \in [TransferId -> Nat] /\ completed \in [TransferId -> SUBSET Seq(Int)]
    BY <1>1
  <2>4. fault \in Fault
    BY <1>1 DEF Fault
  <2> QED BY <1>1, <1>2, <2>2, <2>3, <2>4 DEF FrameTypeOK
<1>4. HandedOver
  BY <1>1 DEF HandedOver
<1>5. InFlight(<<>>)
  <2>1. Spells(<<>>, 0, <<>>)
    <3> DEFINE rest == [k \in 1..1 |-> <<>>]
    <3>1. rest \in [1..1 -> Seq(Unit)] /\ rest[1] = <<>>
      BY <1>2
    <3> HIDE DEF rest
    <3> QED BY <1>2, <3>1 DEF Spells
  <2>2. buffered \o wire = <<>>
    BY <1>1, <1>2, ConcatEmptySeq
  <2>3. Flies(<<>>, decoded, buffered \o wire)
    BY <1>1, <1>2, <2>1, <2>2 DEF Flies
  <2>4. Counted(Numbers(<<>>), Len(<<>>), Len(handed) + 1, messages + 1)
    BY <1>1, <1>2 DEF Counted
  <2>5. \A id \in TransferId :
          Counted(SequenceNumbers(<<>>, id), Len(<<>>), Accepted(id), sent[id])
    <3>1. \A id \in TransferId : Accepted(id) = 0 /\ sent[id] = 0
      BY <1>1 DEF Accepted, Fresh
    <3> QED BY <1>2, <3>1 DEF Counted
  <2> QED BY <1>2, <2>3, <2>4, <2>5 DEF InFlight
<1>6. Assembled
  <2>1. ~ HeaderIsThere
    BY <1>1, <1>2 DEF HeaderIsThere, HeaderUnits
  <2>2. ASSUME NEW id \in TransferId
        PROVE  /\ transfers[id].next < ChunkCount(id)
               /\ transfers[id].data = SubSeq(Data[id], 1, transfers[id].next * ChunkSize)
    <3>1. transfers[id].next = 0 /\ transfers[id].data = <<>>
      BY <1>1 DEF Fresh
    <3>2. 0 * ChunkSize = 0
      BY TransferAssumption
    <3>3. SubSeq(Data[id], 1, 0) = <<>>
      BY SubSeqEmpty
    <3> QED BY <3>1, <3>2, <3>3, ChunkCountFacts
  <2> QED BY <1>1, <2>1, <2>2 DEF Assembled
<1> QED BY <1>1, <1>2, <1>3, <1>4, <1>5, <1>6 DEF FrameInv

(* Steps that neither send nor accept: the frames on their way are the same. *)
Carrying ==
  /\ sent' = sent /\ messages' = messages /\ handed' = handed
  /\ transfers' = transfers /\ completed' = completed
  /\ Faultless' => Faultless

(* They count the same numbers and sequences as before.                      *)
LEMMA StillInFlight ==
  ASSUME NEW P, InFlight(P), Carrying, Flies(P, decoded', buffered' \o wire')
  PROVE  InFlight(P)'
<1>1. /\ sent' = sent /\ messages' = messages /\ handed' = handed
      /\ transfers' = transfers /\ completed' = completed
      /\ Faultless' => Faultless
  BY DEF Carrying
<1>2. Counted(Numbers(P), Len(P), Len(handed') + 1, messages' + 1)
  BY <1>1 DEF InFlight
<1>3. Faultless' => \A k \in 1..Len(P) : Proper(P[k])
  BY <1>1 DEF InFlight
<1>4. ASSUME Faultless', NEW id \in TransferId
      PROVE  Counted(SequenceNumbers(P, id), Len(P), Accepted(id)', sent'[id])
  <2>1. Counted(SequenceNumbers(P, id), Len(P), Accepted(id), sent[id])
    BY <1>1, <1>4 DEF InFlight
  <2>2. Accepted(id)' = Accepted(id)
    BY <1>1 DEF Accepted
  <2> QED BY <1>1, <2>1, <2>2
<1> QED BY <1>2, <1>3, <1>4 DEF InFlight

(* A read moves units from the wire to the buffer, wherever it ends.         *)
LEMMA ReadStreamKeeps ==
  ASSUME FrameInv, NEW n \in 1..Len(wire), ReadStream(n)
  PROVE  FrameInv'
<1>1. /\ stream # "closed" /\ readLoop = "idle" /\ readLoop' = "decoding"
      /\ buffered' = buffered \o SubSeq(wire, 1, n)
      /\ wire' = SubSeq(wire, n + 1, Len(wire))
      /\ sent' = sent /\ messages' = messages /\ fault' = fault /\ decoded' = decoded
      /\ transfers' = transfers /\ completed' = completed /\ handed' = handed
      /\ cancelled' = cancelled /\ stream' = stream
  BY DEF ReadStream, receiver
<1>2. wire \in Seq(Unit) /\ buffered \in Seq(Unit) /\ Len(wire) \in Nat
  BY FrameTyped, LenProperties
<1> DEFINE read == SubSeq(wire, 1, n)
           left == SubSeq(wire, n + 1, Len(wire))
<1>3. read \in Seq(Unit) /\ left \in Seq(Unit)
  <2>1. \A i \in 1..Len(wire) : wire[i] \in Unit
    BY <1>2, ElementOfSeq
  <2>2. /\ 1 \in Int /\ n \in Int /\ n + 1 \in Int /\ Len(wire) \in Int
        /\ \A i \in 1..n : wire[i] \in Unit
        /\ \A i \in (n + 1)..Len(wire) : wire[i] \in Unit
    BY <1>2, <2>1
  <2> QED BY <2>2, SubSeqProperties
<1>4. read \o left = wire
  <2>1. 1 \in 1..(Len(wire) + 1) /\ n \in (1 - 1)..Len(wire) /\ Len(wire) \in n..Len(wire)
    BY <1>2
  <2>2. read \o left = SubSeq(wire, 1, Len(wire))
    BY <1>2, <2>1, ConcatAdjacentSubSeq
  <2>3. SubSeq(wire, 1, Len(wire)) = wire
    BY <1>2, SubSeqFull
  <2> QED BY <2>2, <2>3
<1> HIDE DEF read, left
<1>5. buffered' \o wire' = buffered \o wire
  <2>1. (buffered \o read) \o left = buffered \o (read \o left)
    <3>1. buffered \in Seq(Unit) /\ read \in Seq(Unit) /\ left \in Seq(Unit)
      BY <1>2, <1>3
    <3> QED BY <3>1, Associates, Zenon
  <2> QED BY <1>1, <1>4, <2>1 DEF read, left
<1>6. FrameTypeOK'
  <2>1. buffered' \in Seq(Unit)
    <3>1. buffered \o read \in Seq(Unit)
      BY <1>2, <1>3, ConcatProperties
    <3> QED BY <1>1, <3>1 DEF read
  <2>2. wire' \in Seq(Unit)
    BY <1>1, <1>3 DEF left
  <2> QED BY <1>1, <2>1, <2>2, FrameTyped DEF FrameTypeOK
<1>7. HandedOver' /\ (readLoop' = "idle" => decoded' = <<>>)
  BY <1>1, FrameTyped DEF HandedOver
<1>8. PICK P \in Seq(FrameOf) : InFlight(P)
  BY <1>1 DEF FrameInv, Alive
<1>9. InFlight(P)'
  <2>1. Flies(P, decoded', buffered' \o wire')
    BY <1>1, <1>5, <1>8 DEF InFlight
  <2>2. Carrying
    BY <1>1 DEF Carrying, Faultless
  <2> QED BY <1>8, <2>1, <2>2, StillInFlight
<1>10. Faultless' => Assembled'
  BY <1>1 DEF FrameInv, Faultless, Assembled
<1> QED BY <1>6, <1>7, <1>8, <1>9, <1>10 DEF FrameInv

(* The header at the front of the buffer is the one of the next frame.       *)
LEMMA HeaderFacts ==
  ASSUME FrameInv, readLoop = "decoding", HeaderIsThere,
         NEW P \in Seq(FrameOf), InFlight(P)
  PROVE  LET d == Len(decoded)
             f == P[d + 1]
         IN /\ d \in Nat /\ d < Len(P) /\ Len(P) \in Nat /\ f \in FrameOf
            /\ buffered[1] = [unit |-> "header", kind |-> f.kind, length |-> Len(f.payload)]
            /\ FrameLength = HeaderUnits + Len(f.payload) /\ Len(f.payload) \in Nat
<1> DEFINE d == Len(decoded)
           f == P[d + 1]
<1>1. buffered \in Seq(Unit) /\ wire \in Seq(Unit) /\ decoded \in Seq(FrameOf)
  BY FrameTyped
<1>2. Len(decoded) <= Len(P) /\ Spells(P, Len(decoded), buffered \o wire)
  BY DEF InFlight, Flies
<1>3. d \in 0..Len(P) /\ Len(P) \in Nat /\ d \in Nat
  BY <1>1, <1>2, LenProperties
<1>4. Len(buffered) >= HeaderUnits /\ Len(buffered) \in Nat
  BY <1>1, LenProperties DEF HeaderIsThere
<1>5. d # Len(P)
  <2>1. SUFFICES ASSUME d = Len(P) PROVE FALSE
    OBVIOUS
  <2>2. buffered = <<>>
    BY <1>1, <1>2, <1>3, <2>1, SpellsFirst
  <2> QED BY <1>4, <2>2 DEF HeaderUnits
<1>6. d < Len(P)
  BY <1>3, <1>5
<1>7. buffered[1] = [unit |-> "header", kind |-> f.kind, length |-> Len(f.payload)]
  BY <1>1, <1>2, <1>3, <1>4, <1>6, SpellsFirst
<1>8. f \in FrameOf
  <2>1. d + 1 \in 1..Len(P)
    BY <1>3, <1>6
  <2> QED BY <2>1, ElementOfSeq
<1>9. Len(f.payload) \in Nat
  BY <1>8, LenProperties DEF FrameOf
<1>10. FrameLength = HeaderUnits + Len(f.payload)
  BY <1>7 DEF FrameLength
<1> QED BY <1>3, <1>6, <1>7, <1>8, <1>9, <1>10

(* The first frame of the buffer becomes the last decoded one.               *)
LEMMA DecodeFrameKeeps ==
  ASSUME FrameInv, DecodeFrame
  PROVE  FrameInv'
<1> DEFINE d == Len(decoded)
           more == [kind |-> buffered[1].kind,
                    payload |-> SubSeq(buffered, HeaderUnits + 1, FrameLength)]
           rest == SubSeq(buffered, FrameLength + 1, Len(buffered))
<1>1. /\ readLoop = "decoding" /\ HeaderIsThere /\ FrameLength <= Len(buffered)
      /\ decoded' = Append(decoded, more) /\ buffered' = rest
      /\ sent' = sent /\ messages' = messages /\ fault' = fault /\ wire' = wire
      /\ readLoop' = readLoop /\ transfers' = transfers /\ completed' = completed
      /\ handed' = handed /\ cancelled' = cancelled /\ stream' = stream
  BY DEF DecodeFrame, receiver
<1>2. PICK P \in Seq(FrameOf) : InFlight(P)
  BY <1>1 DEF FrameInv, Alive
<1> DEFINE f == P[d + 1]
<1>3. /\ d \in Nat /\ d < Len(P) /\ Len(P) \in Nat /\ f \in FrameOf
      /\ buffered[1] = [unit |-> "header", kind |-> f.kind, length |-> Len(f.payload)]
      /\ FrameLength = HeaderUnits + Len(f.payload) /\ Len(f.payload) \in Nat
  BY <1>1, <1>2, HeaderFacts
<1>4. /\ buffered \in Seq(Unit) /\ wire \in Seq(Unit) /\ decoded \in Seq(FrameOf)
      /\ Len(buffered) \in Nat
  BY FrameTyped, LenProperties
<1>5. /\ SubSeq(buffered, HeaderUnits + 1, FrameLength) = f.payload
      /\ Spells(P, d + 1, rest \o wire)
  <2>1. d \in 0..Len(P) /\ Spells(P, d, buffered \o wire)
    BY <1>2, <1>3 DEF InFlight, Flies
  <2>2. d < Len(P) /\ Len(buffered) >= HeaderUnits + Len(f.payload)
    BY <1>1, <1>3, <1>4 DEF HeaderUnits
  <2> DEFINE n == HeaderUnits + Len(f.payload)
  <2>3. /\ SubSeq(buffered, HeaderUnits + 1, n) = f.payload
        /\ Spells(P, d + 1, SubSeq(buffered, n + 1, Len(buffered)) \o wire)
    BY <1>4, <2>1, <2>2, SpellsFirst
  <2>4. n = FrameLength
    BY <1>3
  <2> HIDE DEF n
  <2> QED BY <2>3, <2>4
<1>6. more = f
  <2>1. buffered[1].kind = f.kind
    BY <1>3
  <2>2. f = [kind |-> f.kind, payload |-> f.payload]
    BY <1>3 DEF FrameOf
  <2> HIDE DEF f
  <2> QED BY <1>5, <2>1, <2>2
<1>7. rest \in Seq(Unit)
  <2>1. \A i \in 1..Len(buffered) : buffered[i] \in Unit
    BY <1>4, ElementOfSeq
  <2> DEFINE n == FrameLength
  <2>2. n \in Nat
    BY <1>3 DEF HeaderUnits
  <2> HIDE DEF n
  <2>3. n + 1 \in Int /\ Len(buffered) \in Int /\ \A i \in (n + 1)..Len(buffered) : buffered[i] \in Unit
    BY <1>4, <2>1, <2>2
  <2>4. SubSeq(buffered, n + 1, Len(buffered)) \in Seq(Unit)
    BY <2>3, SubSeqProperties
  <2> QED BY <2>4 DEF n
<1> HIDE DEF more, rest, f
<1>8. /\ decoded' \in Seq(FrameOf) /\ Len(decoded') = d + 1 /\ decoded'[d + 1] = f
      /\ \A k \in 1..d : decoded'[k] = decoded[k]
  <2> DEFINE now == Append(decoded, f)
  <2>1. /\ now \in Seq(FrameOf) /\ Len(now) = d + 1 /\ now[d + 1] = f
        /\ \A k \in 1..d : now[k] = decoded[k]
    BY <1>3, <1>4, AppendProperties
  <2>2. decoded' = now
    BY <1>1, <1>6
  <2> HIDE DEF now, d
  <2> QED BY <2>1, <2>2
<1>9. FrameTypeOK'
  <2>1. buffered' \in Seq(Unit)
    BY <1>1, <1>7
  <2> QED BY <1>1, <1>8, <2>1, FrameTyped DEF FrameTypeOK
<1>10. HandedOver' /\ (readLoop' = "idle" => decoded' = <<>>)
  BY <1>1, FrameTyped DEF HandedOver
<1>11. InFlight(P)'
  <2>1. Len(decoded') <= Len(P)
    BY <1>3, <1>8
  <2>2. \A k \in 1..d : decoded[k] = P[k]
    BY <1>2 DEF InFlight, Flies
  <2>3. \A k \in 1..(d + 1) : decoded'[k] = P[k]
    <3>1. SUFFICES ASSUME NEW k \in 1..(d + 1) PROVE decoded'[k] = P[k]
      OBVIOUS
    <3>2. k \in 1..d \/ k = d + 1
      BY <1>3
    <3> QED BY <1>8, <2>2, <3>2 DEF f
  <2>4. Spells(P, Len(decoded'), buffered' \o wire')
    BY <1>1, <1>5, <1>8
  <2>5. \A k \in 1..Len(P) : Readable(P[k])
    BY <1>2 DEF InFlight, Flies
  <2>6. Flies(P, decoded', buffered' \o wire')
    BY <1>8, <2>1, <2>3, <2>4, <2>5 DEF Flies
  <2>7. Carrying
    BY <1>1 DEF Carrying, Faultless
  <2> QED BY <1>2, <2>6, <2>7, StillInFlight
<1>12. Faultless' => Assembled'
  BY <1>1 DEF FrameInv, Faultless, Assembled
<1> QED BY <1>2, <1>9, <1>10, <1>11, <1>12 DEF FrameInv

(* No header of a faultless sender is refused; one that is closes the        *)
(* stream.                                                                   *)
LEMMA HeaderIsRefusedKeeps ==
  ASSUME FrameInv, HeaderIsRefused
  PROVE  FrameInv'
<1>1. /\ readLoop = "decoding" /\ HeaderIsThere /\ ~ validateFrameHeader(buffered[1])
      /\ readLoop' = "idle" /\ decoded' = <<>> /\ stream' = "closed"
      /\ sent' = sent /\ messages' = messages /\ fault' = fault /\ wire' = wire
      /\ buffered' = buffered /\ transfers' = transfers /\ completed' = completed
      /\ handed' = handed /\ cancelled' = cancelled
  BY DEF HeaderIsRefused, receiver
<1>2. FrameTypeOK'
  <2>1. decoded' \in Seq(FrameOf)
    BY <1>1, EmptySeq
  <2> QED BY <1>1, <2>1, FrameTyped DEF FrameTypeOK
<1>3. HandedOver' /\ (readLoop' = "idle" => decoded' = <<>>)
  BY <1>1, FrameTyped DEF HandedOver
<1>4. ~ Alive'
  BY <1>1 DEF Alive
<1>5. ~ Faultless
  <2>1. SUFFICES ASSUME Faultless PROVE FALSE
    OBVIOUS
  <2>2. PICK P \in Seq(FrameOf) : InFlight(P)
    BY <1>1 DEF FrameInv, Alive
  <2> DEFINE d == Len(decoded)
             f == P[d + 1]
  <2>3. /\ d \in Nat /\ d < Len(P) /\ Len(P) \in Nat /\ f \in FrameOf
        /\ buffered[1] = [unit |-> "header", kind |-> f.kind, length |-> Len(f.payload)]
    BY <1>1, <2>2, HeaderFacts
  <2>4. Proper(f)
    <3>1. d + 1 \in 1..Len(P)
      BY <2>3
    <3> QED BY <2>1, <2>2, <3>1 DEF InFlight
  <2> HIDE DEF f
  <2>5. f.kind \in {"binary", "json"} /\ Len(f.payload) <= MaxPayload
    BY <2>3, <2>4, ProperFacts
  <2>6. buffered[1].kind = f.kind /\ buffered[1].length = Len(f.payload)
    BY <2>3
  <2> QED BY <1>1, <2>5, <2>6 DEF validateFrameHeader
<1>6. ~ Faultless'
  BY <1>1, <1>5 DEF Faultless
<1> QED BY <1>2, <1>3, <1>4, <1>6 DEF FrameInv

(* What is left in the buffer is no frame yet.                               *)
LEMMA FrameIsIncompleteKeeps ==
  ASSUME FrameInv, FrameIsIncomplete
  PROVE  FrameInv'
<1>1. /\ readLoop = "decoding" /\ readLoop' = "accepting"
      /\ HeaderIsThere => FrameLength > Len(buffered)
      /\ sent' = sent /\ messages' = messages /\ fault' = fault /\ wire' = wire
      /\ buffered' = buffered /\ decoded' = decoded /\ stream' = stream
      /\ transfers' = transfers /\ completed' = completed
      /\ handed' = handed /\ cancelled' = cancelled
  BY DEF FrameIsIncomplete, receiver
<1>2. FrameTypeOK' /\ HandedOver' /\ (readLoop' = "idle" => decoded' = <<>>)
  BY <1>1, FrameTyped DEF FrameTypeOK, HandedOver
<1>3. PICK P \in Seq(FrameOf) : InFlight(P)
  BY <1>1 DEF FrameInv, Alive
<1>4. InFlight(P)'
  <2>1. Flies(P, decoded', buffered' \o wire')
    BY <1>1, <1>3 DEF InFlight
  <2>2. Carrying
    BY <1>1 DEF Carrying, Faultless
  <2> QED BY <1>3, <2>1, <2>2, StillInFlight
<1>5. Faultless' => Assembled'
  <2>1. SUFFICES ASSUME Faultless' PROVE Assembled'
    OBVIOUS
  <2>2. Assembled
    BY <1>1, <2>1 DEF FrameInv, Faultless
  <2>3. ~ (HeaderIsThere /\ FrameLength <= Len(buffered))
    <3>1. SUFFICES ASSUME HeaderIsThere, FrameLength <= Len(buffered) PROVE FALSE
      OBVIOUS
    <3>2. FrameLength > Len(buffered)
      BY <1>1, <3>1
    <3>3. Len(buffered) \in Nat
      BY FrameTyped, LenProperties
    <3>4. FrameLength \in Nat
      <4> DEFINE size == Len(P[Len(decoded) + 1].payload)
      <4>1. FrameLength = HeaderUnits + size /\ size \in Nat
        BY <1>1, <1>3, <3>1, HeaderFacts
      <4> HIDE DEF size
      <4> QED BY <4>1 DEF HeaderUnits
    <3> DEFINE x == FrameLength
               y == Len(buffered)
    <3>5. x \in Nat /\ y \in Nat /\ x > y /\ x <= y
      BY <3>1, <3>2, <3>3, <3>4
    <3> HIDE DEF x, y
    <3> QED BY <3>5
  <2>4. ~ (HeaderIsThere' /\ FrameLength' <= Len(buffered'))
    BY <1>1, <2>3 DEF HeaderIsThere, FrameLength
  <2> QED BY <1>1, <2>2, <2>4 DEF Assembled
<1> QED BY <1>2, <1>3, <1>4, <1>5 DEF FrameInv

-----------------------------------------------------------------------------
(* The steps of the loop over the frames of a read. *)

(* No frame of a faultless sender is unreadable; one that is closes the      *)
(* stream.                                                                   *)
LEMMA FrameIsUnreadableKeeps ==
  ASSUME FrameInv, FrameIsUnreadable
  PROVE  FrameInv'
<1>1. /\ readLoop \in {"accepting", "awaiting"} /\ decoded # <<>>
      /\ payload # <<>> =>
           Head(decoded).kind = "json" /\ ~ parseProtocolMessage(payload[1].message)
      /\ readLoop' = "idle" /\ decoded' = <<>> /\ stream' = "closed"
      /\ sent' = sent /\ messages' = messages /\ fault' = fault /\ wire' = wire
      /\ buffered' = buffered /\ transfers' = transfers /\ completed' = completed
      /\ handed' = handed /\ cancelled' = cancelled
  BY DEF FrameIsUnreadable, Accepting, receiver
<1>2. FrameTypeOK'
  <2>1. decoded' \in Seq(FrameOf)
    BY <1>1, EmptySeq
  <2> QED BY <1>1, <2>1, FrameTyped DEF FrameTypeOK
<1>3. HandedOver' /\ (readLoop' = "idle" => decoded' = <<>>)
  BY <1>1, FrameTyped DEF HandedOver
<1>4. ~ Alive'
  BY <1>1 DEF Alive
<1>5. ~ Faultless
  <2>1. SUFFICES ASSUME Faultless PROVE FALSE
    OBVIOUS
  <2>2. PICK P \in Seq(FrameOf) : InFlight(P)
    BY <1>1 DEF FrameInv, Alive
  <2> DEFINE f == P[1]
  <2>3. f = Head(decoded) /\ f \in FrameOf /\ Len(P) \in Nat \ {0}
    BY <1>1, <2>2, FrameTyped, FirstTaken DEF InFlight
  <2>4. Proper(f)
    <3>1. 1 \in 1..Len(P)
      BY <2>3
    <3> QED BY <2>1, <2>2, <3>1 DEF InFlight
  <2> HIDE DEF f
  <2>5. f.payload # <<>> /\ (f.kind = "json" => parseProtocolMessage(f.payload[1].message))
    BY <2>3, <2>4, ProperFacts
  <2>6. payload = f.payload
    BY <2>3 DEF payload
  <2> QED BY <1>1, <2>3, <2>5, <2>6
<1>6. ~ Faultless'
  BY <1>1, <1>5 DEF Faultless
<1> QED BY <1>2, <1>3, <1>4, <1>6 DEF FrameInv

(* The first of the decoded frames is accepted; what it counts for comes     *)
(* next.                                                                     *)
LEMMA AcceptedInFlight ==
  ASSUME FrameInv, decoded # <<>>, NEW P \in Seq(FrameOf), InFlight(P)
  PROVE  LET f == P[1]
             Q == Tail(P)
         IN /\ f = Head(decoded) /\ f \in FrameOf /\ Readable(f)
            /\ Q \in Seq(FrameOf) /\ Flies(Q, Tail(decoded), buffered \o wire)
            /\ Tail(decoded) \in Seq(FrameOf)
            /\ NumberOf(f) = -1 =>
                 Counted(Numbers(Q), Len(Q), Len(handed) + 1, messages + 1)
            /\ NumberOf(f) # -1 =>
                 /\ NumberOf(f) = Len(handed) + 1
                 /\ Counted(Numbers(Q), Len(Q), Len(handed) + 2, messages + 1)
            /\ Faultless => Proper(f) /\ \A k \in 1..Len(Q) : Proper(Q[k])
            /\ Faultless => \A id \in TransferId :
                 /\ SequenceOf(f, id) = -1 =>
                      Counted(SequenceNumbers(Q, id), Len(Q), Accepted(id), sent[id])
                 /\ SequenceOf(f, id) # -1 =>
                      /\ SequenceOf(f, id) = Accepted(id)
                      /\ Counted(SequenceNumbers(Q, id), Len(Q), Accepted(id) + 1, sent[id])
<1> DEFINE f == P[1]
           Q == Tail(P)
           m == Len(P)
<1>1. decoded \in Seq(FrameOf) /\ messages \in Nat /\ handed \in Seq(Nat)
      /\ sent \in [TransferId -> Nat]
  BY FrameTyped
<1>2. /\ Q \in Seq(FrameOf) /\ m \in Nat \ {0} /\ Len(Q) = m - 1
      /\ \A k \in 1..(m - 1) : Q[k] = P[k + 1]
      /\ f = Head(decoded) /\ f \in FrameOf /\ Readable(f)
      /\ Flies(Q, Tail(decoded), buffered \o wire)
  BY <1>1, FirstTaken DEF InFlight
<1>3. Tail(decoded) \in Seq(FrameOf)
  BY <1>1, HeadTailProperties
<1>4. \A k \in 1..m : P[k] \in FrameOf /\ Readable(P[k])
  BY ElementOfSeq DEF InFlight, Flies
<1> HIDE DEF Q, m
<1>5. /\ NumberOf(f) = -1 => Counted(Numbers(Q), Len(Q), Len(handed) + 1, messages + 1)
      /\ NumberOf(f) # -1 =>
           /\ NumberOf(f) = Len(handed) + 1
           /\ Counted(Numbers(Q), Len(Q), Len(handed) + 2, messages + 1)
  <2> DEFINE V == Numbers(P)
             W == Numbers(Q)
             a == Len(handed) + 1
             b == messages + 1
  <2>1. Counted(V, m, a, b)
    BY DEF InFlight, m
  <2>2. a \in Nat /\ b \in Nat /\ a + 1 = Len(handed) + 2
    <3>1. Len(handed) \in Nat
      BY <1>1, LenProperties
    <3> QED BY <1>1, <3>1
  <2>3. \A k \in 1..m : V[k] = NumberOf(P[k]) /\ V[k] \in Int
    <3>1. \A k \in 1..m : V[k] = NumberOf(P[k])
      BY DEF Numbers, m
    <3> HIDE DEF V
    <3> QED BY <1>4, <3>1, ReadableFacts
  <2>4. \A k \in 1..(m - 1) : W[k] = V[k + 1]
    <3>1. SUFFICES ASSUME NEW k \in 1..(m - 1) PROVE W[k] = V[k + 1]
      OBVIOUS
    <3>2. W[k] = NumberOf(Q[k])
      BY <1>2 DEF Numbers
    <3>3. k + 1 \in 1..m
      BY <1>2
    <3> HIDE DEF V, W
    <3> QED BY <1>2, <2>3, <3>2, <3>3
  <2>5. V[1] = NumberOf(f)
    <3>1. 1 \in 1..m
      BY <1>2
    <3> HIDE DEF V
    <3> QED BY <2>3, <3>1
  <2> HIDE DEF V, W, a, b
  <2>6. /\ V[1] = -1 => Counted(W, m - 1, a, b)
        /\ V[1] # -1 => V[1] = a /\ a < b /\ Counted(W, m - 1, a + 1, b)
    BY <1>2, <2>1, <2>2, <2>3, <2>4, CountedTail
  <2> QED BY <1>2, <2>2, <2>5, <2>6 DEF W, a, b
<1>6. Faultless => Proper(f) /\ \A k \in 1..Len(Q) : Proper(Q[k])
  <2>1. SUFFICES ASSUME Faultless PROVE Proper(f) /\ \A k \in 1..Len(Q) : Proper(Q[k])
    OBVIOUS
  <2>2. \A k \in 1..m : Proper(P[k])
    BY <2>1 DEF InFlight, m
  <2>3. 1 \in 1..m /\ \A k \in 1..(m - 1) : k + 1 \in 1..m
    BY <1>2
  <2> QED BY <1>2, <2>2, <2>3
<1>7. ASSUME Faultless, NEW id \in TransferId
      PROVE  /\ SequenceOf(f, id) = -1 =>
                  Counted(SequenceNumbers(Q, id), Len(Q), Accepted(id), sent[id])
             /\ SequenceOf(f, id) # -1 =>
                  /\ SequenceOf(f, id) = Accepted(id)
                  /\ Counted(SequenceNumbers(Q, id), Len(Q), Accepted(id) + 1, sent[id])
  <2> DEFINE V == SequenceNumbers(P, id)
             W == SequenceNumbers(Q, id)
             a == Accepted(id)
             b == sent[id]
  <2>1. Counted(V, m, a, b)
    BY <1>7 DEF InFlight, m
  <2>2. a \in Nat /\ b \in Nat
    <3>1. a \in Nat
      BY FrameTyped, ChunkCountFacts DEF Accepted
    <3> QED BY <1>1, <3>1
  <2>3. \A k \in 1..m : V[k] = SequenceOf(P[k], id) /\ V[k] \in Int
    <3>1. \A k \in 1..m : V[k] = SequenceOf(P[k], id)
      BY DEF SequenceNumbers, m
    <3> HIDE DEF V
    <3> QED BY <1>4, <3>1, ReadableFacts
  <2>4. \A k \in 1..(m - 1) : W[k] = V[k + 1]
    <3>1. SUFFICES ASSUME NEW k \in 1..(m - 1) PROVE W[k] = V[k + 1]
      OBVIOUS
    <3>2. W[k] = SequenceOf(Q[k], id)
      BY <1>2 DEF SequenceNumbers
    <3>3. k + 1 \in 1..m
      BY <1>2
    <3> HIDE DEF V, W
    <3> QED BY <1>2, <2>3, <3>2, <3>3
  <2>5. V[1] = SequenceOf(f, id)
    <3>1. 1 \in 1..m
      BY <1>2
    <3> HIDE DEF V
    <3> QED BY <2>3, <3>1
  <2> HIDE DEF V, W, a, b
  <2>6. /\ V[1] = -1 => Counted(W, m - 1, a, b)
        /\ V[1] # -1 => V[1] = a /\ a < b /\ Counted(W, m - 1, a + 1, b)
    BY <1>2, <2>1, <2>2, <2>3, <2>4, CountedTail
  <2> QED BY <1>2, <2>5, <2>6 DEF W, a, b
<1> QED BY <1>2, <1>3, <1>5, <1>6, <1>7 DEF Q

(* The message handed over is the next one.                                  *)
LEMMA AcceptMessageKeeps ==
  ASSUME FrameInv, AcceptMessage
  PROVE  FrameInv'
<1>1. /\ readLoop \in {"accepting", "awaiting"} /\ decoded # <<>>
      /\ Head(decoded).kind = "json"
      /\ handed' = Append(handed, Head(decoded).payload[1].number)
      /\ readLoop' = "accepting" /\ decoded' = Tail(decoded) /\ stream' = stream
      /\ sent' = sent /\ messages' = messages /\ fault' = fault /\ wire' = wire
      /\ buffered' = buffered /\ transfers' = transfers /\ completed' = completed
      /\ cancelled' = cancelled
  BY DEF AcceptMessage, Accepting, payload
<1>2. PICK P \in Seq(FrameOf) : InFlight(P)
  BY <1>1 DEF FrameInv, Alive
<1> DEFINE f == P[1]
           Q == Tail(P)
<1>3. /\ f = Head(decoded) /\ f \in FrameOf /\ Readable(f)
      /\ Q \in Seq(FrameOf) /\ Flies(Q, Tail(decoded), buffered \o wire)
      /\ Tail(decoded) \in Seq(FrameOf)
      /\ NumberOf(f) # -1 =>
           /\ NumberOf(f) = Len(handed) + 1
           /\ Counted(Numbers(Q), Len(Q), Len(handed) + 2, messages + 1)
      /\ Faultless => Proper(f) /\ \A k \in 1..Len(Q) : Proper(Q[k])
      /\ Faultless => \A id \in TransferId :
           SequenceOf(f, id) = -1 =>
             Counted(SequenceNumbers(Q, id), Len(Q), Accepted(id), sent[id])
  BY <1>1, <1>2, AcceptedInFlight
<1> HIDE DEF f, Q
<1>4. f.kind = "json" /\ NumberOf(f) \in Nat /\ NumberOf(f) = f.payload[1].number
  BY <1>1, <1>3, ReadableFacts DEF NumberOf
<1>5. \A id \in TransferId : SequenceOf(f, id) = -1
  BY <1>4 DEF SequenceOf
<1>6. handed \in Seq(Nat) /\ Len(handed) \in Nat
  BY FrameTyped, LenProperties
<1> DEFINE n == Len(handed)
           now == Append(handed, n + 1)
<1>7. NumberOf(f) = n + 1 /\ Counted(Numbers(Q), Len(Q), n + 2, messages + 1)
  <2>1. NumberOf(f) # -1
    BY <1>4
  <2> QED BY <1>3, <2>1
<1>8. handed' = now
  BY <1>1, <1>3, <1>4, <1>7
<1>9. /\ now \in Seq(Nat) /\ Len(now) = n + 1 /\ now[n + 1] = n + 1
      /\ \A k \in 1..n : now[k] = handed[k]
      /\ DOMAIN now = 1..(n + 1) /\ DOMAIN handed = 1..n
  <2>1. n + 1 \in Nat
    BY <1>6
  <2>2. /\ now \in Seq(Nat) /\ Len(now) = n + 1 /\ now[n + 1] = n + 1
        /\ \A k \in 1..n : now[k] = handed[k]
    BY <1>6, <2>1, AppendProperties
  <2> HIDE DEF now
  <2> QED BY <1>6, <2>2, LenProperties
<1> HIDE DEF now, n
<1>10. FrameTypeOK'
  <2>1. decoded' \in Seq(FrameOf) /\ handed' \in Seq(Nat)
    BY <1>1, <1>3, <1>8, <1>9
  <2> QED BY <1>1, <2>1, FrameTyped DEF FrameTypeOK
<1>11. HandedOver'
  <2>1. \A k \in 1..n : handed[k] = k
    BY <1>9, FrameTyped DEF HandedOver
  <2>2. n \in Nat
    BY <1>6 DEF n
  <2>3. \A k \in DOMAIN now : now[k] = k
    <3>1. SUFFICES ASSUME NEW k \in 1..(n + 1) PROVE now[k] = k
      BY <1>9
    <3>2. k \in 1..n \/ k = n + 1
      BY <2>2
    <3> QED BY <1>9, <2>1, <3>2
  <2>4. \A id \in TransferId : completed'[id] \subseteq {Data[id]}
    BY <1>1, FrameTyped DEF HandedOver
  <2> QED BY <1>8, <2>3, <2>4 DEF HandedOver
<1>12. InFlight(Q)'
  <2>1. Flies(Q, decoded', buffered' \o wire')
    BY <1>1, <1>3
  <2>2. Counted(Numbers(Q), Len(Q), Len(handed') + 1, messages' + 1)
    <3>1. Len(handed') = n + 1
      BY <1>8, <1>9
    <3>2. n + 1 + 1 = n + 2
      BY <1>6 DEF n
    <3>3. Len(handed') + 1 = n + 2
      BY <3>1, <3>2
    <3> QED BY <1>1, <1>7, <3>3
  <2>3. Faultless' => \A k \in 1..Len(Q) : Proper(Q[k])
    BY <1>1, <1>3 DEF Faultless
  <2>4. ASSUME Faultless', NEW id \in TransferId
        PROVE  Counted(SequenceNumbers(Q, id), Len(Q), Accepted(id)', sent'[id])
    <3>1. Faultless
      BY <1>1, <2>4 DEF Faultless
    <3>2. Accepted(id)' = Accepted(id)
      BY <1>1 DEF Accepted
    <3> QED BY <1>1, <1>3, <1>5, <3>1, <3>2
  <2> QED BY <2>1, <2>2, <2>3, <2>4 DEF InFlight
<1>13. Faultless' => Assembled'
  <2>1. Faultless' => Assembled
    BY <1>1 DEF FrameInv, Faultless
  <2> QED BY <1>1, <2>1 DEF Assembled, HeaderIsThere, FrameLength
<1> QED BY <1>1, <1>3, <1>10, <1>11, <1>12, <1>13 DEF FrameInv

(* What acceptChunk does with a chunk.                                       *)
LEMMA ChunkAccepted ==
  ASSUME NEW chunk, NEW data, acceptChunk(chunk, data)
  PROVE  LET id == chunk.id
             next == [next |-> transfers[id].next + 1, data |-> transfers[id].data \o data]
         IN /\ \/ transfers' = transfers
               \/ transfers' = [transfers EXCEPT ![id] = next]
               \/ transfers' = [transfers EXCEPT ![id] = Fresh]
            /\ \/ completed' = completed
               \/ /\ chunk.final /\ Verified(chunk, next.data)
                  /\ completed' = [completed EXCEPT ![id] = @ \cup {next.data}]
            /\ stream' = stream \/ (stream = "open" /\ stream' = "closing")
            /\ id \notin cancelled /\ chunk.sequence = transfers[id].next =>
                 /\ ~ chunk.final =>
                      /\ transfers' = [transfers EXCEPT ![id] = next]
                      /\ completed' = completed /\ stream' = stream
                 /\ chunk.final /\ chunk.totalBytes # -1 /\ Verified(chunk, next.data) =>
                      /\ completed' = [completed EXCEPT ![id] = @ \cup {next.data}]
                      /\ stream' = stream
<1> DEFINE id == chunk.id
           next == [next |-> transfers[id].next + 1, data |-> transfers[id].data \o data]
<1>1. \/ /\ id \in cancelled \/ chunk.sequence # transfers[id].next
         /\ ChunkFails /\ transfers' = transfers /\ completed' = completed
      \/ /\ id \notin cancelled /\ chunk.sequence = transfers[id].next
         /\ \/ /\ ~chunk.final
               /\ transfers' = [transfers EXCEPT ![id] = next]
               /\ completed' = completed /\ stream' = stream
            \/ /\ chunk.final /\ chunk.totalBytes = -1
               /\ transfers' = [transfers EXCEPT ![id] = next]
               /\ ChunkFails /\ completed' = completed
            \/ /\ chunk.final /\ chunk.totalBytes # -1 /\ ~Verified(chunk, next.data)
               /\ transfers' = [transfers EXCEPT ![id] = Fresh]
               /\ ChunkFails /\ completed' = completed
            \/ /\ chunk.final /\ chunk.totalBytes # -1 /\ Verified(chunk, next.data)
               /\ transfers' = [transfers EXCEPT ![id] = Fresh]
               /\ completed' = [completed EXCEPT ![id] = @ \cup {next.data}]
               /\ stream' = stream
  BY DEF acceptChunk
<1>2. ChunkFails => stream' = stream \/ (stream = "open" /\ stream' = "closing")
  BY DEF ChunkFails
<1> HIDE DEF next, id
<1>3. \/ transfers' = transfers
      \/ transfers' = [transfers EXCEPT ![id] = next]
      \/ transfers' = [transfers EXCEPT ![id] = Fresh]
  BY <1>1
<1>4. \/ completed' = completed
      \/ /\ chunk.final /\ Verified(chunk, next.data)
         /\ completed' = [completed EXCEPT ![id] = @ \cup {next.data}]
  BY <1>1
<1>5. stream' = stream \/ (stream = "open" /\ stream' = "closing")
  BY <1>1, <1>2
<1>6. id \notin cancelled /\ chunk.sequence = transfers[id].next =>
        /\ ~ chunk.final =>
             /\ transfers' = [transfers EXCEPT ![id] = next]
             /\ completed' = completed /\ stream' = stream
        /\ chunk.final /\ chunk.totalBytes # -1 /\ Verified(chunk, next.data) =>
             /\ completed' = [completed EXCEPT ![id] = @ \cup {next.data}]
             /\ stream' = stream
  BY <1>1
<1> QED BY <1>3, <1>4, <1>5, <1>6 DEF id, next

(* An accepted chunk keeps the types, and what passes the checksum is the    *)
(* payload.                                                                  *)
LEMMA AcceptChunkTyped ==
  ASSUME FrameInv, AcceptChunk,
         NEW chunk \in Chunk, NEW data \in Seq(Int), acceptChunk(chunk, data),
         chunk.final => chunk.sha256 = Data[chunk.id]
  PROVE  FrameTypeOK' /\ HandedOver'
<1>1. /\ decoded # <<>> /\ readLoop' = "awaiting" /\ decoded' = Tail(decoded)
      /\ sent' = sent /\ messages' = messages /\ fault' = fault /\ wire' = wire
      /\ buffered' = buffered /\ handed' = handed /\ cancelled' = cancelled
  BY DEF AcceptChunk, Accepting
<1> DEFINE id == chunk.id
           whole == transfers[id].data \o data
           next == [next |-> transfers[id].next + 1, data |-> whole]
<1>2. /\ \/ transfers' = transfers
         \/ transfers' = [transfers EXCEPT ![id] = next]
         \/ transfers' = [transfers EXCEPT ![id] = Fresh]
      /\ \/ completed' = completed
         \/ /\ chunk.final /\ Verified(chunk, next.data)
            /\ completed' = [completed EXCEPT ![id] = @ \cup {next.data}]
      /\ stream' = stream \/ (stream = "open" /\ stream' = "closing")
  BY ChunkAccepted
<1>3. /\ id \in TransferId /\ transfers \in [TransferId -> [next : Nat, data : Seq(Int)]]
      /\ completed \in [TransferId -> SUBSET Seq(Int)]
  BY FrameTyped DEF Chunk
<1>4. whole \in Seq(Int)
  <2>1. transfers[id].data \in Seq(Int)
    BY <1>3
  <2> QED BY <2>1, ConcatProperties
<1>5. next \in [next : Nat, data : Seq(Int)] /\ Fresh \in [next : Nat, data : Seq(Int)]
      /\ next.data = whole
  <2>1. transfers[id].next + 1 \in Nat /\ <<>> \in Seq(Int)
    BY <1>3, EmptySeq
  <2> HIDE DEF whole
  <2> QED BY <1>4, <2>1 DEF Fresh
<1> HIDE DEF id, next, whole
<1>6. transfers' \in [TransferId -> [next : Nat, data : Seq(Int)]]
  BY <1>2, <1>3, <1>5
<1>7. completed' \in [TransferId -> SUBSET Seq(Int)]
  <2>1. completed[id] \cup {next.data} \in SUBSET Seq(Int)
    BY <1>3, <1>4, <1>5
  <2> QED BY <1>2, <1>3, <2>1
<1>8. decoded' \in Seq(FrameOf)
  BY <1>1, FrameTyped, HeadTailProperties
<1>9. FrameTypeOK'
  BY <1>1, <1>2, <1>6, <1>7, <1>8, FrameTyped DEF FrameTypeOK
<1>10. HandedOver'
  <2>1. \A i \in TransferId : completed[i] \subseteq {Data[i]}
    BY FrameTyped DEF HandedOver
  <2>2. ASSUME NEW i \in TransferId PROVE completed'[i] \subseteq {Data[i]}
    <3>1. CASE completed' = completed
      BY <2>1, <3>1
    <3>2. CASE /\ chunk.final /\ Verified(chunk, next.data)
               /\ completed' = [completed EXCEPT ![id] = @ \cup {next.data}]
      <4>1. next.data = Data[id]
        BY <3>2 DEF Verified, id
      <4>2. completed'[i] = IF i = id THEN completed[id] \cup {next.data} ELSE completed[i]
        BY <1>3, <3>2
      <4> QED BY <2>1, <4>1, <4>2
    <3> QED BY <1>2, <3>1, <3>2
  <2>3. \A n \in DOMAIN handed' : handed'[n] = n
    BY <1>1, FrameTyped DEF HandedOver
  <2> QED BY <2>2, <2>3 DEF HandedOver
<1> QED BY <1>9, <1>10

(* The next chunk of a faultless sender extends what has arrived, or makes   *)
(* it whole.                                                                 *)
LEMMA Extended ==
  ASSUME NEW id \in TransferId, NEW n \in 1..ChunkCount(id)
  PROVE  LET chunk == Chunks(id)[n]
             whole == SubSeq(Data[id], 1, (n - 1) * ChunkSize) \o chunk.data
         IN /\ chunk.final => whole = Data[id]
            /\ ~ chunk.final => whole = SubSeq(Data[id], 1, n * ChunkSize)
<1> DEFINE chunk == Chunks(id)[n]
           t == Len(Data[id])
           from == (n - 1) * ChunkSize
           to == IF chunk.final THEN t ELSE n * ChunkSize
<1>1. /\ Data[id] \in Seq(Int) /\ t \in Nat /\ ChunkCount(id) \in Nat \ {0}
      /\ \A m \in Nat : m < ChunkCount(id) => m * ChunkSize \in 0..t
      /\ ChunkSize \in Nat
  BY ChunkCountFacts, TransferAssumption
<1>2. /\ chunk.final = (n = ChunkCount(id))
      /\ chunk.final => chunk.data = SubSeq(Data[id], from + 1, t)
      /\ ~ chunk.final => chunk.data = SubSeq(Data[id], from + 1, n * ChunkSize)
  BY ChunkFacts
<1> HIDE DEF chunk
<1>3. from \in 0..t
  <2>1. n - 1 \in Nat /\ n - 1 < ChunkCount(id)
    BY <1>1
  <2> QED BY <1>1, <2>1
<1>4. to \in from..t
  <2>1. CASE chunk.final
    BY <1>1, <1>3, <2>1
  <2>2. CASE ~ chunk.final
    <3>1. n \in Nat /\ n < ChunkCount(id)
      <4>1. n # ChunkCount(id)
        BY <1>2, <2>2
      <4> QED BY <1>1, <4>1
    <3>2. n * ChunkSize \in 0..t
      BY <1>1, <3>1
    <3>3. n * ChunkSize = from + ChunkSize
      BY <1>1
    <3> DEFINE x == n * ChunkSize
    <3>4. to = x /\ x \in 0..t /\ x = from + ChunkSize
      BY <2>2, <3>2, <3>3
    <3> HIDE DEF x, to, from
    <3> QED BY <1>1, <1>3, <3>4
  <2> QED BY <2>1, <2>2
<1> HIDE DEF from, t
<1>5. chunk.data = SubSeq(Data[id], from + 1, to)
  BY <1>2
<1> HIDE DEF to
<1>6. SubSeq(Data[id], 1, from) \o SubSeq(Data[id], from + 1, to) = SubSeq(Data[id], 1, to)
  <2>1. /\ 1 \in 1..(Len(Data[id]) + 1) /\ from \in (1 - 1)..Len(Data[id])
        /\ to \in from..Len(Data[id])
    BY <1>1, <1>3, <1>4 DEF t
  <2> DEFINE whole == Data[id]
  <2>2. /\ 1 \in 1..(Len(whole) + 1) /\ from \in (1 - 1)..Len(whole)
        /\ to \in from..Len(whole) /\ whole \in Seq(Int)
    BY <1>1, <2>1
  <2> HIDE DEF whole
  <2>3. SubSeq(whole, 1, from) \o SubSeq(whole, from + 1, to) = SubSeq(whole, 1, to)
    BY <2>2, ConcatAdjacentSubSeq
  <2> QED BY <2>3 DEF whole
<1>7. SubSeq(Data[id], 1, t) = Data[id]
  BY <1>1, SubSeqFull DEF t
<1>8. chunk.final => to = t
  BY DEF to
<1>9. ~ chunk.final => to = n * ChunkSize
  BY DEF to
<1> QED BY <1>5, <1>6, <1>7, <1>8, <1>9 DEF chunk, from

(* What the receiver gets of the n-th chunk of a transfer.                   *)
IsChunk(chunk, data, id, n) ==
  LET g == Chunks(id)[n]
  IN /\ chunk.id = id /\ chunk.sequence = n - 1 /\ chunk.final = g.final
     /\ chunk.totalBytes = g.totalBytes /\ chunk.sha256 = g.sha256 /\ data = g.data

(* A chunk of a faultless sender arrives: one more of its transfer is        *)
(* accepted, and the others are left alone.                                  *)
LEMMA ChunkArrives ==
  ASSUME FrameInv, Faultless,
         NEW id \in TransferId, NEW n \in 1..ChunkCount(id), Accepted(id) = n - 1,
         NEW chunk, NEW data, IsChunk(chunk, data, id, n), acceptChunk(chunk, data)
  PROVE  /\ stream' = stream
         /\ \A i \in TransferId \ {id} :
              completed'[i] = completed[i] /\ transfers'[i] = transfers[i]
         /\ \/ /\ n = ChunkCount(id) /\ completed'[id] # {}
            \/ /\ n < ChunkCount(id) /\ completed'[id] = {} /\ transfers'[id].next = n
               /\ transfers'[id].data = SubSeq(Data[id], 1, n * ChunkSize)
<1> DEFINE g == Chunks(id)[n]
           whole == transfers[id].data \o g.data
           next == [next |-> transfers[id].next + 1, data |-> whole]
<1>1. /\ g \in Chunk /\ g.id = id /\ g.sequence = n - 1 /\ g.final = (n = ChunkCount(id))
      /\ g.final => g.totalBytes = Len(Data[id]) /\ g.sha256 = Data[id]
  BY ChunkFacts
<1>2. /\ chunk.id = id /\ chunk.sequence = n - 1 /\ chunk.final = g.final
      /\ chunk.totalBytes = g.totalBytes /\ chunk.sha256 = g.sha256 /\ data = g.data
  BY DEF IsChunk
<1>3. ChunkCount(id) \in Nat \ {0} /\ Len(Data[id]) \in Nat
  BY ChunkCountFacts
<1>4. /\ transfers \in [TransferId -> [next : Nat, data : Seq(Int)]]
      /\ completed \in [TransferId -> SUBSET Seq(Int)]
  BY FrameTyped
<1>5. completed[id] = {} /\ transfers[id].next = n - 1
  <2>1. n - 1 # ChunkCount(id)
    BY <1>3
  <2> QED BY <2>1 DEF Accepted
<1>6. transfers[id].data = SubSeq(Data[id], 1, (n - 1) * ChunkSize)
  BY <1>5 DEF FrameInv, Assembled
<1>7. /\ g.final => whole = Data[id]
      /\ ~ g.final => whole = SubSeq(Data[id], 1, n * ChunkSize)
  <2>1. LET now == SubSeq(Data[id], 1, (n - 1) * ChunkSize) \o g.data
        IN /\ g.final => now = Data[id]
           /\ ~ g.final => now = SubSeq(Data[id], 1, n * ChunkSize)
    BY Extended
  <2> HIDE DEF g
  <2> QED BY <1>6, <2>1
<1> DEFINE more == [next |-> transfers[chunk.id].next + 1,
                    data |-> transfers[chunk.id].data \o data]
<1>8. /\ \/ transfers' = transfers
         \/ transfers' = [transfers EXCEPT ![chunk.id] = more]
         \/ transfers' = [transfers EXCEPT ![chunk.id] = Fresh]
      /\ \/ completed' = completed
         \/ /\ chunk.final /\ Verified(chunk, more.data)
            /\ completed' = [completed EXCEPT ![chunk.id] = @ \cup {more.data}]
      /\ chunk.id \notin cancelled /\ chunk.sequence = transfers[chunk.id].next =>
           /\ ~ chunk.final =>
                /\ transfers' = [transfers EXCEPT ![chunk.id] = more]
                /\ completed' = completed /\ stream' = stream
           /\ chunk.final /\ chunk.totalBytes # -1 /\ Verified(chunk, more.data) =>
                /\ completed' = [completed EXCEPT ![chunk.id] = @ \cup {more.data}]
                /\ stream' = stream
  BY ChunkAccepted
<1> HIDE DEF g
<1>9. /\ \/ transfers' = transfers
         \/ transfers' = [transfers EXCEPT ![id] = next]
         \/ transfers' = [transfers EXCEPT ![id] = Fresh]
      /\ \/ completed' = completed
         \/ completed' = [completed EXCEPT ![id] = @ \cup {whole}]
      /\ id \notin cancelled /\ chunk.sequence = transfers[id].next =>
           /\ ~ chunk.final =>
                /\ transfers' = [transfers EXCEPT ![id] = next]
                /\ completed' = completed /\ stream' = stream
           /\ chunk.final /\ chunk.totalBytes # -1 /\ Verified(chunk, whole) =>
                /\ completed' = [completed EXCEPT ![id] = @ \cup {whole}]
                /\ stream' = stream
  <2>1. next.data = whole
    OBVIOUS
  <2>2. chunk.id = id /\ data = g.data
    BY <1>2
  <2> QED BY <1>8, <2>1, <2>2
<1>10. next.next = n /\ next.data = whole
  <2>1. n - 1 + 1 = n
    BY <1>3
  <2> HIDE DEF whole
  <2> QED BY <1>5, <2>1
<1> HIDE DEF next, whole
<1>11. id \notin cancelled /\ chunk.sequence = transfers[id].next
  BY <1>2, <1>5 DEF Faultless
<1>12. \A i \in TransferId \ {id} :
         completed'[i] = completed[i] /\ transfers'[i] = transfers[i]
  BY <1>4, <1>9
<1>13. CASE n = ChunkCount(id)
  <2>1. g.final /\ chunk.final
    BY <1>1, <1>2, <1>13
  <2>2. chunk.totalBytes = Len(Data[id]) /\ chunk.sha256 = Data[id] /\ whole = Data[id]
    BY <1>1, <1>2, <1>7, <2>1
  <2>3. chunk.totalBytes # -1
    BY <1>3, <2>2
  <2>4. Verified(chunk, whole)
    BY <2>2 DEF Verified
  <2>5. completed' = [completed EXCEPT ![id] = @ \cup {whole}] /\ stream' = stream
    BY <1>9, <1>11, <2>1, <2>3, <2>4
  <2>6. completed'[id] = completed[id] \cup {whole}
    BY <1>4, <2>5
  <2> QED BY <1>12, <1>13, <2>5, <2>6
<1>14. CASE n # ChunkCount(id)
  <2>1. ~ g.final /\ ~ chunk.final /\ n < ChunkCount(id)
    <3>1. n < ChunkCount(id)
      BY <1>3, <1>14
    <3> QED BY <1>1, <1>2, <1>14, <3>1
  <2>2. /\ transfers' = [transfers EXCEPT ![id] = next]
        /\ completed' = completed /\ stream' = stream
    BY <1>9, <1>11, <2>1
  <2>3. transfers'[id] = next /\ completed'[id] = {}
    BY <1>4, <1>5, <2>2
  <2>4. transfers'[id].next = n /\ transfers'[id].data = SubSeq(Data[id], 1, n * ChunkSize)
    BY <1>7, <1>10, <2>1, <2>3
  <2> QED BY <1>12, <2>1, <2>2, <2>3, <2>4
<1> QED BY <1>13, <1>14

(* A faultless sender's chunk is the one its transfer waits for.             *)
LEMMA AcceptChunkKeeps ==
  ASSUME FrameInv, AcceptChunk
  PROVE  FrameInv'
<1>1. /\ readLoop \in {"accepting", "awaiting"} /\ decoded # <<>>
      /\ payload # <<>> /\ Head(decoded).kind = "binary"
      /\ acceptChunk(payload[1].chunk,
                     [k \in 1..(Len(payload) - 1) |-> payload[k + 1].value])
      /\ readLoop' = "awaiting" /\ decoded' = Tail(decoded)
      /\ sent' = sent /\ messages' = messages /\ fault' = fault /\ wire' = wire
      /\ buffered' = buffered /\ handed' = handed /\ cancelled' = cancelled
  BY DEF AcceptChunk, Accepting
<1>2. PICK P \in Seq(FrameOf) : InFlight(P)
  BY <1>1 DEF FrameInv, Alive
<1> DEFINE f == P[1]
           Q == Tail(P)
<1>3. /\ f = Head(decoded) /\ f \in FrameOf /\ Readable(f)
      /\ Q \in Seq(FrameOf) /\ Flies(Q, Tail(decoded), buffered \o wire)
      /\ Tail(decoded) \in Seq(FrameOf)
      /\ NumberOf(f) = -1 =>
           Counted(Numbers(Q), Len(Q), Len(handed) + 1, messages + 1)
      /\ Faultless => Proper(f) /\ \A k \in 1..Len(Q) : Proper(Q[k])
      /\ Faultless => \A id \in TransferId :
           /\ SequenceOf(f, id) = -1 =>
                Counted(SequenceNumbers(Q, id), Len(Q), Accepted(id), sent[id])
           /\ SequenceOf(f, id) # -1 =>
                /\ SequenceOf(f, id) = Accepted(id)
                /\ Counted(SequenceNumbers(Q, id), Len(Q), Accepted(id) + 1, sent[id])
  BY <1>1, <1>2, AcceptedInFlight
<1> HIDE DEF f, Q
<1>4. /\ f.kind = "binary" /\ f.payload # <<>>
      /\ acceptChunk(f.payload[1].chunk,
                     [k \in 1..(Len(f.payload) - 1) |-> f.payload[k + 1].value])
  <2>1. payload = f.payload
    BY <1>3 DEF payload
  <2> QED BY <1>1, <1>3, <2>1
<1>5. PICK c \in Chunk : /\ f.payload = ChunkPayload(c)
                         /\ c.final => c.sha256 = Data[c.id]
  BY <1>3, <1>4 DEF Readable
<1> DEFINE chunk == f.payload[1].chunk
           data == [k \in 1..(Len(f.payload) - 1) |-> f.payload[k + 1].value]
<1>6. chunk = [c EXCEPT !.data = <<>>] /\ data = c.data /\ NumberOf(f) = -1
  BY <1>3, <1>4, <1>5, ChunkFrameFacts
<1>7. acceptChunk(chunk, data)
  BY <1>4
<1> HIDE DEF chunk, data
<1>8. FrameTypeOK' /\ HandedOver'
  <2>1. <<>> \in Seq(Int)
    BY EmptySeq
  <2>2. chunk \in Chunk /\ chunk.id = c.id /\ chunk.final = c.final /\ chunk.sha256 = c.sha256
    BY <1>6, <2>1 DEF Chunk
  <2>3. data \in Seq(Int)
    BY <1>6 DEF Chunk
  <2>4. chunk.final => chunk.sha256 = Data[chunk.id]
    BY <1>5, <2>2
  <2> QED BY <1>7, <2>2, <2>3, <2>4, AcceptChunkTyped
<1>9. ASSUME Faultless
      PROVE  /\ Assembled'
             /\ \A i \in TransferId :
                  Counted(SequenceNumbers(Q, i), Len(Q), Accepted(i)', sent'[i])
  <2>1. Proper(f)
    BY <1>3, <1>9
  <2>2. PICK id \in TransferId :
          \E k \in 1..ChunkCount(id) : f.payload = ChunkPayload(Chunks(id)[k])
    BY <1>4, <2>1 DEF Proper
  <2>3. PICK n \in 1..ChunkCount(id) : f.payload = ChunkPayload(Chunks(id)[n])
    BY <2>2
  <2>4. Chunks(id)[n] \in Chunk /\ Chunks(id)[n].id = id /\ Chunks(id)[n].sequence = n - 1
    BY ChunkFacts
  <2> DEFINE g == Chunks(id)[n]
  <2>5. /\ chunk = [g EXCEPT !.data = <<>>] /\ data = g.data
        /\ \A i \in TransferId : SequenceOf(f, i) = IF g.id = i THEN g.sequence ELSE -1
    <3>1. g \in Chunk /\ f.payload = ChunkPayload(g) /\ f.kind = "binary" /\ f \in FrameOf
      BY <1>3, <1>4, <2>3, <2>4
    <3> HIDE DEF g
    <3> QED BY <3>1, ChunkFrameFacts DEF chunk, data
  <2>6. ChunkCount(id) \in Nat \ {0}
    BY ChunkCountFacts
  <2>7. \A i \in TransferId : SequenceOf(f, i) = IF id = i THEN n - 1 ELSE -1
    BY <2>4, <2>5
  <2>8. n - 1 # -1
    BY <2>6
  <2>9. /\ Accepted(id) = n - 1
        /\ Counted(SequenceNumbers(Q, id), Len(Q), Accepted(id) + 1, sent[id])
    <3>1. SequenceOf(f, id) = n - 1
      BY <2>7
    <3> QED BY <1>3, <1>9, <2>8, <3>1
  <2>11. /\ stream' = stream
         /\ \A i \in TransferId \ {id} :
              completed'[i] = completed[i] /\ transfers'[i] = transfers[i]
         /\ \/ /\ n = ChunkCount(id) /\ completed'[id] # {}
            \/ /\ n < ChunkCount(id) /\ completed'[id] = {} /\ transfers'[id].next = n
               /\ transfers'[id].data = SubSeq(Data[id], 1, n * ChunkSize)
    <3>1. g \in Chunk /\ g.id = id /\ g.sequence = n - 1
      BY <2>4
    <3>2. chunk = [g EXCEPT !.data = <<>>] /\ data = g.data
      BY <2>5
    <3>3. /\ chunk.id = id /\ chunk.sequence = n - 1 /\ chunk.final = g.final
          /\ chunk.totalBytes = g.totalBytes /\ chunk.sha256 = g.sha256
      <4> HIDE DEF g
      <4> QED BY <3>1, <3>2 DEF Chunk
    <3>4. IsChunk(chunk, data, id, n)
      BY <3>2, <3>3 DEF IsChunk
    <3> QED BY <1>7, <1>9, <2>9, <3>4, ChunkArrives
  <2> HIDE DEF g
  <2>12. Accepted(id)' = n
    BY <2>11 DEF Accepted
  <2>13. ASSUME NEW i \in TransferId
         PROVE  Counted(SequenceNumbers(Q, i), Len(Q), Accepted(i)', sent'[i])
    <3>1. CASE i = id
      <4>1. Accepted(id) + 1 = n
        BY <2>6, <2>9
      <4>2. Counted(SequenceNumbers(Q, id), Len(Q), n, sent[id])
        BY <2>9, <4>1
      <4> QED BY <1>1, <2>12, <3>1, <4>2
    <3>2. CASE i # id
      <4>1. SequenceOf(f, i) = -1
        BY <2>7, <3>2
      <4>2. Counted(SequenceNumbers(Q, i), Len(Q), Accepted(i), sent[i])
        BY <1>3, <1>9, <4>1
      <4>3. Accepted(i)' = Accepted(i)
        BY <2>11, <3>2 DEF Accepted
      <4> QED BY <1>1, <4>2, <4>3
    <3> QED BY <3>1, <3>2
  <2>14. Assembled'
    <3>1. Assembled
      BY <1>9 DEF FrameInv
    <3>2. stream' = "open"
      BY <2>11, <3>1 DEF Assembled
    <3>3. readLoop' # "decoding" => ~ (HeaderIsThere' /\ FrameLength' <= Len(buffered'))
      <4>1. readLoop # "decoding"
        BY <1>1
      <4>2. ~ (HeaderIsThere /\ FrameLength <= Len(buffered))
        BY <3>1, <4>1 DEF Assembled
      <4> QED BY <1>1, <4>2 DEF HeaderIsThere, FrameLength
    <3>4. ASSUME NEW i \in TransferId, completed'[i] = {}
          PROVE  /\ transfers'[i].next < ChunkCount(i)
                 /\ transfers'[i].data = SubSeq(Data[i], 1, transfers'[i].next * ChunkSize)
      <4>1. CASE i = id
        BY <2>11, <3>4, <4>1
      <4>2. CASE i # id
        <5>1. completed'[i] = completed[i] /\ transfers'[i] = transfers[i]
          BY <2>11, <4>2
        <5>2. /\ transfers[i].next < ChunkCount(i)
              /\ transfers[i].data = SubSeq(Data[i], 1, transfers[i].next * ChunkSize)
          BY <3>1, <3>4, <5>1 DEF Assembled
        <5> QED BY <5>1, <5>2
      <4> QED BY <4>1, <4>2
    <3> QED BY <3>2, <3>3, <3>4 DEF Assembled
  <2> QED BY <2>13, <2>14
<1>10. Faultless' => Faultless
  BY <1>1 DEF Faultless
<1>11. InFlight(Q)'
  <2>1. Flies(Q, decoded', buffered' \o wire')
    BY <1>1, <1>3
  <2>2. Counted(Numbers(Q), Len(Q), Len(handed') + 1, messages' + 1)
    BY <1>1, <1>3, <1>6
  <2>3. Faultless' => \A k \in 1..Len(Q) : Proper(Q[k])
    BY <1>3, <1>10
  <2>4. Faultless' => \A i \in TransferId :
          Counted(SequenceNumbers(Q, i), Len(Q), Accepted(i)', sent'[i])
    BY <1>9, <1>10
  <2> QED BY <2>1, <2>2, <2>3, <2>4 DEF InFlight
<1>12. readLoop' = "idle" => decoded' = <<>>
  BY <1>1
<1>13. Faultless' => Assembled'
  BY <1>9, <1>10
<1> QED BY <1>3, <1>8, <1>11, <1>12, <1>13 DEF FrameInv

(* The loop over the frames of a read ends when none is left.                *)
LEMMA ReadEndsKeeps ==
  ASSUME FrameInv, ReadEnds
  PROVE  FrameInv'
<1>1. /\ readLoop \in {"accepting", "awaiting"} /\ decoded = <<>> /\ readLoop' = "idle"
      /\ sent' = sent /\ messages' = messages /\ fault' = fault /\ wire' = wire
      /\ buffered' = buffered /\ decoded' = decoded /\ stream' = stream
      /\ transfers' = transfers /\ completed' = completed
      /\ handed' = handed /\ cancelled' = cancelled
  BY DEF ReadEnds, receiver
<1>2. FrameTypeOK' /\ HandedOver' /\ (readLoop' = "idle" => decoded' = <<>>)
  BY <1>1, FrameTyped DEF FrameTypeOK, HandedOver
<1>3. PICK P \in Seq(FrameOf) : InFlight(P)
  BY <1>1 DEF FrameInv, Alive
<1>4. InFlight(P)'
  <2>1. Flies(P, decoded', buffered' \o wire')
    BY <1>1, <1>3 DEF InFlight
  <2>2. Carrying
    BY <1>1 DEF Carrying, Faultless
  <2> QED BY <1>3, <2>1, <2>2, StillInFlight
<1>5. Faultless' => Assembled'
  <2>1. Faultless' => Assembled
    BY <1>1 DEF FrameInv, Faultless
  <2> QED BY <1>1, <2>1 DEF Assembled, HeaderIsThere, FrameLength
<1> QED BY <1>2, <1>3, <1>4, <1>5 DEF FrameInv

(* A reader that gives up ends what is said of faultless streams.            *)
LEMMA CancelTransferKeeps ==
  ASSUME FrameInv, NEW id \in TransferId, CancelTransfer(id)
  PROVE  FrameInv'
<1>1. /\ stream = "open" /\ cancelled' = {id}
      /\ transfers' = [transfers EXCEPT ![id] = Fresh]
      /\ sent' = sent /\ messages' = messages /\ fault' = fault /\ wire' = wire
      /\ buffered' = buffered /\ decoded' = decoded /\ readLoop' = readLoop
      /\ completed' = completed /\ handed' = handed /\ stream' = "closing"
  BY DEF CancelTransfer, reader
<1>2. FrameTypeOK'
  <2>1. Fresh \in [next : Nat, data : Seq(Int)]
    <3>1. <<>> \in Seq(Int)
      BY EmptySeq
    <3> QED BY <3>1 DEF Fresh
  <2>2. transfers' \in [TransferId -> [next : Nat, data : Seq(Int)]]
    BY <1>1, <2>1, FrameTyped
  <2>3. cancelled' \subseteq TransferId
    BY <1>1
  <2> QED BY <1>1, <2>2, <2>3, FrameTyped DEF FrameTypeOK
<1>3. HandedOver' /\ (readLoop' = "idle" => decoded' = <<>>)
  BY <1>1, FrameTyped DEF HandedOver
<1>4. ~ Faultless'
  BY <1>1 DEF Faultless
<1>5. PICK P \in Seq(FrameOf) : InFlight(P)
  BY <1>1 DEF FrameInv, Alive
<1>6. InFlight(P)'
  <2>1. Flies(P, decoded', buffered' \o wire')
    BY <1>1, <1>5 DEF InFlight
  <2>2. Counted(Numbers(P), Len(P), Len(handed') + 1, messages' + 1)
    BY <1>1, <1>5 DEF InFlight
  <2> QED BY <1>4, <2>1, <2>2 DEF InFlight
<1> QED BY <1>2, <1>3, <1>4, <1>5, <1>6 DEF FrameInv

(* A stream closes only after a fault, or when a reader has given up.        *)
LEMMA StreamClosesKeeps ==
  ASSUME FrameInv, StreamCloses
  PROVE  FrameInv'
<1>1. /\ stream = "closing" /\ stream' = "closed"
      /\ sent' = sent /\ messages' = messages /\ fault' = fault /\ wire' = wire
      /\ buffered' = buffered /\ decoded' = decoded /\ readLoop' = readLoop
      /\ transfers' = transfers /\ completed' = completed
      /\ handed' = handed /\ cancelled' = cancelled
  BY DEF StreamCloses, reader, receiver
<1>2. FrameTypeOK' /\ HandedOver' /\ (readLoop' = "idle" => decoded' = <<>>)
  BY <1>1, FrameTyped DEF FrameTypeOK, HandedOver
<1>3. ~ Faultless'
  <2>1. ~ Faultless
    BY <1>1 DEF FrameInv, Assembled
  <2> QED BY <1>1, <2>1 DEF Faultless
<1>4. PICK P \in Seq(FrameOf) : InFlight(P)
  BY <1>1 DEF FrameInv, Alive
<1>5. InFlight(P)'
  <2>1. Flies(P, decoded', buffered' \o wire')
    BY <1>1, <1>4 DEF InFlight
  <2>2. Carrying
    BY <1>1, <1>3 DEF Carrying
  <2> QED BY <1>4, <2>1, <2>2, StillInFlight
<1> QED BY <1>2, <1>3, <1>4, <1>5 DEF FrameInv

(* Nothing changes.                                                          *)
LEMMA FrameStutterKeeps ==
  ASSUME FrameInv, UNCHANGED frameVars
  PROVE  FrameInv'
<1>1. /\ sent' = sent /\ messages' = messages /\ fault' = fault /\ wire' = wire
      /\ buffered' = buffered /\ decoded' = decoded /\ readLoop' = readLoop
      /\ transfers' = transfers /\ completed' = completed /\ stream' = stream
      /\ handed' = handed /\ cancelled' = cancelled
  BY DEF frameVars, reader, receiver
<1>2. FrameTypeOK' /\ HandedOver' /\ (readLoop' = "idle" => decoded' = <<>>)
  BY <1>1, FrameTyped DEF FrameTypeOK, HandedOver
<1>3. Alive' => \E P \in Seq(FrameOf) : InFlight(P)'
  <2>1. SUFFICES ASSUME Alive' PROVE \E P \in Seq(FrameOf) : InFlight(P)'
    OBVIOUS
  <2>2. PICK P \in Seq(FrameOf) : InFlight(P)
    BY <1>1, <2>1 DEF FrameInv, Alive
  <2>3. Flies(P, decoded', buffered' \o wire')
    BY <1>1, <2>2 DEF InFlight
  <2>4. Carrying
    BY <1>1 DEF Carrying, Faultless
  <2> QED BY <2>2, <2>3, <2>4, StillInFlight
<1>4. Faultless' => Assembled'
  <2>1. Faultless' => Assembled
    BY <1>1 DEF FrameInv, Faultless
  <2> QED BY <1>1, <2>1 DEF Assembled, HeaderIsThere, FrameLength
<1> QED BY <1>2, <1>3, <1>4 DEF FrameInv

-----------------------------------------------------------------------------
(* Nothing is left on the way when a faultless stream has been read to its   *)
(* end.                                                                      *)
LEMMA FramesHaveArrived ==
  ASSUME FrameInv
  PROVE  TransfersArrive
<1>1. HandedOver
  BY DEF FrameInv
<1>2. ASSUME fault = NoFault, cancelled = {}, wire = <<>>, readLoop = "idle"
      PROVE  /\ stream = "open" /\ buffered = <<>> /\ Len(handed) = messages
             /\ \A id \in TransferId :
                  sent[id] = Len(Chunks(id)) => completed[id] = {Data[id]}
  <2>1. Faultless /\ Assembled
    BY <1>2 DEF Faultless, FrameInv
  <2>2. stream = "open"
    BY <2>1 DEF Assembled
  <2>3. PICK P \in Seq(FrameOf) : InFlight(P)
    BY <2>2 DEF FrameInv, Alive
  <2>4. /\ decoded = <<>> /\ Len(decoded) = 0 /\ buffered \in Seq(Unit) /\ wire \in Seq(Unit)
        /\ handed \in Seq(Nat) /\ messages \in Nat /\ sent \in [TransferId -> Nat]
        /\ completed \in [TransferId -> SUBSET Seq(Int)]
        /\ transfers \in [TransferId -> [next : Nat, data : Seq(Int)]]
    <3>1. decoded = <<>>
      BY <1>2, FrameTyped
    <3>2. Len(decoded) = 0
      BY <3>1, EmptySeq
    <3> QED BY <3>1, <3>2, FrameTyped
  <2>5. Spells(P, 0, buffered \o wire) /\ Len(P) \in Nat
    BY <2>3, <2>4, LenProperties DEF InFlight, Flies
  <2>6. buffered \o wire = buffered
    BY <1>2, <2>4, ConcatEmptySeq
  <2>7. Len(P) = 0
    <3>1. SUFFICES ASSUME Len(P) # 0 PROVE FALSE
      OBVIOUS
    <3> DEFINE f == P[0 + 1]
               n == HeaderUnits + Len(f.payload)
    <3>2. 0 \in 0..Len(P) /\ 0 < Len(P) /\ 1 \in 1..Len(P)
      BY <2>5, <3>1
    <3>3. /\ Len(buffered) >= HeaderUnits =>
               buffered[1] = [unit |-> "header", kind |-> f.kind, length |-> Len(f.payload)]
          /\ Len(buffered \o wire) >= n
      BY <2>4, <2>5, <3>2, SpellsFirst
    <3>4. f \in FrameOf
      BY <3>2, ElementOfSeq
    <3>5. Len(f.payload) \in Nat
      BY <3>4, LenProperties DEF FrameOf
    <3> HIDE DEF f
    <3>6. Len(buffered) >= n /\ Len(buffered) \in Nat
      BY <2>4, <2>6, <3>3, LenProperties
    <3>7. Len(buffered) >= HeaderUnits
      BY <3>5, <3>6 DEF HeaderUnits
    <3>8. buffered[1].length = Len(f.payload)
      BY <3>3, <3>7
    <3>9. HeaderIsThere /\ FrameLength = n
      BY <3>7, <3>8 DEF HeaderIsThere, FrameLength
    <3>10. FrameLength <= Len(buffered)
      BY <3>5, <3>6, <3>9 DEF HeaderUnits
    <3>11. readLoop # "decoding"
      BY <1>2
    <3> QED BY <2>1, <3>9, <3>10, <3>11 DEF Assembled
  <2>8. buffered = <<>>
    <3>1. 0 \in 0..Len(P) /\ 0 = Len(P)
      BY <2>7
    <3> QED BY <2>4, <2>5, <3>1, SpellsFirst
  <2>9. Len(handed) = messages
    <3>1. Counted(Numbers(P), 0, Len(handed) + 1, messages + 1)
      BY <2>3, <2>7 DEF InFlight
    <3>2. Len(handed) \in Nat
      BY <2>4, LenProperties
    <3> DEFINE a == Len(handed) + 1
               b == messages + 1
               V == Numbers(P)
    <3>3. a \in Nat /\ b \in Nat /\ Counted(V, 0, a, b)
      BY <2>4, <3>1, <3>2
    <3> HIDE DEF a, b, V
    <3>4. a = b
      BY <3>3, CountedEmpty
    <3> QED BY <2>4, <3>2, <3>4 DEF a, b
  <2>10. ASSUME NEW id \in TransferId, sent[id] = Len(Chunks(id))
         PROVE  completed[id] = {Data[id]}
    <3>1. ChunkCount(id) \in Nat \ {0}
      BY ChunkCountFacts
    <3>2. 1 \in 1..ChunkCount(id)
      BY <3>1
    <3>3. Len(Chunks(id)) = ChunkCount(id)
      BY <3>2, ChunkFacts
    <3>4. Counted(SequenceNumbers(P, id), 0, Accepted(id), sent[id])
      BY <2>1, <2>3, <2>7 DEF InFlight
    <3>5. Accepted(id) \in Nat /\ sent[id] \in Nat
      <4>1. transfers[id].next \in Nat
        BY <2>4
      <4> QED BY <2>4, <3>1, <4>1 DEF Accepted
    <3>6. Accepted(id) = sent[id]
      <4> DEFINE a == Accepted(id)
                 b == sent[id]
                 V == SequenceNumbers(P, id)
      <4>1. a \in Nat /\ b \in Nat /\ Counted(V, 0, a, b)
        BY <3>4, <3>5
      <4> HIDE DEF a, b, V
      <4>2. a = b
        BY <4>1, CountedEmpty
      <4> QED BY <4>2 DEF a, b
    <3>7. completed[id] # {}
      <4>1. SUFFICES ASSUME completed[id] = {} PROVE FALSE
        OBVIOUS
      <4>2. transfers[id].next < ChunkCount(id) /\ Accepted(id) = transfers[id].next
        BY <2>1, <4>1 DEF Assembled, Accepted
      <4> QED BY <2>10, <3>1, <3>3, <3>5, <3>6, <4>2
    <3>8. completed[id] \subseteq {Data[id]}
      BY <1>1 DEF HandedOver
    <3> QED BY <3>7, <3>8
  <2> QED BY <2>2, <2>8, <2>9, <2>10
<1> QED BY <1>1, <1>2 DEF TransfersArrive, HandedOver

(* Wherever the stream is cut and however transfers and messages are mixed,  *)
(* only a payload itself is handed over, messages keep their order, and a    *)
(* faultless stream that has been read to its end leaves nothing behind      *)
(* (createTcpFrameDecoder, createBinaryTransferReceiver, acceptSocketData).  *)
THEOREM TransfersAlwaysArrive == FrameSpec => []TransfersArrive
<1>1. FrameInit => FrameInv
  BY InitFlies
<1>2. FrameInv /\ [FrameNext]_frameVars => FrameInv'
  <2>1. SUFFICES ASSUME FrameInv, [FrameNext]_frameVars PROVE FrameInv'
    OBVIOUS
  <2>2. CASE \E id \in TransferId : SendChunk(id)
    BY <2>1, <2>2, SendChunkKeeps
  <2>3. CASE \E id \in TransferId : SendFault(id)
    BY <2>1, <2>3, SendFaultKeeps
  <2>4. CASE \E id \in TransferId : CancelTransfer(id)
    BY <2>1, <2>4, CancelTransferKeeps
  <2>5. CASE SendMalformed
    BY <2>1, <2>5, SendMalformedKeeps
  <2>6. CASE \E form \in DOMAIN Required : SendMessage(form)
    BY <2>1, <2>6, SendMessageKeeps
  <2>7. CASE \E n \in 1..Len(wire) : ReadStream(n)
    BY <2>1, <2>7, ReadStreamKeeps
  <2>8. CASE DecodeFrame
    BY <2>1, <2>8, DecodeFrameKeeps
  <2>9. CASE HeaderIsRefused
    BY <2>1, <2>9, HeaderIsRefusedKeeps
  <2>10. CASE FrameIsIncomplete
    BY <2>1, <2>10, FrameIsIncompleteKeeps
  <2>11. CASE FrameIsUnreadable
    BY <2>1, <2>11, FrameIsUnreadableKeeps
  <2>12. CASE AcceptMessage
    BY <2>1, <2>12, AcceptMessageKeeps
  <2>13. CASE AcceptChunk
    BY <2>1, <2>13, AcceptChunkKeeps
  <2>14. CASE ReadEnds
    BY <2>1, <2>14, ReadEndsKeeps
  <2>15. CASE StreamCloses
    BY <2>1, <2>15, StreamClosesKeeps
  <2>16. CASE UNCHANGED frameVars
    BY <2>1, <2>16, FrameStutterKeeps
  <2> QED BY <2>1, <2>2, <2>3, <2>4, <2>5, <2>6, <2>7, <2>8, <2>9, <2>10, <2>11,
             <2>12, <2>13, <2>14, <2>15, <2>16 DEF FrameNext
<1>3. FrameInv => TransfersArrive
  BY FramesHaveArrived
<1> QED BY <1>1, <1>2, <1>3, PTL DEF FrameSpec
=============================================================================
