------------------------------ MODULE WaitRetry ------------------------------
(***************************************************************************)
(* waitForResult of wait.ts.  Waits nest: the probe of one may be another  *)
(* (an assertion inside toPass, a window query inside an assertion), and   *)
(* an inner wait never outlives the deadline of the one around it.  Clocks *)
(* are abstracted: a deadline passes at any moment, and a timer may be late.*)
(***************************************************************************)
EXTENDS Naturals

CONSTANTS Level \* nesting depth of the waits; 1 is the outermost
ASSUME LevelAssumption == Level \in Nat \ {0}

VARIABLES active,       \* the innermost wait under way, 0 when all are over
          stage,        \* of each wait: "probing" or "sleeping"
          late,         \* whether its deadline has passed
          outcome,      \* how the outermost wait ended, or "none"
          lateFailures, \* probes that failed after the outermost deadline (history)
          refused       \* an immediate failure has occurred (history)

vars == <<active, stage, late, outcome, lateFailures, refused>>

Init ==
  /\ active = 1 /\ outcome = "none" /\ lateFailures = 0 /\ refused = FALSE
  /\ stage = [l \in 1..Level |-> "probing"] /\ late = [l \in 1..Level |-> FALSE]

TypeOK ==
  /\ active \in 0..Level /\ late \in [1..Level -> BOOLEAN]
  /\ stage \in [1..Level -> {"probing", "sleeping"}]
  /\ outcome \in {"none", "result", "TIMEOUT", "immediate"}

(* Mutated: an inner wait keeps to its own deadline.                       *)
resolveOwnDeadline(l) == late' = [late EXCEPT ![l + 1] = FALSE]

(* resolveWaitDeadlineMs: the parent's deadline, if that is earlier.       *)
resolveWaitDeadline(l) == late' = [late EXCEPT ![l + 1] = late[l]]
Nest ==
  /\ active \in 1..(Level - 1) /\ stage[active] = "probing"
  /\ active' = active + 1
  /\ resolveWaitDeadline(active)
  /\ stage' = [stage EXCEPT ![active + 1] = "probing"]
  /\ UNCHANGED <<outcome, lateFailures, refused>>

(* A deadline passes; those of the waits inside are no later.              *)
Expire(l) ==
  /\ l <= active /\ ~late[l]
  /\ late' = [k \in 1..Level |-> late[k] \/ (l <= k /\ k <= active)]
  /\ UNCHANGED <<active, stage, outcome, lateFailures, refused>>

Ends(result) ==
  /\ active' = active - 1
  /\ outcome' = IF active = 1 THEN result ELSE outcome
(* The wait returns its result into the probe around it, which goes on.    *)
ProbeSucceeds ==
  /\ active > 0 /\ stage[active] = "probing" /\ Ends("result")
  /\ UNCHANGED <<stage, late, lateFailures, refused>>
(* A code of immediateFailureCodes ends every wait around the probe.       *)
ProbeIsRefused ==
  /\ active > 0 /\ stage[active] = "probing"
  /\ active' = 0 /\ outcome' = "immediate" /\ refused' = TRUE
  /\ UNCHANGED <<stage, late, lateFailures>>
(* The probe fails: TIMEOUT, which the waits around it treat as a failure  *)
(* of their own probes, or another attempt after a pause.                  *)
Failing(l) ==
  /\ \A k \in l..active : late[k]
  /\ l > 1 => ~late[l - 1]
ProbeFails ==
  /\ active > 0 /\ stage[active] = "probing"
  /\ \E l \in 1..(active + 1) : Failing(l) /\ active' = l - 1
  /\ outcome' = IF active' = 0 THEN "TIMEOUT" ELSE outcome
  /\ stage' = [stage EXCEPT ![IF active' = 0 THEN 1 ELSE active'] = "sleeping"]
  /\ lateFailures' = IF late[1] THEN lateFailures + 1 ELSE lateFailures
  /\ UNCHANGED <<late, refused>>
Wake ==
  /\ active > 0 /\ stage[active] = "sleeping"
  /\ stage' = [stage EXCEPT ![active] = "probing"]
  /\ UNCHANGED <<active, late, outcome, lateFailures, refused>>

Next == \/ Nest \/ ProbeSucceeds \/ ProbeIsRefused \/ ProbeFails \/ Wake
        \/ \E l \in 1..Level : Expire(l)
Spec == Init /\ [][Next]_vars

------------------------------------------------------------------------------
(* However waits nest, whatever the timers' delays: once the outermost      *)
(* deadline has passed only one more probe can fail, and a result or an     *)
(* error is never followed by another probe.                                *)
DeadlineIsShared ==
  /\ lateFailures <= 1
  /\ lateFailures = 1 => outcome = "TIMEOUT"
  /\ refused => active = 0
=============================================================================
