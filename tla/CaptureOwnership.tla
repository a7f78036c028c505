-------------------------- MODULE CaptureOwnership --------------------------
(***************************************************************************)
(* What the recovery registry promises of every capture directory, whoever *)
(* dies: its ownership is acknowledged once, passes from a dead host to    *)
(* the monitor, and ends only after the directory has been removed by one  *)
(* of them.  RecoveryRegistry implements this specification.               *)
(***************************************************************************)
CONSTANT Capture

VARIABLES owner, removed

Init == owner = [c \in Capture |-> "nobody"] /\ removed = {}

Acknowledge(c) ==
  /\ owner[c] = "nobody" /\ c \notin removed
  /\ owner' = [owner EXCEPT ![c] = "host"]
  /\ UNCHANGED removed

(* The host that owned them is dead: the monitor takes all of its captures. *)
Inherit ==
  /\ owner' = [c \in Capture |-> IF owner[c] = "host" THEN "monitor" ELSE owner[c]]
  /\ UNCHANGED removed

Remove(c) ==
  /\ owner[c] \in {"host", "monitor"}
  /\ removed' = removed \cup {c}
  /\ UNCHANGED owner

Discharge(c) ==
  /\ owner[c] \in {"host", "monitor"} /\ c \in removed
  /\ owner' = [owner EXCEPT ![c] = "nobody"]
  /\ UNCHANGED removed

Next == Inherit \/ \E c \in Capture : Acknowledge(c) \/ Remove(c) \/ Discharge(c)

Spec == Init /\ [][Next]_<<owner, removed>>
=============================================================================
