---------------------------- MODULE MCAgentSafety ----------------------------
(***************************************************************************)
(* Small instances of the agent for TLC: each behaviour runs either the    *)
(* incoming flow control (RequestBudget), the sessions and their desktop   *)
(* in either connection mode (DesktopPermit) or the restart policy of the  *)
(* monitor (RestartPolicy); the other parts keep their initial state.      *)
(***************************************************************************)
EXTENDS DesktopPermit, RequestBudget, RestartPolicy, TLC

VARIABLE part

MCInit ==
  /\ part \in {"incoming", "desktop", "supervision"}
  /\ Init /\ IncomingInit /\ SupervisionInit
  /\ part = "desktop" \/ multiple

MCNext ==
  /\ UNCHANGED part
  /\ IF part = "incoming" THEN IncomingNext ELSE UNCHANGED incoming
  /\ IF part = "desktop" THEN Next ELSE UNCHANGED vars
  /\ IF part = "supervision" THEN SupervisionNext ELSE UNCHANGED supervision

MCSpec == MCInit /\ [][MCNext]_<<part, incoming, vars, supervision>>

Symmetry == Permutations(Session)
=============================================================================
