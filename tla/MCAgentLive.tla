----------------------------- MODULE MCAgentLive -----------------------------
(***************************************************************************)
(* Small instances of the TCP server under fairness: each behaviour runs   *)
(* the sessions and their desktop in either connection mode                *)
(* (DesktopPermit), or the outgoing flow control (OutputBudget); the other *)
(* part keeps its initial state.                                           *)
(***************************************************************************)
EXTENDS DesktopPermit, OutputBudget

CONSTANTS
  watched,  \* one of Session
  Talking   \* the sessions whose peers have something to say

VARIABLE part

MCInit ==
  /\ part \in {"desktop", "outgoing"} /\ Init /\ OutgoingInit
  /\ part = "desktop" \/ multiple

MCNext ==
  /\ UNCHANGED part
  /\ IF part = "desktop" THEN Next ELSE UNCHANGED vars
  /\ IF part = "outgoing" THEN \E s \in Talking : SessionStep(s) ELSE UNCHANGED outgoing

\* The fairness of the parts: neither asks for a step in its initial state but of the part
\* that runs.
MCFairness ==
  /\ Fairness
  /\ \A s \in Talking :
       /\ WF_outgoing(part = "outgoing" /\ Sender(s))
       /\ WF_outgoing(part = "outgoing" /\ RecheckOutput(s))

MCSpec == MCInit /\ [][MCNext]_<<part, vars, outgoing>> /\ MCFairness

-----------------------------------------------------------------------------
\* No action tells the sessions apart, so that what holds of one holds of all.

\* The watched session's wait for the desktop ends, unless a worker is quarantined.
WaitersAreServed == multiple => WaiterIsServed(watched)

\* The watched session, once closed, leaves the server in either mode.
SessionsDrain == SessionDrains(watched)

\* A session's executor does not sleep for ever on output_space while it is open.
ExecutorsAreWoken == ExecutorIsWoken(watched)
=============================================================================
