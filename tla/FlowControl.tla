---------------------------- MODULE FlowControl ----------------------------
(***************************************************************************)
(* What the two directions of a session have in common: the session is     *)
(* open until its peer, a failure or StopServer closes it, and gone when   *)
(* ServeClient has returned what it had in the server's totals.            *)
(***************************************************************************)
EXTENDS ServerLimits

VARIABLES
  open,  \* ~session->closed
  gone   \* sessions torn down

(* CloseSession is idempotent.                                             *)
Close(s) == open' = [open EXCEPT ![s] = FALSE]
=============================================================================
