---------------------------- MODULE ServerLimits ----------------------------
(***************************************************************************)
(* The sessions and the limits of the TCP server, which the modules of its *)
(* parts share (agents/windows/tcp_server.cpp).                            *)
(***************************************************************************)
EXTENDS Integers, FiniteSets

CONSTANTS
  Session,          \* the connections one server accepts, each used once
  MaxConnections,   \* kMaxConnections
  MaxWorkers,       \* kMaxWorkers
  MaxRequests,      \* kMaxRequests, also the length of the output queue
  ConnectionBytes,  \* kConnectionQueueBytes
  ServerBytes       \* kServerQueueBytes

ASSUME LimitAssumption ==
  /\ IsFiniteSet(Session)
  /\ MaxConnections \in Nat /\ MaxWorkers \in Nat /\ MaxRequests \in Nat \ {0}
  /\ ConnectionBytes \in Nat /\ ServerBytes \in Nat /\ ConnectionBytes <= ServerBytes
=============================================================================
