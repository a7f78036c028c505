--------------------------- MODULE RequestBudget ---------------------------
(***************************************************************************)
(* Incoming flow control of the TCP server (agents/windows/tcp_server.cpp, *)
(* async_io.cpp AsyncSignal).  A session reserves queue space for a frame  *)
(* before it reads the payload, waits while the budget of its connection   *)
(* or of the server is used up, and every release notifies the waiting     *)
(* receivers of all sessions.  A notification nobody waits for is lost.    *)
(***************************************************************************)
EXTENDS FlowControl, Sequences, SequencesExt

CONSTANTS
  Payload,  \* payload sizes clients send
  Header    \* kFrameHeaderBytes

(* kMaxJsonPayloadBytes bounds a frame well below the connection's budget. *)
ASSUME BudgetAssumption ==
  /\ Payload \subseteq Nat /\ Header \in Nat
  /\ \A p \in Payload : p + Header <= ConnectionBytes

VARIABLES
  recv,      \* the receive loop: "header", "waiting", "woken", "payload", "done"
  frame,     \* the frame being received: its payload size and whether it is a request
  queue,     \* session->requests, as payload sizes
  executing, \* ExecuteRequests: "idle", "busy", "done"
  running,   \* the request it has taken
  bytes,     \* session->request_bytes
  total,     \* server->request_bytes
  reading    \* server->reading_bytes

receiver == <<recv, frame>>
executor == <<executing, running>>
budget == <<bytes, total>>
incoming == <<open, receiver, queue, executor, budget, reading, gone>>

NoFrame == [size |-> 0, request |-> FALSE]

IncomingInit ==
  /\ open = [s \in Session |-> TRUE]
  /\ recv = [s \in Session |-> "header"] /\ frame = [s \in Session |-> NoFrame]
  /\ queue = [s \in Session |-> <<>>]
  /\ executing = [s \in Session |-> "idle"] /\ running = [s \in Session |-> 0]
  /\ bytes = [s \in Session |-> 0] /\ total = 0 /\ reading = 0 /\ gone = {}

HasRequestSpace(s, size) ==
  /\ Len(queue[s]) < MaxRequests
  /\ bytes[s] + size <= ConnectionBytes
  /\ total + size <= ServerBytes

(* Mutated: only the receiver of the releasing session is notified. *)
ReleaseToOwner(s, size, next) ==
  /\ bytes' = [bytes EXCEPT ![s] = @ - size]
  /\ total' = total - size
  /\ recv' = [recv EXCEPT ![s] = IF next = "waiting" THEN "woken" ELSE next]

(* ReleaseRequestBytes by s, whose own receiver moves on to next. *)
ReleaseRequestBytes(s, size, next) ==
  /\ bytes' = [bytes EXCEPT ![s] = @ - size]
  /\ total' = total - size
  /\ recv' = [t \in Session |->
       LET now == IF t = s THEN next ELSE recv[t] IN IF now = "waiting" THEN "woken" ELSE now]

-----------------------------------------------------------------------------
(* ReceiveFrame and the receive loop of ServeClient. *)

(* The reservation, and the limit on the payloads being read at a time. *)
StartReading(s, f) ==
  LET reserved == IF f.request THEN f.size + Header ELSE 0 IN
  /\ frame' = [frame EXCEPT ![s] = f]
  /\ IF reading + f.size > ServerBytes
     THEN /\ Close(s) /\ UNCHANGED reading
          /\ IF f.request THEN ReleaseRequestBytes(s, 0, "done")
             ELSE recv' = [recv EXCEPT ![s] = "done"] /\ UNCHANGED budget
     ELSE /\ bytes' = [bytes EXCEPT ![s] = @ + reserved] /\ total' = total + reserved
          /\ reading' = reading + f.size
          /\ recv' = [recv EXCEPT ![s] = "payload"] /\ UNCHANGED open
  /\ UNCHANGED <<queue, executor, gone>>

(* Control frames and the authentication response reserve nothing. *)
ControlHeader(s, p) ==
  /\ recv[s] = "header" /\ open[s]
  /\ StartReading(s, [size |-> p, request |-> FALSE])

RequestHeader(s, p) ==
  /\ recv[s] = "header" /\ open[s]
  /\ HasRequestSpace(s, p + Header)
  /\ StartReading(s, [size |-> p, request |-> TRUE])

AwaitSpace(s, p) ==
  /\ recv[s] = "header" /\ open[s]
  /\ ~HasRequestSpace(s, p + Header)
  /\ frame' = [frame EXCEPT ![s] = [size |-> p, request |-> TRUE]]
  /\ recv' = [recv EXCEPT ![s] = "waiting"]
  /\ UNCHANGED <<open, queue, executor, budget, reading, gone>>

(* The promise was resolved: the condition is tested again. *)
Recheck(s) ==
  /\ recv[s] = "woken" /\ open[s]
  /\ IF HasRequestSpace(s, frame[s].size + Header)
     THEN StartReading(s, frame[s])
     ELSE /\ recv' = [recv EXCEPT ![s] = "waiting"]
          /\ UNCHANGED <<open, frame, queue, executor, budget, reading, gone>>

(* The socket, the frame timeout or the closed session ends the loop. *)
ReceiveFails(s) ==
  /\ recv[s] \in {"header", "waiting", "woken", "payload"}
  /\ Close(s) /\ frame' = [frame EXCEPT ![s] = NoFrame]
  /\ reading' = IF recv[s] = "payload" THEN reading - frame[s].size ELSE reading
  /\ IF recv[s] = "payload" /\ frame[s].request
     THEN ReleaseRequestBytes(s, frame[s].size + Header, "done")
     ELSE recv' = [recv EXCEPT ![s] = "done"] /\ UNCHANGED budget
  /\ UNCHANGED <<queue, executor, gone>>

(* The payload may complete although the session was closed meanwhile. *)
PayloadRead(s) ==
  /\ recv[s] = "payload"
  /\ reading' = reading - frame[s].size
  /\ frame' = [frame EXCEPT ![s] = NoFrame]
  /\ UNCHANGED <<executor, gone>>

QueueRequest(s) ==
  /\ frame[s].request /\ PayloadRead(s)
  /\ queue' = [queue EXCEPT ![s] = Append(@, frame[s].size)]
  /\ recv' = [recv EXCEPT ![s] = "header"]
  /\ UNCHANGED <<open, budget>>

(* agent.capabilities is answered at once; its response may not fit. *)
AnswerCapabilities(s) ==
  /\ frame[s].request /\ PayloadRead(s)
  /\ \/ UNCHANGED open /\ ReleaseRequestBytes(s, frame[s].size + Header, "header")
     \/ Close(s) /\ ReleaseRequestBytes(s, frame[s].size + Header, "done")
  /\ UNCHANGED queue

(* Invalid request envelope: the bytes stay reserved until the teardown. *)
RejectRequest(s) ==
  /\ frame[s].request /\ PayloadRead(s)
  /\ Close(s) /\ recv' = [recv EXCEPT ![s] = "done"]
  /\ UNCHANGED <<queue, budget>>

(* Ping, Pong, or Close. *)
HandleControl(s) ==
  /\ ~frame[s].request /\ PayloadRead(s)
  /\ \/ recv' = [recv EXCEPT ![s] = "header"] /\ UNCHANGED open
     \/ recv' = [recv EXCEPT ![s] = "done"] /\ Close(s)
  /\ UNCHANGED <<queue, budget>>

-----------------------------------------------------------------------------
(* ExecuteRequests. *)

Take(s) ==
  /\ executing[s] = "idle" /\ open[s] /\ queue[s] # <<>>
  /\ running' = [running EXCEPT ![s] = Head(queue[s])]
  /\ queue' = [queue EXCEPT ![s] = Tail(@)]
  /\ executing' = [executing EXCEPT ![s] = "busy"]
  /\ UNCHANGED <<open, receiver, budget, reading, gone>>

(* Mutated: an expired request is dropped with its reservation. *)
ExpireKeeping(s) ==
  /\ executing[s] = "idle" /\ open[s] /\ queue[s] # <<>>
  /\ queue' = [queue EXCEPT ![s] = Tail(@)]
  /\ UNCHANGED <<open, receiver, executor, budget, reading, gone>>

(* Its budget ran out in the queue.  A binary transfer also closes the      *)
(* session; an answer that does not fit throws before the release.          *)
Expire(s) ==
  /\ executing[s] = "idle" /\ open[s] /\ queue[s] # <<>>
  /\ queue' = [queue EXCEPT ![s] = Tail(@)]
  /\ \/ ReleaseRequestBytes(s, Head(queue[s]) + Header, recv[s]) /\ UNCHANGED <<open, executing>>
     \/ /\ ReleaseRequestBytes(s, Head(queue[s]) + Header, recv[s])
        /\ Close(s) /\ executing' = [executing EXCEPT ![s] = "done"]
     \/ Close(s) /\ executing' = [executing EXCEPT ![s] = "done"] /\ UNCHANGED <<recv, budget>>
  /\ UNCHANGED <<frame, running, reading, gone>>

(* Success or failure: the reservation is returned either way. *)
Finish(s) ==
  /\ executing[s] = "busy"
  /\ ReleaseRequestBytes(s, running[s] + Header, recv[s])
  /\ running' = [running EXCEPT ![s] = 0]
  /\ \/ executing' = [executing EXCEPT ![s] = "idle"] /\ UNCHANGED open
     \/ executing' = [executing EXCEPT ![s] = "done"] /\ Close(s)
  /\ UNCHANGED <<queue, frame, reading, gone>>

ExecutorEnds(s) ==
  /\ executing[s] = "idle" /\ ~open[s]
  /\ executing' = [executing EXCEPT ![s] = "done"]
  /\ UNCHANGED <<open, receiver, queue, running, budget, reading, gone>>

-----------------------------------------------------------------------------
(* StopServer, or a failed send. *)
CloseSession(s) ==
  /\ open[s] /\ Close(s)
  /\ UNCHANGED <<receiver, queue, executor, budget, reading, gone>>

(* The end of ServeClient: whatever is still reserved is returned. *)
Teardown(s) ==
  /\ recv[s] = "done" /\ executing[s] = "done" /\ s \notin gone
  /\ ReleaseRequestBytes(s, bytes[s], "done")
  /\ queue' = [queue EXCEPT ![s] = <<>>]
  /\ gone' = gone \cup {s}
  /\ UNCHANGED <<open, frame, executor, reading>>

IncomingStep(s) ==
  \/ \E p \in Payload : ControlHeader(s, p) \/ RequestHeader(s, p) \/ AwaitSpace(s, p)
  \/ Recheck(s) \/ ReceiveFails(s) \/ QueueRequest(s) \/ AnswerCapabilities(s)
  \/ RejectRequest(s) \/ HandleControl(s)
  \/ Take(s) \/ Expire(s) \/ Finish(s) \/ ExecutorEnds(s)
  \/ CloseSession(s) \/ Teardown(s)

IncomingNext == \E s \in Session : IncomingStep(s)

IncomingSpec == IncomingInit /\ [][IncomingNext]_incoming

-----------------------------------------------------------------------------
(* Properties. *)

(* Every variable keeps its type. *)
IncomingTypeOK ==
  /\ open \in [Session -> BOOLEAN] /\ gone \subseteq Session
  /\ recv \in [Session -> {"header", "waiting", "woken", "payload", "done"}]
  /\ frame \in [Session -> [size : Nat, request : BOOLEAN]]
  /\ queue \in [Session -> Seq(Nat)]
  /\ executing \in [Session -> {"idle", "busy", "done"}] /\ running \in [Session -> Nat]
  /\ bytes \in [Session -> Nat] /\ total \in Nat /\ reading \in Nat

(* What an open session has reserved: its queue, the request it executes    *)
(* and the payload it is reading.                                           *)
Reserved(q) == SumFunction([i \in DOMAIN q |-> q[i] + Header])

Held(s) ==
  Reserved(queue[s])
  + (IF executing[s] = "busy" THEN running[s] + Header ELSE 0)
  + (IF recv[s] = "payload" /\ frame[s].request THEN frame[s].size + Header ELSE 0)

(* The payload each receive loop is reading. *)
BeingRead == [s \in Session |-> IF recv[s] = "payload" THEN frame[s].size ELSE 0]

(* No pipelining client exceeds a budget, alone or with the others: the     *)
(* reservation precedes the payload at every await.                         *)
BudgetsHold ==
  /\ \A s \in Session : bytes[s] <= ConnectionBytes /\ Len(queue[s]) <= MaxRequests
  /\ total <= ServerBytes /\ reading <= ServerBytes

(* Reservations are returned exactly once on every path: what an open       *)
(* session has reserved is what it holds, a closed one holds no more than   *)
(* it reserved, and one that is gone left nothing in the server's totals.   *)
ReservationsBalance ==
  /\ total = SumFunction(bytes) /\ reading = SumFunction(BeingRead)
  /\ \A s \in Session : bytes[s] >= Held(s) /\ (open[s] => bytes[s] = Held(s))
  /\ \A s \in gone : bytes[s] = 0

(* No client exceeds a budget and every reservation is returned exactly     *)
(* once, on whatever path its request ends (ReceiveFrame, ExecuteRequests,  *)
(* ServeClient).                                                            *)
BudgetsBalance == IncomingTypeOK /\ BudgetsHold /\ ReservationsBalance

(* No wakeup is lost: a receiver whose frame would fit is asleep only while *)
(* its own executor still has a reservation to return.                      *)
NoLostWakeup ==
  \A s \in Session :
    open[s] /\ recv[s] = "waiting" /\ HasRequestSpace(s, frame[s].size + Header)
    => executing[s] = "busy"
=============================================================================
