---------------------------- MODULE OutputBudget ----------------------------
(***************************************************************************)
(* Outgoing flow control of the TCP server (agents/windows/tcp_server.cpp, *)
(* EnqueueOutput, SendResponses and the response loop of ExecuteRequests). *)
(* An executor waits for space in its own connection's queue; the server's *)
(* budget is only tested when the response is queued, and failing that     *)
(* test ends the session.                                                  *)
(***************************************************************************)
EXTENDS FlowControl, Sequences, SequencesExt

CONSTANT Size  \* encoded sizes of responses

(* A frame is smaller than the budget of its connection (kMaxJsonPayloadBytes). *)
ASSUME SizeAssumption == Size \subseteq Nat /\ \A n \in Size : n <= ConnectionBytes

VARIABLES
  responding,  \* ExecuteRequests: "idle", "running", "waiting", "woken", "done"
  response,    \* size of the response it waits to queue
  sender,      \* SendResponses: "ready", "waiting", "sending", "done"
  output,      \* session->output
  outputBytes, \* session->output_bytes
  outputTotal  \* server->output_bytes

queued == <<output, outputBytes, outputTotal>>
outgoing == <<open, responding, response, sender, queued, gone>>

OutgoingInit ==
  /\ open = [s \in Session |-> TRUE]
  /\ responding = [s \in Session |-> "idle"] /\ response = [s \in Session |-> 0]
  /\ sender = [s \in Session |-> "ready"]
  /\ output = [s \in Session |-> <<>>]
  /\ outputBytes = [s \in Session |-> 0] /\ outputTotal = 0 /\ gone = {}

(* The executor waits while its own connection has no room. *)
ConnectionFull(s, n) == outputBytes[s] + n > ConnectionBytes \/ Len(output[s]) >= MaxRequests

(* EnqueueOutput throws when it does not accept. *)
Accepts(s, n) == open[s] /\ ~ConnectionFull(s, n) /\ outputTotal + n <= ServerBytes

EnqueueOutput(s, n) ==
  /\ Accepts(s, n)
  /\ output' = [output EXCEPT ![s] = Append(@, n)]
  /\ outputBytes' = [outputBytes EXCEPT ![s] = @ + n] /\ outputTotal' = outputTotal + n
  /\ sender' = [sender EXCEPT ![s] = IF @ = "waiting" THEN "ready" ELSE @]

-----------------------------------------------------------------------------
Begin(s) ==
  /\ responding[s] = "idle" /\ open[s]
  /\ responding' = [responding EXCEPT ![s] = "running"]
  /\ UNCHANGED <<open, response, sender, queued, gone>>

(* A Json or Binary message of the worker. *)
Respond(s, n) ==
  /\ responding[s] = "running" /\ open[s] /\ ~ConnectionFull(s, n)
  /\ EnqueueOutput(s, n)
  /\ UNCHANGED <<open, responding, response, gone>>

AwaitOutputSpace(s, n) ==
  /\ responding[s] = "running" /\ open[s] /\ ConnectionFull(s, n)
  /\ responding' = [responding EXCEPT ![s] = "waiting"]
  /\ response' = [response EXCEPT ![s] = n]
  /\ UNCHANGED <<open, sender, queued, gone>>

(* output_space was notified: the condition is tested again. *)
RecheckOutput(s) ==
  /\ responding[s] = "woken" /\ open[s]
  /\ IF ConnectionFull(s, response[s])
     THEN responding' = [responding EXCEPT ![s] = "waiting"] /\ UNCHANGED <<response, sender, queued>>
     ELSE /\ EnqueueOutput(s, response[s])
          /\ responding' = [responding EXCEPT ![s] = "running"]
          /\ response' = [response EXCEPT ![s] = 0]
  /\ UNCHANGED <<open, gone>>

(* WorkerMessageKind::Complete. *)
Complete(s) ==
  /\ responding[s] = "running"
  /\ responding' = [responding EXCEPT ![s] = "idle"]
  /\ UNCHANGED <<open, response, sender, queued, gone>>

(* Timeout, closed session, dead worker, or EnqueueOutput threw. *)
OperationFails(s) ==
  /\ responding[s] \in {"running", "waiting", "woken"}
  /\ responding' = [responding EXCEPT ![s] = "done"] /\ response' = [response EXCEPT ![s] = 0]
  /\ Close(s)
  /\ UNCHANGED <<sender, queued, gone>>

ResponderEnds(s) ==
  /\ responding[s] = "idle" /\ ~open[s]
  /\ responding' = [responding EXCEPT ![s] = "done"]
  /\ UNCHANGED <<open, response, sender, queued, gone>>

(* ServeClient itself: ready event, Pong, capabilities.  It does not wait. *)
ReceiverResponds(s, n) ==
  /\ open[s]
  /\ EnqueueOutput(s, n)
  /\ UNCHANGED <<open, responding, response, gone>>

(* The same without room, the peer's close, StopServer. *)
CloseOutput(s) ==
  /\ open[s] /\ Close(s)
  /\ UNCHANGED <<responding, response, sender, queued, gone>>

-----------------------------------------------------------------------------
(* SendResponses. *)

AwaitOutput(s) ==
  /\ sender[s] = "ready" /\ open[s] /\ output[s] = <<>>
  /\ sender' = [sender EXCEPT ![s] = "waiting"]
  /\ UNCHANGED <<open, responding, response, queued, gone>>

SendFront(s) ==
  /\ sender[s] = "ready" /\ open[s] /\ output[s] # <<>>
  /\ sender' = [sender EXCEPT ![s] = "sending"]
  /\ UNCHANGED <<open, responding, response, queued, gone>>

(* Mutated: the executor waiting for space is not notified. *)
FrontSentQuietly(s) ==
  /\ sender[s] = "sending"
  /\ output' = [output EXCEPT ![s] = Tail(@)]
  /\ outputBytes' = [outputBytes EXCEPT ![s] = @ - Head(output[s])]
  /\ outputTotal' = outputTotal - Head(output[s])
  /\ sender' = [sender EXCEPT ![s] = "ready"]
  /\ UNCHANGED <<open, responding, response, gone>>

(* WriteSocket returned; the frame leaves the queue only now. *)
FrontSent(s) ==
  /\ sender[s] = "sending"
  /\ output' = [output EXCEPT ![s] = Tail(@)]
  /\ outputBytes' = [outputBytes EXCEPT ![s] = @ - Head(output[s])]
  /\ outputTotal' = outputTotal - Head(output[s])
  /\ sender' = [sender EXCEPT ![s] = "ready"]
  /\ responding' = [responding EXCEPT ![s] = IF @ = "waiting" THEN "woken" ELSE @]
  /\ UNCHANGED <<open, response, gone>>

(* The write failed or timed out, or the loop ends with the session. *)
SenderEnds(s) ==
  /\ sender[s] = "sending" \/ (sender[s] # "done" /\ ~open[s])
  /\ sender' = [sender EXCEPT ![s] = "done"]
  /\ Close(s)
  /\ UNCHANGED <<responding, response, queued, gone>>

(* Mutated: the frames that were never sent stay in the server's outputTotal. *)
TeardownOutputKeeping(s) ==
  /\ ~open[s] /\ sender[s] = "done" /\ responding[s] = "done" /\ s \notin gone
  /\ output' = [output EXCEPT ![s] = <<>>]
  /\ outputBytes' = [outputBytes EXCEPT ![s] = 0]
  /\ gone' = gone \cup {s}
  /\ UNCHANGED <<open, responding, response, sender, outputTotal>>

(* The end of ServeClient. *)
TeardownOutput(s) ==
  /\ ~open[s] /\ sender[s] = "done" /\ responding[s] = "done" /\ s \notin gone
  /\ outputTotal' = outputTotal - outputBytes[s]
  /\ output' = [output EXCEPT ![s] = <<>>]
  /\ outputBytes' = [outputBytes EXCEPT ![s] = 0]
  /\ gone' = gone \cup {s}
  /\ UNCHANGED <<open, responding, response, sender>>

Sender(s) == AwaitOutput(s) \/ SendFront(s) \/ FrontSent(s) \/ SenderEnds(s)

SessionStep(s) ==
  \/ Begin(s) \/ Complete(s) \/ RecheckOutput(s) \/ OperationFails(s) \/ ResponderEnds(s)
  \/ \E n \in Size : Respond(s, n) \/ AwaitOutputSpace(s, n) \/ ReceiverResponds(s, n)
  \/ CloseOutput(s) \/ Sender(s) \/ TeardownOutput(s)

OutgoingNext == \E s \in Session : SessionStep(s)

OutgoingSpec == OutgoingInit /\ [][OutgoingNext]_outgoing

(* The coroutines run, and kFrameMs bounds every write; nothing makes an    *)
(* operation end before its own budget does.                                *)
OutgoingFairness ==
  \A s \in Session : WF_outgoing(Sender(s)) /\ WF_outgoing(RecheckOutput(s))

FairOutgoingSpec == OutgoingSpec /\ OutgoingFairness

-----------------------------------------------------------------------------
(* Properties. *)

(* Every variable keeps its type. *)
OutgoingTypeOK ==
  /\ open \in [Session -> BOOLEAN] /\ gone \subseteq Session
  /\ responding \in [Session -> {"idle", "running", "waiting", "woken", "done"}]
  /\ response \in [Session -> Nat]
  /\ sender \in [Session -> {"ready", "waiting", "sending", "done"}]
  /\ output \in [Session -> Seq(Nat)]
  /\ outputBytes \in [Session -> Nat] /\ outputTotal \in Nat

(* Every byte queued for a peer is counted once, for its connection and for *)
(* the server, until it is sent or its session is torn down, and neither    *)
(* queue outgrows its budget whoever responds.                              *)
OutputIsCounted ==
  /\ \A s \in Session : outputBytes[s] = SumFunction(output[s])
  /\ outputTotal = SumFunction(outputBytes)
  /\ outputTotal <= ServerBytes
  /\ \A s \in Session : outputBytes[s] <= ConnectionBytes /\ Len(output[s]) <= MaxRequests

(* An executor asleep for space always has a sender that will wake it: its  *)
(* queue is not empty, and the sender is not itself asleep.                 *)
SenderIsAwake ==
  \A s \in Session : open[s] =>
    /\ responding[s] = "waiting" => output[s] # <<>>
    /\ output[s] # <<>> => sender[s] # "waiting"

(* Queued bytes are counted once until they are sent or their session is    *)
(* gone, and an executor asleep for space has a sender that will wake it    *)
(* (EnqueueOutput, SendResponses).                                          *)
OutputBalances == OutgoingTypeOK /\ OutputIsCounted /\ SenderIsAwake

(* The executor of an open session never sleeps for ever on output_space, as     *)
(* long as the peer reads or the write times out.                           *)
ExecutorIsWoken(s) == responding[s] = "waiting" ~> responding[s] # "waiting" \/ ~open[s]
=============================================================================
