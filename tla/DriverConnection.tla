--------------------------- MODULE DriverConnection ---------------------------
(***************************************************************************)
(* One connection attempt of the TypeScript driver and the session it      *)
(* becomes (driver/connection.ts, transport.ts, file-binary-transfer.ts,   *)
(* the pending requests of protocol.ts): the handshake, requests and their *)
(* timers, binary results kept in memory, videos kept in temporary files,  *)
(* and the ways a session ends.                                            *)
(*                                                                         *)
(* The event loop runs one callback to its end.  A callback is an action;  *)
(* the frames of one data event are handled one by one while nothing else  *)
(* runs, until one has to await the file system.  A promise that has been  *)
(* settled continues before the next callback (Quiet).  A call is settled  *)
(* when its outcome is decided: the removal of a file it awaits before it   *)
(* reports a failure is in "removing".                                      *)
(***************************************************************************)
EXTENDS Naturals, Sequences, FiniteSets

CONSTANTS
  Request,         \* requests the program makes
  Video, Image,    \* transfers kept in a file, and in memory
  Reference,       \* the transfer a request's result may name, or None
  Sent,            \* the sets of frames an agent may send
  MaxBatch,        \* bound on the frames of one data event
  None

Transfer == Video \cup Image

ASSUME ReferenceAssumption ==
  /\ Video \cap Image = {}
  /\ Reference \in [Request -> Transfer \cup {None}] /\ None \notin Transfer
  /\ \A r, q \in Request : Reference[r] = Reference[q] => r = q \/ Reference[r] = None

VARIABLES
  socket,       \* connecting, open, ending (close frame sent), destroyed or closed
  closing,      \* transport.close has been called
  greeted,      \* transport: an agent.ready event has been seen
  challenged,   \* transport: the authentication challenge was answered
  ready,        \* the promise connectRemoteAgentOnce awaits
  attempt,      \* connecting, closing, failed or connected: what the caller has
  disconnected, \* the session is over
  aborted,      \* recordingCancellation
  unsent,       \* frames the socket may still deliver
  batch,        \* frames of the current data event not yet handled
  accepting,    \* the chunk the data event awaits, or None
  call,         \* progress of each request and of reading its result
  writing,      \* requests whose frame is not written yet
  received,     \* memory receiver: none, partial or cancelled
  buffers,      \* completedBinaryTransfers
  receiving,    \* file receiver: the transfers it holds open
  completed,    \* completedFileBinaryTransfers
  dir,          \* the temporary directory of each video
  removing,     \* directories whose removal is in progress
  sweep         \* the runs of cleanupFileBinaryTransfers, by cause

link == <<socket, closing, unsent>>
handshake == <<greeted, challenged, ready, attempt>>
session == <<disconnected, aborted>>
input == <<batch, accepting>>
calls == <<call, writing>>
memory == <<received, buffers>>
files == <<receiving, completed, dir, removing>>
vars == <<link, handshake, session, input, calls, memory, files, sweep>>

Cause == {"error", "close", "release", "chunk"}
Frame == [kind : {"ready", "unsupported", "busy", "challenge", "close", "garbage"}]
         \cup [kind : {"response"}, of : Request]
         \cup [kind : {"chunk"}, of : Transfer, part : {"first", "last"}]
Chunk == [of : Video, part : {"first", "last"},
          step : {"creating", "writing", "syncing", "renaming", "discarding", "failing"}]
         \cup [of : Image \cup Video, part : {"first", "last"}, step : {"cleaning"}]
Progress == {"idle", "pending", "answered", "resolved", "reading", "delivered",
             "done", "refused", "failed"}
Sweep == [stage : {"idle", "waiting", "completed", "partial"}, todo : SUBSET Video]

ASSUME SentAssumption == Sent \subseteq SUBSET Frame /\ None \notin Chunk

Idle == [stage |-> "idle", todo |-> {}]

Init ==
  /\ socket = "connecting" /\ closing = FALSE
  /\ greeted = FALSE /\ challenged = FALSE /\ ready = "waiting" /\ attempt = "connecting"
  /\ disconnected = FALSE /\ aborted = FALSE
  /\ unsent \in Sent /\ batch = <<>> /\ accepting = None
  /\ call = [r \in Request |-> "idle"] /\ writing = {}
  /\ received = [t \in Image |-> "none"] /\ buffers = {}
  /\ receiving = {} /\ completed = {} /\ dir = [t \in Video |-> "none"] /\ removing = {}
  /\ sweep = [c \in Cause |-> Idle]

-----------------------------------------------------------------------------
(* The event loop. *)

(* A settled promise has a continuation to run. *)
Continuing ==
  \/ attempt = "connecting" /\ ready # "waiting"
  \/ \E r \in Request : call[r] \in {"resolved", "delivered"}

(* The next callback may start. *)
Quiet == (batch = <<>> \/ accepting # None) /\ ~Continuing

(* A data event is between two frames. *)
Handling == batch # <<>> /\ accepting = None

(* The socket is paused while a data event is being handled. *)
Paused == batch # <<>> \/ accepting # None

-----------------------------------------------------------------------------
(* What several callbacks do. *)

IsOpen == socket = "open"

DestroySocket ==
  /\ socket' = IF socket = "closed" THEN socket ELSE "destroyed"
  /\ unsent' = {}
  /\ UNCHANGED closing

(* transport.close: with a close frame if an agent.ready event has been seen. *)
CloseTransport(seen) ==
  \/ /\ closing \/ socket \in {"destroyed", "closed"}
     /\ UNCHANGED link
  \/ /\ ~closing /\ socket = "open" /\ seen
     /\ closing' = TRUE /\ socket' = "ending" /\ UNCHANGED unsent
  \/ /\ ~closing
     /\ socket = "connecting" \/ (socket = "open" /\ ~seen)
     /\ closing' = TRUE /\ socket' = "destroyed" /\ unsent' = {}

RejectReady == ready' = IF ready = "waiting" THEN "rejected" ELSE ready

(* Mutated: the readers of binary results are forgotten. *)
Unanswered == {r \in Request : call[r] = "pending"}

(* Whom pending.rejectAll and the rejections of both kinds of waiters reach. *)
Waiting == {r \in Request : call[r] \in {"pending", "reading"}}

(* Requests that were answered while their own frame is being written. *)
Answered == {r \in writing : call[r] = "answered"}

(* Requests are rejected; a reader of a video cancels its transfer. *)
Reject(requests) ==
  LET cancelled == {t \in receiving :
                      \E r \in requests : call[r] = "reading" /\ Reference[r] = t} IN
  /\ call' = [r \in Request |-> IF r \in requests THEN "failed" ELSE call[r]]
  /\ receiving' = receiving \ cancelled
  /\ removing' = removing \cup cancelled

(* cleanupFileBinaryTransfers is called; a call already running stands for both. *)
StartSweep(c) ==
  sweep' = [sweep EXCEPT ![c] = IF @ = Idle THEN [stage |-> "waiting", todo |-> {}] ELSE @]

(* onError; "senders" are the requests a failed write rejects as well. *)
SessionErrs(senders) ==
  /\ aborted' = TRUE
  /\ RejectReady
  /\ Reject(Waiting \cup senders)
  /\ StartSweep("error")

(* releaseAgent, first call. *)
ReleaseAgent ==
  /\ ~disconnected
  /\ disconnected' = TRUE /\ aborted' = TRUE
  /\ Reject(Waiting)
  /\ StartSweep("release")
  /\ CloseTransport(greeted)

-----------------------------------------------------------------------------
(* Connecting. *)

Connect ==
  /\ Quiet /\ socket = "connecting"
  /\ socket' = "open"
  /\ UNCHANGED <<closing, unsent, handshake, session, input, calls, memory, files, sweep>>

HandshakeTimeout ==
  /\ Quiet /\ ready = "waiting"
  /\ RejectReady
  /\ CloseTransport(greeted)
  /\ UNCHANGED <<greeted, challenged, attempt, session, input, calls, memory, files, sweep>>

AttemptSucceeds ==
  /\ attempt = "connecting" /\ ready = "resolved"
  /\ attempt' = "connected"
  /\ UNCHANGED <<link, greeted, challenged, ready, session, input, calls, memory, files, sweep>>

(* Mutated: the rejected attempt is reported without closing it. *)
AttemptReported ==
  /\ attempt = "connecting" /\ ready = "rejected"
  /\ attempt' = "failed"
  /\ UNCHANGED <<link, greeted, challenged, ready, session, input, calls, memory, files, sweep>>

(* A rejected attempt awaits transport.close, which awaits the close event   *)
(* unless the socket had been destroyed before.                             *)
AttemptFails ==
  /\ attempt = "connecting" /\ ready = "rejected"
  /\ CloseTransport(greeted)
  /\ attempt' = IF socket = "closed" \/ (~closing /\ socket = "destroyed") THEN "failed"
                ELSE "closing"
  /\ UNCHANGED <<greeted, challenged, ready, session, input, calls, memory, files, sweep>>

-----------------------------------------------------------------------------
(* Requests and the reading of their results. *)

(* requestJson: assertConnected, createRequest and send. *)
Call(r) ==
  /\ Quiet /\ attempt = "connected" /\ call[r] = "idle"
  /\ \/ /\ disconnected \/ ~IsOpen
        /\ call' = [call EXCEPT ![r] = "failed"] /\ UNCHANGED writing
     \/ /\ ~disconnected /\ IsOpen
        /\ call' = [call EXCEPT ![r] = "pending"] /\ writing' = writing \cup {r}
  /\ UNCHANGED <<link, handshake, session, input, memory, files, sweep>>

WriteCompletes(r) ==
  /\ Quiet /\ r \in writing
  /\ writing' = writing \ {r}
  /\ call' = [call EXCEPT ![r] = IF @ = "answered" THEN "resolved" ELSE @]
  /\ UNCHANGED <<link, handshake, session, input, memory, files, sweep>>

(* The write timer destroys the socket; the failed sender calls releaseAgent. *)
WriteTimeout(r) ==
  /\ Quiet /\ r \in writing
  /\ writing' = writing \ {r}
  /\ DestroySocket
  /\ disconnected' = TRUE /\ aborted' = TRUE
  /\ \/ /\ ~disconnected
        /\ Reject(Waiting \cup (Answered \cap {r})) /\ StartSweep("release")
     \/ /\ disconnected
        /\ Reject(Answered \cap {r}) /\ UNCHANGED sweep
  /\ UNCHANGED <<handshake, input, memory, completed, dir>>

(* Mutated: a deadline ends the request only. *)
RequestExpires(r) ==
  /\ Quiet /\ call[r] = "pending"
  /\ call' = [call EXCEPT ![r] = "failed"]
  /\ UNCHANGED <<link, handshake, session, input, writing, memory, files, sweep>>

(* Mutated: the deadline stops counting when the frame has been written. *)
SendingTimeout(r) ==
  /\ Quiet /\ call[r] = "pending" /\ r \in writing
  /\ ReleaseAgent
  /\ UNCHANGED <<handshake, input, writing, memory, completed, dir>>

(* TIMEOUT ends the whole session. *)
RequestTimeout(r) ==
  /\ Quiet /\ call[r] = "pending"
  /\ ReleaseAgent
  /\ UNCHANGED <<handshake, input, writing, memory, completed, dir>>

(* readBinaryTransfer: the image is there already, or is waited for. *)
ReadImage(r) ==
  /\ call[r] = "resolved" /\ Reference[r] \in Image
  /\ \/ /\ Reference[r] \in buffers
        /\ buffers' = buffers \ {Reference[r]} /\ call' = [call EXCEPT ![r] = "done"]
     \/ /\ Reference[r] \notin buffers
        /\ call' = [call EXCEPT ![r] = "reading"] /\ UNCHANGED buffers
  /\ UNCHANGED <<link, handshake, session, input, writing, received, files, sweep>>

(* readFileBinaryTransfer: a completed video is taken over, its metadata    *)
(* checked; another is waited for.                                          *)
ReadVideo(r) ==
  /\ call[r] = "resolved" /\ Reference[r] \in Video
  /\ LET t == Reference[r] IN
     \/ /\ t \in completed
        /\ completed' = completed \ {t}
        /\ \/ call' = [call EXCEPT ![r] = "delivered"] /\ UNCHANGED removing
           \/ call' = [call EXCEPT ![r] = "refused"] /\ removing' = removing \cup {t}
     \/ /\ t \notin completed
        /\ call' = [call EXCEPT ![r] = "reading"] /\ UNCHANGED <<completed, removing>>
  /\ UNCHANGED <<link, handshake, session, input, writing, memory, receiving, dir, sweep>>

(* A result that names no transfer, or that cannot be read. *)
FinishCall(r) ==
  /\ call[r] = "resolved"
  /\ \E outcome \in {"done", "refused"} : call' = [call EXCEPT ![r] = outcome]
  /\ UNCHANGED <<link, handshake, session, input, writing, memory, files, sweep>>

(* receiveRecordedVideo gives the file to the caller, or removes it. *)
HandOver(r) ==
  /\ call[r] = "delivered"
  /\ LET t == Reference[r] IN
     \/ /\ aborted
        /\ removing' = removing \cup {t} /\ call' = [call EXCEPT ![r] = "failed"]
        /\ UNCHANGED dir
     \/ /\ ~aborted
        /\ dir' = [dir EXCEPT ![t] = "handed"] /\ call' = [call EXCEPT ![r] = "done"]
        /\ UNCHANGED removing
  /\ UNCHANGED <<link, handshake, session, input, writing, memory, receiving, completed, sweep>>

(* The reader's timer: the transfer is cancelled and the session ends. *)
ReadTimeout(r) ==
  /\ Quiet /\ call[r] = "reading"
  /\ \/ ReleaseAgent
     \/ /\ disconnected
        /\ Reject({r}) /\ UNCHANGED <<link, session, sweep>>
  /\ received' = [t \in Image |-> IF t = Reference[r] THEN "cancelled" ELSE received[t]]
  /\ UNCHANGED <<handshake, input, writing, buffers, completed, dir>>

(* The program releases the agent. *)
Release ==
  /\ Quiet /\ attempt = "connected"
  /\ ReleaseAgent
  /\ UNCHANGED <<handshake, input, writing, memory, completed, dir>>

-----------------------------------------------------------------------------
(* Data events: one action per frame. *)

ReceiveData ==
  /\ Quiet /\ ~Paused /\ socket \in {"open", "ending"}
  /\ \E n \in 1 .. MaxBatch : \E f \in [1 .. n -> unsent] :
       /\ \A i, j \in 1 .. n : f[i] = f[j] => i = j
       /\ batch' = f /\ unsent' = unsent \ {f[i] : i \in 1 .. n}
  /\ UNCHANGED <<socket, closing, handshake, session, accepting, calls, memory, files, sweep>>

NextFrame(kind) == Handling /\ Head(batch).kind = kind /\ batch' = Tail(batch)

AcceptReady ==
  /\ NextFrame("ready") /\ UNCHANGED accepting
  /\ greeted' = TRUE
  /\ ready' = IF ready = "waiting" THEN "resolved" ELSE ready
  /\ UNCHANGED <<link, challenged, attempt, session, calls, memory, files, sweep>>

(* An agent of another protocol version, or an unreadable greeting. *)
AcceptUnsupported ==
  /\ NextFrame("unsupported") /\ UNCHANGED accepting
  /\ greeted' = TRUE
  /\ RejectReady
  /\ CloseTransport(TRUE)
  /\ UNCHANGED <<challenged, attempt, session, calls, memory, files, sweep>>

(* agent.rejected, well formed or not; ignored once the handshake is settled. *)
AcceptBusy ==
  /\ NextFrame("busy") /\ UNCHANGED accepting
  /\ RejectReady
  /\ \/ UNCHANGED link
     \/ ready = "waiting" /\ CloseTransport(greeted)
  /\ UNCHANGED <<greeted, challenged, attempt, session, calls, memory, files, sweep>>

(* A challenge is answered once; another, or one without a token, is an error. *)
AcceptChallenge ==
  /\ NextFrame("challenge") /\ UNCHANGED accepting
  /\ \/ /\ ~challenged
        /\ challenged' = TRUE
        /\ UNCHANGED <<link, ready, session, calls, files, sweep>>
     \/ /\ SessionErrs({}) /\ DestroySocket
        /\ UNCHANGED <<challenged, disconnected, writing, completed, dir>>
  /\ UNCHANGED <<greeted, attempt, memory>>

AcceptClose ==
  /\ NextFrame("close") /\ UNCHANGED accepting
  /\ DestroySocket
  /\ UNCHANGED <<handshake, session, calls, memory, files, sweep>>

(* A frame that does not parse: the rest of the data event is dropped. *)
AcceptGarbage ==
  /\ Handling /\ Head(batch).kind = "garbage"
  /\ batch' = <<>>
  /\ SessionErrs({})
  /\ DestroySocket
  /\ UNCHANGED <<greeted, challenged, attempt, disconnected, accepting, writing,
                 memory, completed, dir>>

(* An answer, a refusal, or a response nobody waits for. *)
AcceptResponse ==
  /\ NextFrame("response") /\ UNCHANGED accepting
  /\ LET r == Head(batch).of IN
     \/ /\ call[r] = "pending"
        /\ \/ call' = [call EXCEPT ![r] = IF r \in writing THEN "answered" ELSE "resolved"]
           \/ call' = [call EXCEPT ![r] = "refused"]
        /\ UNCHANGED <<link, ready>>
     \/ /\ call[r] # "pending"
        /\ RejectReady
        /\ CloseTransport(greeted)
        /\ UNCHANGED call
  /\ UNCHANGED <<greeted, challenged, attempt, session, writing, memory, files, sweep>>

(* onBinaryChunk failed: everything waiting is rejected, the files are      *)
(* collected, and only then the transport is closed.                        *)
ChunkFails(chunk) ==
  /\ accepting' = [of |-> chunk.of, part |-> chunk.part, step |-> "cleaning"]
  /\ Reject(Waiting)
  /\ StartSweep("chunk")

AcceptImageChunk ==
  /\ NextFrame("chunk") /\ Head(batch).of \in Image
  /\ LET t == Head(batch).of  first == Head(batch).part = "first" IN
     \/ /\ first /\ received[t] = "none"
        /\ received' = [received EXCEPT ![t] = "partial"]
        /\ UNCHANGED <<accepting, call, buffers, receiving, removing, sweep>>
     \/ /\ ~first /\ received[t] = "partial"
        /\ received' = [received EXCEPT ![t] = "none"]
        /\ LET waiters == {r \in Request : call[r] = "reading" /\ Reference[r] = t} IN
           /\ buffers' = IF waiters = {} THEN buffers \cup {t} ELSE buffers
           /\ call' = [r \in Request |-> IF r \in waiters THEN "done" ELSE call[r]]
        /\ UNCHANGED <<accepting, receiving, removing, sweep>>
     \/ /\ ~first                      \* out of order, cancelled or corrupt
        /\ received' = [received EXCEPT ![t] = IF @ = "partial" THEN "none" ELSE @]
        /\ ChunkFails(Head(batch)) /\ UNCHANGED buffers
     \/ /\ first /\ received[t] = "cancelled"
        /\ ChunkFails(Head(batch)) /\ UNCHANGED <<received, buffers>>
  /\ UNCHANGED <<link, handshake, session, writing, completed, dir>>

Await(chunk, step) == accepting' = [of |-> chunk.of, part |-> chunk.part, step |-> step]

VideoChunk(ignored) ==
  /\ NextFrame("chunk") /\ Head(batch).of \in Video
  /\ LET t == Head(batch).of  first == Head(batch).part = "first" IN
     \/ /\ ignored
        /\ UNCHANGED <<accepting, call, receiving, removing, sweep>>
     \/ /\ ~ignored /\ first /\ t \notin receiving
        /\ Await(Head(batch), "creating")
        /\ UNCHANGED <<call, receiving, removing, sweep>>
     \/ /\ ~ignored /\ ~first /\ t \in receiving
        /\ Await(Head(batch), "writing")
        /\ UNCHANGED <<call, receiving, removing, sweep>>
     \/ /\ ~ignored /\ ~first /\ t \notin receiving
        /\ ChunkFails(Head(batch))
  /\ UNCHANGED <<link, handshake, session, writing, memory, completed, dir>>

(* Mutated: the chunks of a session that is over are stored. *)
StoreVideoChunk == VideoChunk(FALSE)

AcceptVideoChunk == VideoChunk(disconnected \/ aborted)

-----------------------------------------------------------------------------
(* acceptChunk of the file receiver, between two awaits. *)

At(step) == accepting # None /\ accepting.step = step

Create ==
  /\ At("creating")
  /\ dir' = [dir EXCEPT ![accepting.of] = "partial"]
  /\ receiving' = receiving \cup {accepting.of}
  /\ Await(accepting, "writing")
  /\ UNCHANGED <<link, handshake, session, batch, calls, memory, completed, removing, sweep>>

CreateFails ==
  /\ At("creating")
  /\ ChunkFails(accepting)
  /\ UNCHANGED <<link, handshake, session, batch, writing, memory, completed, dir>>

Write ==
  /\ At("writing")
  /\ IF accepting.part = "first" THEN accepting' = None ELSE Await(accepting, "syncing")
  /\ UNCHANGED <<link, handshake, session, batch, calls, memory, files, sweep>>

Sync ==
  /\ At("syncing")
  /\ receiving' = receiving \ {accepting.of}
  /\ Await(accepting, "renaming")
  /\ UNCHANGED <<link, handshake, session, batch, calls, memory, completed, dir, removing, sweep>>

(* The file is complete: it goes to its reader or waits for one. *)
Rename ==
  /\ At("renaming") /\ dir[accepting.of] = "partial"
  /\ LET t == accepting.of
         waiters == {r \in Request : call[r] = "reading" /\ Reference[r] = t} IN
     /\ dir' = [dir EXCEPT ![t] = "complete"]
     /\ \/ /\ waiters = {}
           /\ completed' = completed \cup {t} /\ accepting' = None /\ UNCHANGED <<call, removing>>
        \/ /\ waiters # {}
           /\ call' = [r \in Request |-> IF r \in waiters THEN "delivered" ELSE call[r]]
           /\ accepting' = None /\ UNCHANGED <<completed, removing>>
        \/ /\ waiters # {}             \* metadata mismatch
           /\ call' = [r \in Request |-> IF r \in waiters THEN "refused" ELSE call[r]]
           /\ removing' = removing \cup {t}
           /\ Await(accepting, "discarding") /\ UNCHANGED completed
  /\ UNCHANGED <<link, handshake, session, batch, writing, memory, receiving, sweep>>

Discarded ==
  /\ At("discarding") /\ accepting.of \notin removing
  /\ accepting' = None
  /\ UNCHANGED <<link, handshake, session, batch, calls, memory, files, sweep>>

(* A full disk, a wrong size or checksum, a file closed by a cancel. *)
StoreFails ==
  /\ At("writing") \/ At("syncing") \/ At("renaming")
  /\ receiving' = receiving \ {accepting.of}
  /\ removing' = removing \cup {accepting.of}
  /\ Await(accepting, "failing")
  /\ UNCHANGED <<link, handshake, session, batch, calls, memory, completed, dir, sweep>>

StoreFailed ==
  /\ At("failing") /\ accepting.of \notin removing
  /\ ChunkFails(accepting)
  /\ UNCHANGED <<link, handshake, session, batch, writing, memory, completed, dir>>

ChunkFailed ==
  /\ At("cleaning") /\ sweep["chunk"] = Idle
  /\ accepting' = None
  /\ CloseTransport(greeted)
  /\ UNCHANGED <<handshake, session, batch, calls, memory, files, sweep>>

-----------------------------------------------------------------------------
(* cleanupFileBinaryTransfers and the removal of directories. *)

(* Mutated: the chunks being accepted are not awaited. *)
SweepAtOnce(c) ==
  /\ sweep[c].stage = "waiting"
  /\ sweep' = [sweep EXCEPT ![c] = [stage |-> "completed", todo |-> completed]]
  /\ completed' = {} /\ removing' = removing \cup completed
  /\ UNCHANGED <<link, handshake, session, input, calls, memory, receiving, dir>>

(* Accepted chunks have settled: the completed files are collected. *)
SweepCompleted(c) ==
  /\ sweep[c].stage = "waiting"
  /\ accepting = None \/ At("cleaning")
  /\ sweep' = [sweep EXCEPT ![c] = [stage |-> "completed", todo |-> completed]]
  /\ completed' = {} /\ removing' = removing \cup completed
  /\ UNCHANGED <<link, handshake, session, input, calls, memory, receiving, dir>>

(* Then the partial ones: fileBinaryReceiver.releaseAsync. *)
SweepPartial(c) ==
  /\ sweep[c].stage = "completed" /\ sweep[c].todo \cap removing = {}
  /\ sweep' = [sweep EXCEPT ![c] = [stage |-> "partial", todo |-> receiving]]
  /\ receiving' = {} /\ removing' = removing \cup receiving
  /\ UNCHANGED <<link, handshake, session, input, calls, memory, completed, dir>>

SweepEnds(c) ==
  /\ sweep[c].stage = "partial" /\ sweep[c].todo \cap removing = {}
  /\ sweep' = [sweep EXCEPT ![c] = Idle]
  /\ UNCHANGED <<link, handshake, session, input, calls, memory, files>>

RemoveDirectory(t) ==
  /\ t \in removing
  /\ removing' = removing \ {t} /\ dir' = [dir EXCEPT ![t] = "removed"]
  /\ UNCHANGED <<link, handshake, session, input, calls, memory, receiving, completed, sweep>>

-----------------------------------------------------------------------------
(* The socket. *)

(* 'error': Node destroys the socket; a writer that fails releases the agent. *)
SocketFails ==
  /\ Quiet /\ socket \in {"connecting", "open", "ending"}
  /\ DestroySocket
  /\ SessionErrs(Answered)
  /\ disconnected' = (disconnected \/ writing # {}) /\ writing' = {}
  /\ UNCHANGED <<greeted, challenged, attempt, input, memory, completed, dir>>

(* The peer ends the stream, or a destroyed socket reports its end: onClose. *)
SocketCloses ==
  /\ Quiet /\ \/ socket = "destroyed"
              \/ socket \in {"open", "ending"} /\ ~Paused
  /\ socket' = "closed" /\ unsent' = {} /\ UNCHANGED closing
  /\ disconnected' = TRUE /\ aborted' = TRUE
  /\ RejectReady
  /\ Reject(Waiting \cup Answered) /\ writing' = {}
  /\ StartSweep("close")
  /\ attempt' = IF attempt = "closing" THEN "failed" ELSE attempt
  /\ UNCHANGED <<greeted, challenged, input, memory, completed, dir>>

(* The agent did not close within a second of the close frame. *)
EndTimeout ==
  /\ Quiet /\ socket = "ending"
  /\ DestroySocket
  /\ UNCHANGED <<handshake, session, input, calls, memory, files, sweep>>

-----------------------------------------------------------------------------
FrameStep ==
  \/ AcceptReady \/ AcceptUnsupported \/ AcceptBusy \/ AcceptChallenge \/ AcceptClose
  \/ AcceptGarbage \/ AcceptResponse \/ AcceptImageChunk \/ AcceptVideoChunk

Continue ==
  \/ AttemptSucceeds \/ AttemptFails
  \/ \E r \in Request : ReadImage(r) \/ ReadVideo(r) \/ FinishCall(r) \/ HandOver(r)

StoreStep ==
  \/ Create \/ CreateFails \/ Write \/ Sync \/ Rename \/ Discarded
  \/ StoreFails \/ StoreFailed \/ ChunkFailed

FileStep ==
  \/ Quiet /\ StoreStep
  \/ \E t \in Video : Quiet /\ RemoveDirectory(t)
  \/ \E c \in Cause : SweepCompleted(c) \/ SweepPartial(c) \/ SweepEnds(c)

SocketStep == Connect \/ HandshakeTimeout \/ SocketFails \/ SocketCloses \/ EndTimeout

Next ==
  \/ SocketStep \/ ReceiveData \/ FrameStep \/ Continue \/ FileStep \/ Release
  \/ \E r \in Request : Call(r) \/ WriteCompletes(r) \/ WriteTimeout(r)
                        \/ RequestTimeout(r) \/ ReadTimeout(r)

Spec == Init /\ [][Next]_vars

(* Node runs what is due: frames, continuations, completed file operations, *)
(* expired timers and the close event of a destroyed socket.  Nothing is    *)
(* assumed of the agent or of the program.                                  *)
Fairness ==
  /\ WF_vars(FrameStep) /\ WF_vars(Continue) /\ WF_vars(FileStep)
  /\ WF_vars(HandshakeTimeout) /\ WF_vars(EndTimeout)
  /\ WF_vars(socket = "destroyed" /\ SocketCloses)
  /\ \A r \in Request : /\ WF_vars(WriteTimeout(r)) /\ WF_vars(RequestTimeout(r))
                        /\ WF_vars(ReadTimeout(r))

FairSpec == Spec /\ Fairness

-----------------------------------------------------------------------------
(* Every variable keeps its type, and a call that waits has not been lost:   *)
(* only a request being written is answered before it is resolved.          *)
TypeOK ==
  /\ socket \in {"connecting", "open", "ending", "destroyed", "closed"}
  /\ closing \in BOOLEAN /\ unsent \subseteq Frame
  /\ greeted \in BOOLEAN /\ challenged \in BOOLEAN
  /\ ready \in {"waiting", "resolved", "rejected"}
  /\ attempt \in {"connecting", "closing", "failed", "connected"}
  /\ disconnected \in BOOLEAN /\ aborted \in BOOLEAN
  /\ batch \in Seq(Frame) /\ accepting \in Chunk \cup {None}
  /\ call \in [Request -> Progress] /\ writing \subseteq Request
  /\ \A r \in Request : call[r] = "answered" => r \in writing
  /\ received \in [Image -> {"none", "partial", "cancelled"}] /\ buffers \subseteq Image
  /\ receiving \subseteq Video /\ completed \subseteq Video /\ removing \subseteq Video
  /\ dir \in [Video -> {"none", "partial", "complete", "handed", "removed"}]
  /\ sweep \in [Cause -> Sweep]

(* A rejected connection attempt is reported only when its socket is gone:   *)
(* the next candidate never opens beside it (connection.ts 2200-2205).      *)
FailedAttemptIsClosed == attempt = "failed" => socket \in {"destroyed", "closed"}

(* A request fails only in a session that is over, or that a bad chunk is    *)
(* about to end: the agent is never left working for a caller that gave up  *)
(* (connection.ts 2255-2265).                                               *)
FailureEndsSession ==
  (\E r \in Request : call[r] = "failed") => ~IsOpen \/ disconnected \/ At("cleaning")

(* When the socket has closed, nobody waits for an answer or for a binary   *)
(* result any more, and nobody will.                                        *)
ClosedSettlesAll ==
  socket = "closed" => \A r \in Request : call[r] \in {"idle", "done", "refused", "failed"}

(* A call is settled at the latest by the close of its connection, whatever *)
(* stage of its request, of a write or of a binary transfer it was in, with *)
(* every variable in its type meanwhile (connection.ts onClose, protocol.ts *)
(* rejectAll).                                                              *)
WaitersAreSettled == TypeOK /\ ClosedSettlesAll

(* A session that has ended and has nothing left to do has left no video in  *)
(* a temporary directory, whatever the close, a timeout or an error         *)
(* interrupted; a file that belongs to the caller is not collected.         *)
FilesAreCollected ==
  /\ \/ socket # "closed" \/ Paused \/ Continuing \/ removing # {}
     \/ \E c \in Cause : sweep[c] # Idle
     \/ \A t \in Video : dir[t] \in {"none", "handed", "removed"}
  /\ \A t \in Video : dir[t] = "handed" => t \notin removing \cup completed \cup receiving

(* Every request is settled in the end, whatever the agent does.             *)
RequestsSettle ==
  \A r \in Request :
    call[r] # "idle" ~> call[r] \in {"done", "refused", "failed"}

(* A session that is over closes its socket and removes its files.           *)
SessionsEnd ==
  disconnected ~> /\ socket = "closed"
                  /\ \A t \in Video : dir[t] \in {"none", "handed", "removed"}
=============================================================================
