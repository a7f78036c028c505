------------------------ MODULE DriverConnection_proofs ------------------------
(* The safety of one connection of the driver, for every number of requests  *)
(* and of transfers and for whatever frames an agent sends.                  *)
EXTENDS DriverConnection, SequenceTheorems, TLAPS

-----------------------------------------------------------------------------
(* Types, by groups of variables. *)

LinkOK ==
  /\ socket \in {"connecting", "open", "ending", "destroyed", "closed"}
  /\ closing \in BOOLEAN /\ unsent \subseteq Frame
HandshakeOK ==
  /\ greeted \in BOOLEAN /\ challenged \in BOOLEAN
  /\ ready \in {"waiting", "resolved", "rejected"}
  /\ attempt \in {"connecting", "closing", "failed", "connected"}
SessionOK == disconnected \in BOOLEAN /\ aborted \in BOOLEAN
BatchOK == batch \in Seq(Frame)
AcceptingOK == accepting \in Chunk \cup {None}
CallsOK ==
  /\ call \in [Request -> Progress] /\ writing \subseteq Request
  /\ \A r \in Request : /\ call[r] = "answered" => r \in writing
                        /\ call[r] = "delivered" => Reference[r] \in Video
MemoryOK ==
  received \in [Image -> {"none", "partial", "cancelled"}] /\ buffers \subseteq Image
HoldersOK == receiving \subseteq Video /\ completed \subseteq Video /\ removing \subseteq Video
DirOK == dir \in [Video -> {"none", "partial", "complete", "handed", "removed"}]
SweepOK == sweep \in [Cause -> Sweep]

(* Only the reader of a video is handed a file.                              *)
Typed == TypeOK /\ \A r \in Request : call[r] = "delivered" => Reference[r] \in Video

LEMMA TypeParts ==
  /\ LinkOK /\ HandshakeOK /\ SessionOK /\ BatchOK /\ AcceptingOK /\ CallsOK
  /\ MemoryOK /\ HoldersOK /\ DirOK /\ SweepOK
  <=> Typed
BY DEF Typed, TypeOK, LinkOK, HandshakeOK, SessionOK, BatchOK, AcceptingOK, CallsOK, MemoryOK,
    HoldersOK,
   DirOK, SweepOK

LEMMA TypePartsNext ==
  /\ LinkOK' /\ HandshakeOK' /\ SessionOK' /\ BatchOK' /\ AcceptingOK' /\ CallsOK'
  /\ MemoryOK' /\ HoldersOK' /\ DirOK' /\ SweepOK'
  => Typed'
BY DEF Typed, TypeOK, LinkOK, HandshakeOK, SessionOK, BatchOK, AcceptingOK, CallsOK, MemoryOK,
    HoldersOK,
   DirOK, SweepOK

(* A group that a step leaves alone keeps its type.                          *)
LEMMA Unchanged ==
  ASSUME Typed
  PROVE  /\ UNCHANGED link => LinkOK'
         /\ UNCHANGED handshake => HandshakeOK'
         /\ UNCHANGED session => SessionOK'
         /\ UNCHANGED batch => BatchOK'
         /\ UNCHANGED accepting => AcceptingOK'
         /\ UNCHANGED input => BatchOK' /\ AcceptingOK'
         /\ UNCHANGED calls => CallsOK'
         /\ UNCHANGED memory => MemoryOK'
         /\ UNCHANGED files => HoldersOK' /\ DirOK'
         /\ UNCHANGED <<receiving, completed, removing>> => HoldersOK'
         /\ UNCHANGED dir => DirOK'
         /\ UNCHANGED sweep => SweepOK'
BY DEF Typed, TypeOK, LinkOK, HandshakeOK, SessionOK, BatchOK, AcceptingOK, CallsOK, MemoryOK,
    HoldersOK,
   DirOK, SweepOK, link, handshake, session, input, calls, memory, files

(* The effects that several callbacks have on the types.                     *)
LEMMA Closes ==
  ASSUME Typed, NEW seen, CloseTransport(seen) \/ DestroySocket
  PROVE  LinkOK'
BY DEF Typed, TypeOK, LinkOK, CloseTransport, DestroySocket, link

LEMMA Rejects ==
  ASSUME Typed, NEW requests, Reject(requests)
  PROVE  /\ call' \in [Request -> Progress] /\ receiving' \subseteq Video /\ removing' \subseteq Video
         /\ \A r \in Request : call'[r] = "answered" => call[r] = "answered" /\ r \notin requests
         /\ \A r \in Request : call'[r] = "delivered" => call[r] = "delivered"
         /\ UNCHANGED writing => CallsOK'
         /\ UNCHANGED completed => HoldersOK'
BY DEF Typed, TypeOK, CallsOK, HoldersOK, Reject, Progress

LEMMA Sweeps ==
  ASSUME Typed, NEW c \in Cause, StartSweep(c)
  PROVE  SweepOK'
BY DEF Typed, TypeOK, SweepOK, StartSweep, Sweep

LEMMA Errs ==
  ASSUME Typed, NEW senders, SessionErrs(senders)
  PROVE  /\ aborted' = TRUE /\ ready' \in {"waiting", "resolved", "rejected"}
         /\ Reject(Waiting \cup senders) /\ SweepOK'
<1>1. "error" \in Cause
  BY DEF Cause
<1> QED BY <1>1, Sweeps DEF SessionErrs, RejectReady, Typed, TypeOK

LEMMA Releases ==
  ASSUME Typed, ReleaseAgent
  PROVE  disconnected' = TRUE /\ aborted' = TRUE /\ SessionOK' /\ Reject(Waiting) /\ SweepOK' /\ LinkOK'
<1>1. "release" \in Cause
  BY DEF Cause
<1> QED BY <1>1, Sweeps, Closes DEF ReleaseAgent, SessionOK

(* The frame that is handled.                                                *)
LEMMA Frames ==
  ASSUME Typed, Handling
  PROVE  /\ Head(batch) \in Frame /\ Tail(batch) \in Seq(Frame)
         /\ Head(batch).kind = "response" => Head(batch).of \in Request
         /\ Head(batch).kind = "chunk" => /\ Head(batch).of \in Transfer
                                         /\ Head(batch).part \in {"first", "last"}
<1>1. Head(batch) \in Frame /\ Tail(batch) \in Seq(Frame)
  BY HeadTailProperties DEF Typed, TypeOK, Handling
<1>2. \A f \in Frame : /\ f.kind = "response" => f.of \in Request
                       /\ f.kind = "chunk" => f.of \in Transfer /\ f.part \in {"first", "last"}
  BY DEF Frame
<1> QED BY <1>1, <1>2

(* The chunk that is accepted.                                               *)
LEMMA Chunks ==
  /\ \A t \in Transfer, p \in {"first", "last"} :
       [of |-> t, part |-> p, step |-> "cleaning"] \in Chunk
  /\ \A t \in Video, p \in {"first", "last"} :
       \A s \in {"creating", "writing", "syncing", "renaming", "discarding", "failing"} :
         [of |-> t, part |-> p, step |-> s] \in Chunk
  /\ \A c \in Chunk : /\ c.of \in Transfer /\ c.part \in {"first", "last"} /\ c # None
                      /\ c.step # "cleaning" => c.of \in Video
BY SentAssumption DEF Chunk, Transfer
LEMMA TypeOfConnecting ==
  ASSUME Typed, Connect \/ HandshakeTimeout \/ AttemptSucceeds \/ AttemptFails
  PROVE  Typed'
<1>1. CASE Connect
  <2>1. LinkOK'
    BY <1>1 DEF Connect, Typed, TypeOK, LinkOK
  <2> QED BY <1>1, <2>1, TypePartsNext, Unchanged DEF Connect
<1>2. CASE HandshakeTimeout
  <2>1. LinkOK' /\ HandshakeOK'
    BY <1>2, Closes DEF HandshakeTimeout, RejectReady, Typed, TypeOK, HandshakeOK
  <2> QED BY <1>2, <2>1, TypePartsNext, Unchanged DEF HandshakeTimeout
<1>3. CASE AttemptSucceeds
  <2>1. HandshakeOK'
    BY <1>3 DEF AttemptSucceeds, Typed, TypeOK, HandshakeOK
  <2> QED BY <1>3, <2>1, TypePartsNext, Unchanged DEF AttemptSucceeds
<1>4. CASE AttemptFails
  <2>1. LinkOK' /\ HandshakeOK'
    BY <1>4, Closes DEF AttemptFails, Typed, TypeOK, HandshakeOK
  <2> QED BY <1>4, <2>1, TypePartsNext, Unchanged DEF AttemptFails
<1> QED BY <1>1, <1>2, <1>3, <1>4

LEMMA TypeOfCalls ==
  ASSUME Typed, NEW r \in Request,
         Call(r) \/ WriteCompletes(r) \/ WriteTimeout(r) \/ RequestTimeout(r) \/ ReadTimeout(r)
  PROVE  Typed'
<1>1. CASE Call(r) \/ WriteCompletes(r)
  <2>1. CallsOK'
    BY <1>1 DEF Call, WriteCompletes, Typed, TypeOK, CallsOK, Progress
  <2> QED BY <1>1, <2>1, TypePartsNext, Unchanged DEF Call, WriteCompletes
<1>2. CASE WriteTimeout(r)
  <2>1. PICK requests : Reject(requests) /\ Answered \cap {r} \subseteq requests
    BY <1>2 DEF WriteTimeout
  <2>2. CallsOK'
    <3>1. /\ call' \in [Request -> Progress]
          /\ \A q \in Request : /\ call'[q] = "answered" => call[q] = "answered" /\ q \notin requests
                                /\ call'[q] = "delivered" => call[q] = "delivered"
      BY <2>1, Rejects
    <3>2. writing' = writing \ {r} /\ writing \subseteq Request
          /\ \A q \in Request : /\ call[q] = "answered" => q \in writing
                                /\ call[q] = "delivered" => Reference[q] \in Video
      BY <1>2 DEF WriteTimeout, Typed, TypeOK
    <3>3. ASSUME NEW q \in Request, call'[q] = "answered" PROVE q \in writing'
      <4>1. q \in writing /\ call[q] = "answered" /\ q \notin requests
        BY <3>1, <3>2, <3>3
      <4>2. q \in Answered
        BY <4>1 DEF Answered
      <4> QED BY <2>1, <3>2, <4>1, <4>2
    <3> QED BY <3>1, <3>2, <3>3 DEF CallsOK
  <2>3. LinkOK' /\ SessionOK' /\ HoldersOK'
    BY <1>2, <2>1, Closes, Rejects DEF WriteTimeout, SessionOK
  <2>4. SweepOK'
    <3>1. "release" \in Cause
      BY DEF Cause
    <3> QED BY <1>2, <3>1, Sweeps, Unchanged DEF WriteTimeout
  <2> QED BY <1>2, <2>2, <2>3, <2>4, TypePartsNext, Unchanged DEF WriteTimeout
<1>3. CASE RequestTimeout(r)
  BY <1>3, Releases, Rejects, TypePartsNext, Unchanged DEF RequestTimeout
<1>4. CASE ReadTimeout(r)
  <2>1. MemoryOK'
    BY <1>4 DEF ReadTimeout, Typed, TypeOK, MemoryOK
  <2>2. CASE ReleaseAgent
    BY <1>4, <2>1, <2>2, Releases, Rejects, TypePartsNext, Unchanged DEF ReadTimeout
  <2>3. CASE Reject({r}) /\ UNCHANGED <<link, session, sweep>>
    BY <1>4, <2>1, <2>3, Rejects, TypePartsNext, Unchanged DEF ReadTimeout
  <2> QED BY <1>4, <2>2, <2>3 DEF ReadTimeout
<1> QED BY <1>1, <1>2, <1>3, <1>4

LEMMA TypeOfReading ==
  ASSUME Typed, NEW r \in Request, ReadImage(r) \/ ReadVideo(r) \/ FinishCall(r) \/ HandOver(r)
  PROVE  Typed'
<1>1. CASE ReadImage(r)
  <2>1. CallsOK' /\ MemoryOK'
    BY <1>1 DEF ReadImage, Typed, TypeOK, CallsOK, MemoryOK, Progress
  <2> QED BY <1>1, <2>1, TypePartsNext, Unchanged DEF ReadImage
<1>2. CASE ReadVideo(r)
  <2>1. CallsOK' /\ HoldersOK'
    BY <1>2 DEF ReadVideo, Typed, TypeOK, CallsOK, HoldersOK, Progress
  <2> QED BY <1>2, <2>1, TypePartsNext, Unchanged DEF ReadVideo
<1>3. CASE FinishCall(r)
  <2>1. CallsOK'
    BY <1>3 DEF FinishCall, Typed, TypeOK, CallsOK, Progress
  <2> QED BY <1>3, <2>1, TypePartsNext, Unchanged DEF FinishCall
<1>4. CASE HandOver(r)
  <2>1. Reference[r] \in Video
    BY <1>4 DEF HandOver, Typed
  <2>2. CallsOK' /\ HoldersOK' /\ DirOK'
    BY <1>4, <2>1 DEF HandOver, Typed, TypeOK, CallsOK, HoldersOK, DirOK, Progress
  <2> QED BY <1>4, <2>2, TypePartsNext, Unchanged DEF HandOver
<1> QED BY <1>1, <1>2, <1>3, <1>4
LEMMA TypeOfFrames ==
  ASSUME Typed, FrameStep
  PROVE  Typed'
<1> USE DEF NextFrame
<1>1. Handling
  BY DEF FrameStep, AcceptReady, AcceptUnsupported, AcceptBusy, AcceptChallenge, AcceptClose,
      AcceptGarbage,
     AcceptResponse, AcceptImageChunk, AcceptVideoChunk, VideoChunk
<1>2. /\ Head(batch) \in Frame /\ Tail(batch) \in Seq(Frame)
      /\ Head(batch).kind = "response" => Head(batch).of \in Request
      /\ Head(batch).kind = "chunk" => Head(batch).of \in Transfer /\ Head(batch).part \in {"first", "last"}
  BY <1>1, Frames
<1>3. batch' = Tail(batch) => BatchOK'
  BY <1>2 DEF BatchOK
<1>4. RejectReady => ready' \in {"waiting", "resolved", "rejected"}
  BY DEF RejectReady, Typed, TypeOK
<1>5. CASE AcceptReady
  <2>1. HandshakeOK'
    BY <1>5 DEF AcceptReady, HandshakeOK, Typed, TypeOK
  <2> QED BY <1>3, <1>5, <2>1, TypePartsNext, Unchanged DEF AcceptReady
<1>6. CASE AcceptUnsupported
  <2>1. HandshakeOK' /\ LinkOK'
    BY <1>4, <1>6, Closes DEF AcceptUnsupported, HandshakeOK, Typed, TypeOK
  <2> QED BY <1>3, <1>6, <2>1, TypePartsNext, Unchanged DEF AcceptUnsupported
<1>7. CASE AcceptBusy
  <2>1. HandshakeOK' /\ LinkOK'
    BY <1>4, <1>7, Closes, Unchanged DEF AcceptBusy, HandshakeOK, Typed, TypeOK
  <2> QED BY <1>3, <1>7, <2>1, TypePartsNext, Unchanged DEF AcceptBusy
<1>8. CASE AcceptChallenge
  <2>1. CASE ~challenged /\ challenged' = TRUE /\ UNCHANGED <<link, ready, session, calls, files, sweep>>
    <3>1. HandshakeOK'
      BY <1>8, <2>1 DEF AcceptChallenge, HandshakeOK, Typed, TypeOK
    <3> QED BY <1>3, <1>8, <2>1, <3>1, TypePartsNext, Unchanged DEF AcceptChallenge
  <2>2. CASE /\ SessionErrs({}) /\ DestroySocket
             /\ UNCHANGED <<challenged, disconnected, writing, completed, dir>>
    <3>1. HandshakeOK' /\ LinkOK' /\ SessionOK'
      BY <1>8, <2>2, Closes, Errs DEF AcceptChallenge, HandshakeOK, SessionOK, Typed, TypeOK
    <3>2. CallsOK' /\ HoldersOK' /\ SweepOK'
      BY <2>2, Errs, Rejects
    <3> QED BY <1>3, <1>8, <2>2, <3>1, <3>2, TypePartsNext, Unchanged DEF AcceptChallenge
  <2> QED BY <1>8, <2>1, <2>2 DEF AcceptChallenge
<1>9. CASE AcceptClose
  BY <1>3, <1>9, Closes, TypePartsNext, Unchanged DEF AcceptClose
<1>10. CASE AcceptGarbage
  <2>1. HandshakeOK' /\ LinkOK' /\ SessionOK'
    BY <1>10, Closes, Errs DEF AcceptGarbage, HandshakeOK, SessionOK, Typed, TypeOK
  <2>3. BatchOK'
    <3>1. <<>> \in Seq(Frame)
      OBVIOUS
    <3> QED BY <1>10, <3>1 DEF AcceptGarbage, BatchOK
  <2>2. CallsOK' /\ HoldersOK' /\ SweepOK'
    BY <1>10, Errs, Rejects DEF AcceptGarbage
  <2> QED BY <1>10, <2>1, <2>2, <2>3, TypePartsNext, Unchanged DEF AcceptGarbage
<1>11. CASE AcceptResponse
  <2>1. HandshakeOK' /\ LinkOK'
    BY <1>4, <1>11, Closes, Unchanged DEF AcceptResponse, HandshakeOK, Typed, TypeOK
  <2>2. CallsOK'
    BY <1>11 DEF AcceptResponse, CallsOK, Typed, TypeOK, Progress
  <2> QED BY <1>3, <1>11, <2>1, <2>2, TypePartsNext, Unchanged DEF AcceptResponse
<1>12. ASSUME Head(batch).kind = "chunk", ChunkFails(Head(batch)), UNCHANGED <<writing, completed>>
       PROVE  AcceptingOK' /\ CallsOK' /\ HoldersOK' /\ SweepOK'
  <2>1. "chunk" \in Cause
    BY DEF Cause
  <2> QED BY <1>2, <1>12, <2>1, Chunks, Rejects, Sweeps DEF ChunkFails, AcceptingOK
<1>13. CASE AcceptImageChunk
  <2>1. Head(batch).kind = "chunk" /\ Head(batch).of \in Image /\ batch' = Tail(batch)
    BY <1>13 DEF AcceptImageChunk
  <2>2. MemoryOK'
    BY <1>13 DEF AcceptImageChunk, MemoryOK, Typed, TypeOK
  <2>3. AcceptingOK' /\ CallsOK' /\ HoldersOK' /\ SweepOK'
    <3>1. CASE ChunkFails(Head(batch))
      BY <1>12, <1>13, <2>1, <3>1 DEF AcceptImageChunk
    <3>2. CASE ~ChunkFails(Head(batch))
      <4>1. UNCHANGED <<accepting, receiving, completed, removing, sweep, writing>>
        BY <1>13, <3>2 DEF AcceptImageChunk
      <4>2. CallsOK'
        BY <1>13, <3>2, <4>1 DEF AcceptImageChunk, CallsOK, Typed, TypeOK, Progress
      <4> QED BY <4>1, <4>2, Unchanged
    <3> QED BY <3>1, <3>2
  <2> QED BY <1>3, <1>13, <2>1, <2>2, <2>3, TypePartsNext, Unchanged DEF AcceptImageChunk
<1>14. CASE AcceptVideoChunk
  <2>1. PICK ignored : VideoChunk(ignored)
    BY <1>14 DEF AcceptVideoChunk
  <2>2. Head(batch).kind = "chunk" /\ Head(batch).of \in Video /\ batch' = Tail(batch)
        /\ UNCHANGED <<link, handshake, session, writing, memory, completed, dir>>
    BY <2>1 DEF VideoChunk
  <2>3. CASE ChunkFails(Head(batch))
    BY <1>3, <1>12, <2>2, <2>3, TypePartsNext, Unchanged
  <2>4. CASE ~ChunkFails(Head(batch))
    <3>1. UNCHANGED <<call, receiving, removing, sweep>>
      BY <2>1, <2>4 DEF VideoChunk
    <3>2. AcceptingOK'
      <4>1. \/ UNCHANGED accepting
            \/ Await(Head(batch), "creating") \/ Await(Head(batch), "writing")
        BY <2>1, <2>4 DEF VideoChunk
      <4> QED BY <1>2, <2>2, <4>1, Chunks, Unchanged DEF Await, AcceptingOK
    <3> QED BY <1>3, <2>2, <3>1, <3>2, TypePartsNext, Unchanged DEF calls
  <2> QED BY <2>3, <2>4
<1> QED BY <1>5, <1>6, <1>7, <1>8, <1>9, <1>10, <1>11, <1>13, <1>14 DEF FrameStep
LEMMA TypeOfStores ==
  ASSUME Typed, StoreStep
  PROVE  Typed'
<1>1. \A step \in {"creating", "writing", "syncing", "renaming", "discarding", "failing"} :
        At(step) => /\ accepting.of \in Video /\ accepting.part \in {"first", "last"}
                    /\ accepting.of \in Transfer
  BY Chunks DEF At, Typed, TypeOK, Transfer
<1>2. accepting # None => accepting.of \in Transfer /\ accepting.part \in {"first", "last"}
  BY Chunks DEF Typed, TypeOK
<1>3. ASSUME accepting.of \in Video, accepting.part \in {"first", "last"},
             NEW step \in {"creating", "writing", "syncing", "renaming", "discarding", "failing"},
             Await(accepting, step)
      PROVE  AcceptingOK'
  BY <1>3, Chunks DEF Await, AcceptingOK
<1>4. accepting' = None => AcceptingOK'
  BY DEF AcceptingOK
<1>5. ASSUME ChunkFails(accepting), accepting # None, UNCHANGED <<writing, completed>>
      PROVE  AcceptingOK' /\ CallsOK' /\ HoldersOK' /\ SweepOK'
  <2>1. "chunk" \in Cause
    BY DEF Cause
  <2> QED BY <1>2, <1>5, <2>1, Chunks, Rejects, Sweeps DEF ChunkFails, AcceptingOK
<1>6. CASE Create
  <2>1. AcceptingOK'
    BY <1>1, <1>3, <1>6 DEF Create
  <2>2. HoldersOK' /\ DirOK'
    BY <1>1, <1>6 DEF Create, HoldersOK, DirOK, Typed, TypeOK
  <2> QED BY <1>6, <2>1, <2>2, TypePartsNext, Unchanged DEF Create
<1>7. CASE CreateFails
  BY <1>5, <1>7, TypePartsNext, Unchanged DEF CreateFails, At
<1>8. CASE Write
  <2>1. AcceptingOK'
    BY <1>1, <1>3, <1>4, <1>8 DEF Write
  <2> QED BY <1>8, <2>1, TypePartsNext, Unchanged DEF Write
<1>9. CASE Sync
  <2>1. AcceptingOK'
    BY <1>1, <1>3, <1>9 DEF Sync
  <2>2. HoldersOK'
    BY <1>9 DEF Sync, HoldersOK, Typed, TypeOK
  <2> QED BY <1>9, <2>1, <2>2, TypePartsNext, Unchanged DEF Sync
<1>10. CASE Rename
  <2>1. accepting.of \in Video /\ accepting.part \in {"first", "last"}
    BY <1>1, <1>10 DEF Rename
  <2>2. AcceptingOK'
    BY <1>3, <1>4, <1>10, <2>1 DEF Rename
  <2>3. HoldersOK' /\ DirOK'
    BY <1>10, <2>1 DEF Rename, HoldersOK, DirOK, Typed, TypeOK
  <2>4. CallsOK'
    BY <1>10, <2>1 DEF Rename, CallsOK, Typed, TypeOK, Progress
  <2> QED BY <1>10, <2>2, <2>3, <2>4, TypePartsNext, Unchanged DEF Rename
<1>11. CASE Discarded
  BY <1>4, <1>11, TypePartsNext, Unchanged DEF Discarded
<1>12. CASE StoreFails
  <2>1. accepting.of \in Video /\ accepting.part \in {"first", "last"}
    BY <1>1, <1>12 DEF StoreFails
  <2>2. AcceptingOK' /\ HoldersOK'
    BY <1>3, <1>12, <2>1 DEF StoreFails, HoldersOK, Typed, TypeOK
  <2> QED BY <1>12, <2>2, TypePartsNext, Unchanged DEF StoreFails
<1>13. CASE StoreFailed
  BY <1>5, <1>13, TypePartsNext, Unchanged DEF StoreFailed, At
<1>14. CASE ChunkFailed
  BY <1>4, <1>14, Closes, TypePartsNext, Unchanged DEF ChunkFailed
<1> QED BY <1>6, <1>7, <1>8, <1>9, <1>10, <1>11, <1>12, <1>13, <1>14 DEF StoreStep

LEMMA TypeOfSweeps ==
  ASSUME Typed, NEW c \in Cause, SweepCompleted(c) \/ SweepPartial(c) \/ SweepEnds(c)
  PROVE  Typed'
<1>1. SweepOK' /\ HoldersOK'
  <2>1. CASE SweepCompleted(c)
    BY <2>1 DEF SweepCompleted, SweepOK, HoldersOK, Typed, TypeOK, Sweep
  <2>2. CASE SweepPartial(c)
    BY <2>2 DEF SweepPartial, SweepOK, HoldersOK, Typed, TypeOK, Sweep
  <2>3. CASE SweepEnds(c)
    BY <2>3, Unchanged DEF SweepEnds, SweepOK, Typed, TypeOK, Sweep, Idle
  <2> QED BY <2>1, <2>2, <2>3
<1> QED BY <1>1, TypePartsNext, Unchanged DEF SweepCompleted, SweepPartial, SweepEnds, files

LEMMA TypeOfRemoval ==
  ASSUME Typed, NEW t \in Video, RemoveDirectory(t)
  PROVE  Typed'
<1>1. DirOK' /\ HoldersOK'
  BY DEF RemoveDirectory, DirOK, HoldersOK, Typed, TypeOK
<1> QED BY <1>1, TypePartsNext, Unchanged DEF RemoveDirectory

LEMMA TypeOfSocket ==
  ASSUME Typed, SocketFails \/ SocketCloses \/ EndTimeout \/ ReceiveData \/ Release
  PROVE  Typed'
<1>1. CASE SocketFails
  <2>1. /\ aborted' = TRUE /\ ready' \in {"waiting", "resolved", "rejected"}
        /\ Reject(Waiting \cup Answered) /\ SweepOK'
    BY <1>1, Errs DEF SocketFails
  <2>2. HandshakeOK' /\ LinkOK' /\ SessionOK'
    BY <1>1, <2>1, Closes DEF SocketFails, HandshakeOK, SessionOK, Typed, TypeOK
  <2>3. CallsOK' /\ HoldersOK'
    <3>1. /\ call' \in [Request -> Progress] /\ HoldersOK'
          /\ \A q \in Request : /\ call'[q] = "answered" => call[q] = "answered" /\ q \notin Waiting \cup Answered
                                /\ call'[q] = "delivered" => call[q] = "delivered"
      BY <1>1, <2>1, Rejects DEF SocketFails
    <3>2. writing' = {} /\ \A q \in Request : /\ call[q] = "answered" => q \in writing
                                              /\ call[q] = "delivered" => Reference[q] \in Video
      BY <1>1 DEF SocketFails, Typed, TypeOK
    <3> QED BY <3>1, <3>2 DEF CallsOK, Answered
  <2> QED BY <1>1, <2>1, <2>2, <2>3, TypePartsNext, Unchanged DEF SocketFails
<1>2. CASE SocketCloses
  <2>1. "close" \in Cause
    BY DEF Cause
  <2>2. HandshakeOK' /\ LinkOK' /\ SessionOK' /\ SweepOK'
    BY <1>2, <2>1, Sweeps DEF SocketCloses, HandshakeOK, LinkOK, SessionOK, RejectReady, Typed, TypeOK
  <2>3. CallsOK' /\ HoldersOK'
    <3>1. /\ call' \in [Request -> Progress] /\ HoldersOK'
          /\ \A q \in Request : /\ call'[q] = "answered" => call[q] = "answered" /\ q \notin Waiting \cup Answered
                                /\ call'[q] = "delivered" => call[q] = "delivered"
      BY <1>2, Rejects DEF SocketCloses
    <3>2. writing' = {} /\ \A q \in Request : /\ call[q] = "answered" => q \in writing
                                              /\ call[q] = "delivered" => Reference[q] \in Video
      BY <1>2 DEF SocketCloses, Typed, TypeOK
    <3> QED BY <3>1, <3>2 DEF CallsOK, Answered
  <2> QED BY <1>2, <2>2, <2>3, TypePartsNext, Unchanged DEF SocketCloses
<1>3. CASE EndTimeout
  BY <1>3, Closes, TypePartsNext, Unchanged DEF EndTimeout
<1>4. CASE ReceiveData
  <2>1. PICK n \in 1 .. MaxBatch : \E f \in [1 .. n -> unsent] : batch' = f /\ unsent' \subseteq unsent
    BY <1>4 DEF ReceiveData
  <2>2. unsent \subseteq Frame
    BY DEF Typed, TypeOK
  <2>3. BatchOK' /\ LinkOK'
    <3>1. n \in Nat
      BY <2>1
    <3>2. PICK f \in [1 .. n -> unsent] : batch' = f
      BY <2>1
    <3>3. f \in [1 .. n -> Frame]
      BY <2>2
    <3>4. batch' \in Seq(Frame)
      BY <3>1, <3>2, <3>3, SeqDef
    <3> QED BY <1>4, <2>1, <2>2, <3>4 DEF ReceiveData, BatchOK, LinkOK, Typed, TypeOK
  <2> QED BY <1>4, <2>3, TypePartsNext, Unchanged DEF ReceiveData
<1>5. CASE Release
  BY <1>5, Releases, Rejects, TypePartsNext, Unchanged DEF Release
<1> QED BY <1>1, <1>2, <1>3, <1>4, <1>5
LEMMA TypeInvariance ==
  ASSUME Typed, [Next]_vars
  PROVE  Typed'
<1>1. CASE UNCHANGED vars
  BY <1>1, TypePartsNext, Unchanged DEF vars
<1>2. CASE Next
  <2>1. CASE SocketStep \/ ReceiveData \/ Release
    BY <2>1, TypeOfConnecting, TypeOfSocket DEF SocketStep
  <2>2. CASE FrameStep
    BY <2>2, TypeOfFrames
  <2>3. CASE Continue
    BY <2>3, TypeOfConnecting, TypeOfReading DEF Continue
  <2>4. CASE FileStep
    BY <2>4, TypeOfStores, TypeOfSweeps, TypeOfRemoval DEF FileStep
  <2>5. CASE \E r \in Request : \/ Call(r) \/ WriteCompletes(r) \/ WriteTimeout(r)
                              \/ RequestTimeout(r) \/ ReadTimeout(r)
    BY <2>5, TypeOfCalls
  <2> QED BY <1>2, <2>1, <2>2, <2>3, <2>4, <2>5 DEF Next
<1> QED BY <1>1, <1>2

LEMMA TypeStarts ==
  ASSUME Init
  PROVE  Typed
<1>1. unsent \subseteq Frame
  BY SentAssumption DEF Init
<1>2. <<>> \in Seq(Frame) /\ Idle \in Sweep
  BY DEF Idle, Sweep
<1> QED BY <1>1, <1>2 DEF Init, Typed, TypeOK, Progress

-----------------------------------------------------------------------------
(* The ends of an attempt, of a session and of its calls. *)

(* A connection that is still being made has seen and done nothing.          *)
NothingYet ==
  socket = "connecting" =>
    /\ ~closing /\ ready # "resolved" /\ attempt # "connected"
    /\ batch = <<>> /\ accepting = None /\ \A r \in Request : call[r] = "idle"

(* A session that is over has lost its socket, or the program may not use it *)
(* any more.                                                                 *)
OverIsOver ==
  /\ closing => ~IsOpen
  /\ disconnected => aborted
  /\ aborted => disconnected \/ (~IsOpen /\ socket # "connecting")
  /\ socket = "closed" => aborted

EndInv ==
  /\ Typed /\ NothingYet /\ OverIsOver
  /\ FailedAttemptIsClosed /\ FailureEndsSession /\ ClosedSettlesAll

(* What closes or destroys the socket leaves none that is open.              *)
LEMMA SocketGoes ==
  ASSUME EndInv, NEW seen, CloseTransport(seen) \/ DestroySocket
  PROVE  /\ socket' \in {"ending", "destroyed", "closed"}
         /\ socket \in {"destroyed", "closed"} => socket' \in {"destroyed", "closed"}
         /\ socket' = "closed" <=> socket = "closed"
         /\ closing' => ~IsOpen'
BY DEF EndInv, Typed, TypeOK, NothingYet, OverIsOver, CloseTransport, DestroySocket, link, IsOpen

(* Those who are rejected fail, the others go on.                            *)
LEMMA RejectedFail ==
  ASSUME Typed, NEW requests, Reject(requests)
  PROVE  \A r \in Request : call'[r] = IF r \in requests THEN "failed" ELSE call[r]
BY DEF Reject

(* The five parts, for a step that ends nothing, one that takes the socket   *)
(* away, and one that releases the session.                                  *)
LEMMA NothingEnds ==
  ASSUME EndInv, Typed', UNCHANGED <<socket, closing, attempt, disconnected, aborted>>,
         ready' = "resolved" => ready = "resolved" \/ socket # "connecting",
         socket = "connecting" => batch' = batch /\ accepting' = accepting,
         At("cleaning") => At("cleaning")',
         \A r \in Request :
           /\ socket = "connecting" => call'[r] = "idle"
           /\ socket = "closed" => call'[r] \in {"idle", "done", "refused", "failed"}
           /\ call'[r] = "failed" => \/ \E q \in Request : call[q] = "failed"
                                     \/ aborted \/ ~IsOpen \/ At("cleaning")'
  PROVE  EndInv'
<1>1. NothingYet' /\ OverIsOver' /\ FailedAttemptIsClosed' /\ ClosedSettlesAll'
  BY DEF EndInv, NothingYet, OverIsOver, FailedAttemptIsClosed, ClosedSettlesAll, IsOpen
<1>2. FailureEndsSession'
  <2>1. SUFFICES ASSUME NEW r \in Request, call'[r] = "failed", IsOpen', ~disconnected'
                 PROVE  At("cleaning")'
    BY DEF FailureEndsSession
  <2>2. IsOpen /\ ~disconnected /\ ~aborted
    BY <2>1 DEF IsOpen, EndInv, OverIsOver
  <2> QED BY <2>1, <2>2 DEF EndInv, FailureEndsSession
<1> QED BY <1>1, <1>2 DEF EndInv

LEMMA SocketEnds ==
  ASSUME EndInv, Typed', attempt' # "failed" \/ attempt' = attempt,
         socket' \in {"ending", "destroyed", "closed"},
         socket \in {"destroyed", "closed"} => socket' \in {"destroyed", "closed"},
         closing' => ~IsOpen', disconnected' => aborted',
         socket' = "closed" => aborted'
           /\ \A r \in Request : call'[r] \in {"idle", "done", "refused", "failed"}
  PROVE  EndInv'
BY DEF EndInv, NothingYet, OverIsOver, FailedAttemptIsClosed, FailureEndsSession,
    ClosedSettlesAll, IsOpen
LEMMA EndOfConnecting ==
  ASSUME EndInv, Typed', Connect \/ HandshakeTimeout \/ AttemptSucceeds \/ AttemptFails
  PROVE  EndInv'
<1>1. CASE Connect
  BY <1>1 DEF Connect, EndInv, NothingYet, OverIsOver, FailedAttemptIsClosed, FailureEndsSession,
     ClosedSettlesAll, IsOpen, session, calls, handshake, Typed, TypeOK
<1>2. CASE HandshakeTimeout
  <2>1. /\ socket' \in {"ending", "destroyed", "closed"}
        /\ socket \in {"destroyed", "closed"} => socket' \in {"destroyed", "closed"}
        /\ socket' = "closed" <=> socket = "closed"
        /\ closing' => ~IsOpen'
    BY <1>2, SocketGoes DEF HandshakeTimeout
  <2> QED BY <1>2, <2>1, SocketEnds DEF HandshakeTimeout, session, calls, EndInv, OverIsOver,
      ClosedSettlesAll
<1>3. CASE AttemptSucceeds
  BY <1>3 DEF AttemptSucceeds, EndInv, NothingYet, OverIsOver, FailedAttemptIsClosed,
      FailureEndsSession,
     ClosedSettlesAll, IsOpen, At, link, session, calls, input
<1>4. CASE AttemptFails
  <2>1. /\ socket' \in {"ending", "destroyed", "closed"}
        /\ socket \in {"destroyed", "closed"} => socket' \in {"destroyed", "closed"}
        /\ socket' = "closed" <=> socket = "closed"
        /\ closing' => ~IsOpen'
    BY <1>4, SocketGoes DEF AttemptFails
  <2>2. attempt' = "failed" => socket' \in {"destroyed", "closed"}
    BY <1>4, <2>1 DEF AttemptFails
  <2> QED BY <1>4, <2>1, <2>2 DEF AttemptFails, session, calls, EndInv, NothingYet, OverIsOver,
          FailedAttemptIsClosed, FailureEndsSession, ClosedSettlesAll, IsOpen
<1> QED BY <1>1, <1>2, <1>3, <1>4

LEMMA EndOfCalls ==
  ASSUME EndInv, Typed', NEW r \in Request,
         Call(r) \/ WriteCompletes(r) \/ WriteTimeout(r) \/ RequestTimeout(r) \/ ReadTimeout(r)
  PROVE  EndInv'
<1>1. /\ call \in [Request -> Progress] /\ (disconnected => aborted)
      /\ socket = "connecting" => attempt # "connected" /\ \A q \in Request : call[q] = "idle"
      /\ socket = "closed" => aborted /\ \A q \in Request : call[q] \in {"idle", "done", "refused", "failed"}
  BY DEF EndInv, Typed, TypeOK, NothingYet, OverIsOver, ClosedSettlesAll
<1>2. ASSUME ReleaseAgent, UNCHANGED attempt PROVE EndInv'
  <2>1. /\ socket' \in {"ending", "destroyed", "closed"}
        /\ socket \in {"destroyed", "closed"} => socket' \in {"destroyed", "closed"}
        /\ socket' = "closed" <=> socket = "closed"
        /\ closing' => ~IsOpen'
    BY <1>2, SocketGoes DEF ReleaseAgent
  <2>2. \A q \in Request : call'[q] = IF q \in Waiting THEN "failed" ELSE call[q]
    BY <1>2, RejectedFail DEF ReleaseAgent, EndInv
  <2> QED BY <1>1, <1>2, <2>1, <2>2, SocketEnds DEF ReleaseAgent
<1>3. CASE Call(r)
  <2>1. UNCHANGED <<socket, closing, attempt, disconnected, aborted, ready, batch, accepting>>
    BY <1>3 DEF Call, link, handshake, session, input
  <2>2. \A q \in Request : q # r => call'[q] = call[q]
    BY <1>1, <1>3 DEF Call
  <2>3. /\ socket # "connecting" /\ call'[r] \in {"pending", "failed"}
        /\ call'[r] = "failed" => aborted \/ ~IsOpen
        /\ socket = "closed" => call'[r] = "failed"
    BY <1>1, <1>3 DEF Call, IsOpen
  <2> QED BY <1>1, <2>1, <2>2, <2>3, NothingEnds DEF At
<1>4. CASE WriteCompletes(r)
  <2>1. UNCHANGED <<socket, closing, attempt, disconnected, aborted, ready, batch, accepting>>
    BY <1>4 DEF WriteCompletes, link, handshake, session, input
  <2>2. \A q \in Request : call'[q] = call[q] \/ (call[q] = "answered" /\ call'[q] = "resolved")
    BY <1>1, <1>4 DEF WriteCompletes
  <2> QED BY <1>1, <2>1, <2>2, NothingEnds DEF At
<1>5. CASE WriteTimeout(r)
  <2>1. /\ socket' \in {"ending", "destroyed", "closed"}
        /\ socket \in {"destroyed", "closed"} => socket' \in {"destroyed", "closed"}
        /\ socket' = "closed" <=> socket = "closed"
        /\ closing' => ~IsOpen'
    BY <1>5, SocketGoes DEF WriteTimeout
  <2>2. \A q \in Request : call'[q] = "failed" \/ call'[q] = call[q]
    BY <1>5, RejectedFail DEF WriteTimeout, EndInv
  <2> QED BY <1>1, <1>5, <2>1, <2>2, SocketEnds DEF WriteTimeout, handshake
<1>6. CASE RequestTimeout(r)
  BY <1>2, <1>6 DEF RequestTimeout, handshake
<1>7. CASE ReadTimeout(r)
  <2>1. CASE ReleaseAgent
    BY <1>2, <1>7, <2>1 DEF ReadTimeout, handshake
  <2>2. CASE disconnected /\ Reject({r}) /\ UNCHANGED <<link, session, sweep>>
    <3>1. UNCHANGED <<socket, closing, attempt, disconnected, aborted, ready, batch, accepting>>
      BY <1>7, <2>2 DEF ReadTimeout, link, handshake, session, input
    <3>2. call[r] = "reading" /\ \A q \in Request : call'[q] = IF q = r THEN "failed" ELSE call[q]
      BY <1>7, <2>2, RejectedFail DEF ReadTimeout, EndInv
    <3> QED BY <1>1, <2>2, <3>1, <3>2, NothingEnds DEF At
  <2> QED BY <1>7, <2>1, <2>2 DEF ReadTimeout
<1> QED BY <1>3, <1>4, <1>5, <1>6, <1>7

LEMMA EndOfReading ==
  ASSUME EndInv, Typed', NEW r \in Request,
         ReadImage(r) \/ ReadVideo(r) \/ FinishCall(r) \/ HandOver(r)
  PROVE  EndInv'
<1>1. /\ call \in [Request -> Progress]
      /\ socket = "connecting" => \A q \in Request : call[q] = "idle"
      /\ socket = "closed" => \A q \in Request : call[q] \in {"idle", "done", "refused", "failed"}
  BY DEF EndInv, Typed, TypeOK, NothingYet, ClosedSettlesAll
<1>2. UNCHANGED <<socket, closing, attempt, disconnected, aborted, ready, batch, accepting>>
  BY DEF ReadImage, ReadVideo, FinishCall, HandOver, link, handshake, session, input
<1>3. /\ call[r] \in {"resolved", "delivered"} /\ \A q \in Request : q # r => call'[q] = call[q]
      /\ call'[r] = "failed" => aborted
  BY <1>1 DEF ReadImage, ReadVideo, FinishCall, HandOver
<1> QED BY <1>1, <1>2, <1>3, NothingEnds DEF At

LEMMA EndOfFrames ==
  ASSUME EndInv, Typed', FrameStep
  PROVE  EndInv'
<1>1. /\ call \in [Request -> Progress] /\ (disconnected => aborted)
      /\ socket = "connecting" => batch = <<>>
      /\ socket = "closed" => aborted /\ \A q \in Request : call[q] \in {"idle", "done", "refused", "failed"}
  BY DEF EndInv, Typed, TypeOK, NothingYet, OverIsOver, ClosedSettlesAll
<1>2. Handling /\ socket # "connecting" /\ ~At("cleaning") /\ attempt' = attempt /\ disconnected' = disconnected
  BY <1>1 DEF FrameStep, AcceptReady, AcceptUnsupported, AcceptBusy, AcceptChallenge,
      AcceptClose, AcceptGarbage,
     AcceptResponse, AcceptImageChunk, AcceptVideoChunk, VideoChunk, NextFrame, Handling, At, handshake, session
<1>3. ASSUME UNCHANGED <<link, aborted, call>>
      PROVE  EndInv'
  BY <1>1, <1>2, <1>3, NothingEnds DEF link
<1>4. ASSUME NEW seen, CloseTransport(seen) \/ DestroySocket, aborted' = aborted \/ aborted' = TRUE,
             \A q \in Request : call'[q] = "failed" \/ call'[q] = call[q]
      PROVE  EndInv'
  <2>1. /\ socket' \in {"ending", "destroyed", "closed"}
        /\ socket \in {"destroyed", "closed"} => socket' \in {"destroyed", "closed"}
        /\ socket' = "closed" <=> socket = "closed"
        /\ closing' => ~IsOpen'
    BY <1>4, SocketGoes
  <2> QED BY <1>1, <1>2, <1>4, <2>1, SocketEnds
<1>5. ASSUME SessionErrs({}), DestroySocket PROVE EndInv'
  <2>1. aborted' = TRUE /\ \A q \in Request : call'[q] = "failed" \/ call'[q] = call[q]
    BY <1>5, RejectedFail DEF SessionErrs, EndInv
  <2> QED BY <1>4, <1>5, <2>1
<1>6. CASE AcceptReady
  BY <1>3, <1>6 DEF AcceptReady, session, calls
<1>7. CASE AcceptUnsupported \/ AcceptBusy \/ AcceptClose
  <2>1. UNCHANGED <<aborted, call>>
    BY <1>7 DEF AcceptUnsupported, AcceptBusy, AcceptClose, session, calls
  <2>2. UNCHANGED link \/ CloseTransport(TRUE) \/ CloseTransport(greeted) \/ DestroySocket
    BY <1>7 DEF AcceptUnsupported, AcceptBusy, AcceptClose
  <2> QED BY <1>3, <1>4, <2>1, <2>2
<1>8. CASE AcceptChallenge \/ AcceptGarbage
  <2>1. \/ UNCHANGED <<link, aborted, call>>
        \/ SessionErrs({}) /\ DestroySocket
    BY <1>8 DEF AcceptChallenge, AcceptGarbage, session, calls
  <2> QED BY <1>3, <1>5, <2>1
<1>9. CASE AcceptResponse
  <2>1. aborted' = aborted
    BY <1>9 DEF AcceptResponse, session
  <2>2. CASE CloseTransport(greeted) /\ UNCHANGED call
    BY <1>4, <2>1, <2>2
  <2>3. CASE UNCHANGED <<link, ready>> /\ call[Head(batch).of] = "pending"
    <3>1. \A q \in Request : call'[q] = call[q] \/ (call[q] = "pending" /\ call'[q] \in {"answered", "resolved", "refused"})
      BY <1>1, <1>9, <2>3 DEF AcceptResponse
    <3> QED BY <1>1, <1>2, <2>1, <2>3, <3>1, NothingEnds DEF link
  <2> QED BY <1>9, <2>2, <2>3 DEF AcceptResponse
<1>10. CASE AcceptImageChunk \/ AcceptVideoChunk
  <2>1. UNCHANGED <<link, aborted, ready>>
    BY <1>10 DEF AcceptImageChunk, AcceptVideoChunk, VideoChunk, session, handshake
  <2>2. CASE ChunkFails(Head(batch))
    <3>1. At("cleaning")'
      <4>1. /\ accepting' = [of |-> Head(batch).of, part |-> Head(batch).part, step |-> "cleaning"]
            /\ Head(batch).of \in Transfer /\ Head(batch).part \in {"first", "last"}
        BY <1>2, <1>10, <2>2, Frames DEF ChunkFails, AcceptImageChunk, AcceptVideoChunk,
            VideoChunk, NextFrame, EndInv
      <4> QED BY <4>1, Chunks DEF At
    <3>2. \A q \in Request : call'[q] = IF q \in Waiting THEN "failed" ELSE call[q]
      BY <2>2, RejectedFail DEF ChunkFails, EndInv
    <3>3. socket = "closed" => \A q \in Request : call'[q] = call[q]
      BY <1>1, <3>2 DEF Waiting
    <3> QED BY <1>1, <1>2, <2>1, <3>1, <3>2, <3>3, NothingEnds DEF link
  <2>3. CASE ~ChunkFails(Head(batch))
    <3>1. \A q \in Request : call'[q] = call[q] \/ (call[q] = "reading" /\ call'[q] = "done")
      BY <1>10, <2>3 DEF AcceptImageChunk, AcceptVideoChunk, VideoChunk
    <3> QED BY <1>1, <1>2, <2>1, <3>1, NothingEnds DEF link
  <2> QED BY <2>2, <2>3
<1> QED BY <1>6, <1>7, <1>8, <1>9, <1>10 DEF FrameStep

LEMMA EndOfFiles ==
  ASSUME EndInv, Typed', FileStep
  PROVE  EndInv'
<1>1. /\ call \in [Request -> Progress] /\ accepting \in Chunk \cup {None} /\ (disconnected => aborted)
      /\ socket = "connecting" => accepting = None /\ \A q \in Request : call[q] = "idle"
      /\ socket = "closed" => aborted /\ \A q \in Request : call[q] \in {"idle", "done", "refused", "failed"}
  BY DEF EndInv, Typed, TypeOK, NothingYet, OverIsOver, ClosedSettlesAll
<1>2. ASSUME UNCHANGED <<link, handshake, session, input, calls>>
      PROVE  EndInv'
  BY <1>1, <1>2, NothingEnds DEF link, handshake, session, input, calls, At
<1>3. CASE ChunkFailed
  <2>1. /\ socket' \in {"ending", "destroyed", "closed"}
        /\ socket \in {"destroyed", "closed"} => socket' \in {"destroyed", "closed"}
        /\ socket' = "closed" <=> socket = "closed"
        /\ closing' => ~IsOpen'
    BY <1>3, SocketGoes DEF ChunkFailed
  <2> QED BY <1>1, <1>3, <2>1, SocketEnds DEF ChunkFailed, handshake, session, calls
<1>4. CASE Create \/ CreateFails \/ Write \/ Sync \/ Rename \/ Discarded \/ StoreFails \/ StoreFailed
  <2>1. UNCHANGED <<link, handshake, session, batch>> /\ accepting # None /\ ~At("cleaning")
    BY <1>4 DEF Create, CreateFails, Write, Sync, Rename, Discarded, StoreFails, StoreFailed, At
  <2>2. CASE ChunkFails(accepting)
    <3>1. At("cleaning")'
      <4>1. /\ accepting' = [of |-> accepting.of, part |-> accepting.part, step |-> "cleaning"]
            /\ accepting.of \in Transfer /\ accepting.part \in {"first", "last"}
        BY <1>1, <2>1, <2>2, Chunks DEF ChunkFails
      <4> QED BY <4>1, Chunks DEF At
    <3>2. \A q \in Request : call'[q] = IF q \in Waiting THEN "failed" ELSE call[q]
      BY <2>2, RejectedFail DEF ChunkFails, EndInv
    <3>3. socket = "closed" => \A q \in Request : call'[q] = call[q]
      BY <1>1, <3>2 DEF Waiting
    <3> QED BY <1>1, <2>1, <3>1, <3>2, <3>3, NothingEnds DEF link, handshake, session
  <2>3. CASE ~ChunkFails(accepting)
    <3>1. \A q \in Request : call'[q] = call[q] \/ (call[q] = "reading" /\ call'[q] \in {"delivered", "refused"})
      BY <1>4, <2>3 DEF Create, CreateFails, Write, Sync, Rename, Discarded, StoreFails,
          StoreFailed, calls
    <3> QED BY <1>1, <2>1, <3>1, NothingEnds DEF link, handshake, session
  <2> QED BY <2>2, <2>3
<1>5. CASE (\E t \in Video : RemoveDirectory(t))
           \/ \E c \in Cause : SweepCompleted(c) \/ SweepPartial(c) \/ SweepEnds(c)
  BY <1>2, <1>5 DEF RemoveDirectory, SweepCompleted, SweepPartial, SweepEnds
<1> QED BY <1>3, <1>4, <1>5 DEF FileStep, StoreStep

LEMMA EndOfSocket ==
  ASSUME EndInv, Typed', SocketFails \/ SocketCloses \/ EndTimeout \/ ReceiveData \/ Release
  PROVE  EndInv'
<1>1. /\ call \in [Request -> Progress] /\ (disconnected => aborted)
      /\ socket = "connecting" => \A q \in Request : call[q] = "idle"
      /\ socket = "closed" => aborted /\ \A q \in Request : call[q] \in {"idle", "done", "refused", "failed"}
      /\ \A q \in Request : call[q] = "answered" => q \in writing
  BY DEF EndInv, Typed, TypeOK, NothingYet, OverIsOver, ClosedSettlesAll
<1>2. ASSUME NEW seen, CloseTransport(seen) \/ DestroySocket
      PROVE  /\ socket' \in {"ending", "destroyed", "closed"}
             /\ socket \in {"destroyed", "closed"} => socket' \in {"destroyed", "closed"}
             /\ socket' = "closed" <=> socket = "closed"
             /\ closing' => ~IsOpen'
  BY <1>2, SocketGoes
<1>3. CASE SocketFails
  <2>1. \A q \in Request : call'[q] = "failed" \/ call'[q] = call[q]
    BY <1>3, RejectedFail DEF SocketFails, SessionErrs, EndInv
  <2> QED BY <1>1, <1>2, <1>3, <2>1, SocketEnds DEF SocketFails, SessionErrs
<1>4. CASE SocketCloses
  <2>1. \A q \in Request : call[q] \notin {"resolved", "delivered"}
    BY <1>4 DEF SocketCloses, Quiet, Continuing
  <2>2. \A q \in Request : call'[q] = IF q \in Waiting \cup Answered THEN "failed" ELSE call[q]
    BY <1>4, RejectedFail DEF SocketCloses, EndInv
  <2>3. \A q \in Request : call'[q] \in {"idle", "done", "refused", "failed"}
    BY <1>1, <2>1, <2>2 DEF Waiting, Answered, Progress
  <2>4. socket' = "closed" /\ disconnected' /\ aborted'
    BY <1>4 DEF SocketCloses
  <2> QED
    BY <2>3, <2>4 DEF EndInv, NothingYet, OverIsOver, FailedAttemptIsClosed, FailureEndsSession,
       ClosedSettlesAll, IsOpen
<1>5. CASE EndTimeout
  BY <1>1, <1>2, <1>5, SocketEnds DEF EndTimeout, handshake, session, calls
<1>6. CASE ReceiveData
  BY <1>1, <1>6, NothingEnds DEF ReceiveData, handshake, session, calls, At
<1>7. CASE Release
  <2>1. \A q \in Request : call'[q] = "failed" \/ call'[q] = call[q]
    BY <1>7, RejectedFail DEF Release, ReleaseAgent, EndInv
  <2> QED BY <1>1, <1>2, <1>7, <2>1, SocketEnds DEF Release, ReleaseAgent, handshake
<1> QED BY <1>3, <1>4, <1>5, <1>6, <1>7

LEMMA EndInvariance ==
  ASSUME EndInv, [Next]_vars
  PROVE  EndInv'
<1>1. Typed'
  BY TypeInvariance DEF EndInv
<1>2. CASE UNCHANGED vars
  BY <1>1, <1>2, NothingEnds DEF vars, link, handshake, session, input, calls, At, EndInv, NothingYet,
     ClosedSettlesAll
<1>3. CASE Next
  <2>1. CASE SocketStep \/ ReceiveData \/ Release
    BY <1>1, <2>1, EndOfConnecting, EndOfSocket DEF SocketStep
  <2>2. CASE FrameStep
    BY <1>1, <2>2, EndOfFrames
  <2>3. CASE Continue
    BY <1>1, <2>3, EndOfConnecting, EndOfReading DEF Continue
  <2>4. CASE FileStep
    BY <1>1, <2>4, EndOfFiles
  <2>5. CASE \E r \in Request : \/ Call(r) \/ WriteCompletes(r) \/ WriteTimeout(r)
                              \/ RequestTimeout(r) \/ ReadTimeout(r)
    BY <1>1, <2>5, EndOfCalls
  <2> QED BY <1>3, <2>1, <2>2, <2>3, <2>4, <2>5 DEF Next
<1> QED BY <1>2, <1>3
LEMMA EndStarts ==
  ASSUME Init
  PROVE  EndInv
<1>1. Typed
  BY TypeStarts
<1> QED BY <1>1 DEF Init, EndInv, NothingYet, OverIsOver, FailedAttemptIsClosed,
    FailureEndsSession, ClosedSettlesAll

LEMMA EndsWell == Spec => []EndInv
<1>1. Init => EndInv
  BY EndStarts
<1>2. EndInv /\ [Next]_vars => EndInv'
  BY EndInvariance
<1> QED BY <1>1, <1>2, PTL DEF Spec

(* A failed attempt has given its socket up, so that the next candidate is   *)
(* never tried beside it (connection.ts 2200-2205).                          *)
THEOREM FailedAttemptIsClosedHolds == Spec => []FailedAttemptIsClosed
<1>1. EndInv => FailedAttemptIsClosed
  BY DEF EndInv
<1> QED BY <1>1, EndsWell, PTL

(* The agent is never left working for a caller that gave up: its session    *)
(* has ended or a bad chunk is about to end it (connection.ts 2255-2265).    *)
THEOREM FailureEndsSessionHolds == Spec => []FailureEndsSession
<1>1. EndInv => FailureEndsSession
  BY DEF EndInv
<1> QED BY <1>1, EndsWell, PTL

(* A closed connection leaves nobody waiting, at whatever stage its requests, *)
(* writes and binary transfers were (connection.ts onClose).                 *)
THEOREM WaitersAreSettledHolds == Spec => []WaitersAreSettled
<1>1. EndInv => WaitersAreSettled
  BY DEF EndInv, Typed, WaitersAreSettled
<1> QED BY <1>1, EndsWell, PTL
-----------------------------------------------------------------------------
(* The files of a session that is over. *)

(* Who has started a sweep, what a sweep that is past its wait knows, and    *)
(* what the sweep of a closed socket still has to do.                        *)
SweepsFinish ==
  /\ \A c \in Cause \ {"chunk"} : sweep[c] # Idle => aborted
  /\ sweep["chunk"] # Idle => At("cleaning")
  /\ \A c \in Cause : sweep[c].stage \in {"completed", "partial"} => accepting = None \/ At("cleaning")
  /\ sweep["close"] # Idle => socket = "closed"
  /\ socket = "closed" =>
       \/ sweep["close"].stage = "waiting"
       \/ /\ accepting = None \/ At("cleaning")
          /\ completed = {}
          /\ sweep["close"].stage = "completed" \/ receiving = {}

(* What is being done with a video's chunk, and what its reader has.         *)
StepOf(t) == IF accepting # None /\ accepting.of = t THEN accepting.step ELSE "none"
ReaderHas(t, progress) == \E r \in Request : Reference[r] = t /\ call[r] = progress

(* A directory with a video in it is somebody's to hand over or to remove.   *)
Owned(t) ==
  dir[t] \in {"partial", "complete"} =>
    \/ t \in receiving \cup completed \cup removing
    \/ StepOf(t) = "renaming" \/ ReaderHas(t, "delivered")

(* The first chunk of a transfer comes once, and nothing is done with the    *)
(* transfer before.                                                          *)
First(t) == [kind |-> "chunk", of |-> t, part |-> "first"]
Arrived(t) == \E i \in 1 .. Len(batch) : batch[i] = First(t)
Once(t) ==
  /\ \A i, j \in 1 .. Len(batch) : batch[i] = First(t) /\ batch[j] = First(t) => i = j
  /\ Arrived(t) => First(t) \notin unsent
Coming(t) == First(t) \in unsent \/ Arrived(t)
Untouched(t) ==
  /\ dir[t] = "none" /\ t \notin receiving \cup completed \cup removing
  /\ ~ReaderHas(t, "delivered") /\ StepOf(t) \in {"none", "cleaning"}

(* The stages of a video: it is in one place at a time.                      *)
Nowhere(t) == t \notin receiving \cup completed \cup removing /\ ~ReaderHas(t, "delivered")
New(t) ==
  dir[t] = "none" /\ Nowhere(t) /\ StepOf(t) \in {"none", "creating", "cleaning"}
Partial(t) ==
  /\ dir[t] = "partial" /\ t \notin completed /\ ~ReaderHas(t, "delivered")
  /\ \/ /\ t \in receiving /\ t \notin removing
        /\ StepOf(t) \in {"none", "writing", "syncing", "cleaning"}
     \/ t \notin receiving /\ t \notin removing /\ StepOf(t) = "renaming"
     \/ t \notin receiving /\ t \in removing /\ StepOf(t) \in {"none", "failing", "cleaning"}
Complete(t) ==
  /\ dir[t] = "complete" /\ t \notin receiving
  /\ \/ /\ t \in completed /\ t \notin removing /\ ~ReaderHas(t, "delivered")
        /\ StepOf(t) \in {"none", "cleaning"}
     \/ /\ t \notin completed /\ t \notin removing /\ ReaderHas(t, "delivered")
        /\ StepOf(t) \in {"none", "cleaning"}
     \/ /\ t \notin completed /\ t \in removing /\ ~ReaderHas(t, "delivered")
        /\ StepOf(t) \in {"none", "discarding", "cleaning"}
Handed(t) ==
  /\ dir[t] = "handed" /\ Nowhere(t) /\ StepOf(t) \in {"none", "cleaning"}
  /\ ReaderHas(t, "done")
Removed(t) ==
  /\ dir[t] = "removed" /\ Nowhere(t)
  /\ StepOf(t) \in {"none", "discarding", "failing", "cleaning"}
Stored(t) == New(t) \/ Partial(t) \/ Complete(t) \/ Handed(t) \/ Removed(t)

(* A reader that gave up has cancelled its transfer, wherever it was.        *)
Staged(t) == (ReaderHas(t, "failed") /\ dir[t] # "handed") \/ Stored(t)

Filed(t) == Owned(t) /\ Once(t) /\ (Coming(t) => Untouched(t)) /\ Staged(t)

FilesInv == EndInv /\ SweepsFinish /\ \A t \in Video : Filed(t)

-----------------------------------------------------------------------------
(* Sweeps. *)

(* The sweeps go on, for a step that ends none.                              *)
LEMMA SweepsGoOn ==
  ASSUME Typed, SweepsFinish, socket' = "closed" <=> socket = "closed", aborted => aborted',
         accepting = None \/ At("cleaning") => completed' \subseteq completed /\ receiving' \subseteq receiving,
         accepting = None => accepting' = None \/ At("cleaning")' \/ ~aborted,
         At("cleaning") => At("cleaning")' \/ (accepting' = None /\ sweep'["chunk"] = Idle),
         socket = "closed" => aborted,
         \A c \in Cause :
           \/ sweep'[c] = sweep[c]
           \/ /\ sweep[c] = Idle /\ sweep'[c].stage = "waiting" /\ sweep'[c] # Idle
              /\ \/ c = "chunk" /\ At("cleaning")'
                 \/ c \in {"error", "release"} /\ aborted'
  PROVE  SweepsFinish'
<1>1. /\ \A c \in Cause \ {"chunk"} : sweep[c] # Idle => aborted
      /\ sweep["chunk"] # Idle => At("cleaning")
      /\ \A c \in Cause : sweep[c].stage \in {"completed", "partial"} => accepting = None \/ At("cleaning")
      /\ sweep["close"] # Idle => socket = "closed"
  BY DEF SweepsFinish
<1>2. /\ "chunk" \in Cause /\ "close" \in Cause
      /\ \A c \in Cause : sweep[c].stage \in {"completed", "partial"} => sweep[c] # Idle
  BY DEF Cause, Idle
<1>3. \A c \in Cause \ {"chunk"} : sweep'[c] # Idle => aborted'
  BY <1>1
<1>4. sweep'["chunk"] # Idle => At("cleaning")'
  BY <1>1, <1>2
<1>5. \A c \in Cause : sweep'[c].stage \in {"completed", "partial"} => accepting' = None \/ At("cleaning")'
  BY <1>1, <1>2 DEF At
<1>6. sweep'["close"] = sweep["close"]
  BY <1>2
<1>7. socket' = "closed" =>
       \/ sweep'["close"].stage = "waiting"
       \/ /\ accepting' = None \/ At("cleaning")'
          /\ completed' = {}
          /\ sweep'["close"].stage = "completed" \/ receiving' = {}
  BY <1>1, <1>6 DEF SweepsFinish, At
<1> QED BY <1>1, <1>3, <1>4, <1>5, <1>6, <1>7 DEF SweepsFinish
LEMMA SweepStarts ==
  ASSUME Typed, NEW c \in Cause, StartSweep(c)
  PROVE  \A d \in Cause : \/ sweep'[d] = sweep[d]
                          \/ d = c /\ sweep[d] = Idle /\ sweep'[d].stage = "waiting" /\ sweep'[d] # Idle
BY DEF Typed, TypeOK, StartSweep, Idle

(* A step of the session that neither accepts a chunk nor ends a sweep.      *)
LEMMA SweepsLeft ==
  ASSUME EndInv, SweepsFinish, UNCHANGED accepting, completed' \subseteq completed,
         receiving' \subseteq receiving, socket' = "closed" <=> socket = "closed", aborted => aborted',
         UNCHANGED sweep \/ (aborted' /\ \E c \in {"error", "release"} : StartSweep(c))
  PROVE  SweepsFinish'
<1>1. {"error", "release"} \subseteq Cause
  BY DEF Cause
<1> QED BY <1>1, SweepStarts, SweepsGoOn DEF EndInv, OverIsOver, At

LEMMA SweepsOfSession ==
  ASSUME EndInv, SweepsFinish,
         \/ Connect \/ HandshakeTimeout \/ AttemptSucceeds \/ AttemptFails
         \/ SocketFails \/ EndTimeout \/ ReceiveData \/ Release
         \/ \E r \in Request : \/ Call(r) \/ WriteCompletes(r) \/ WriteTimeout(r) \/ RequestTimeout(r)
                               \/ ReadTimeout(r) \/ ReadImage(r) \/ ReadVideo(r) \/ FinishCall(r) \/ HandOver(r)
  PROVE  SweepsFinish'
<1>1. ASSUME NEW requests, Reject(requests) PROVE receiving' \subseteq receiving
  BY <1>1 DEF Reject
<1>2. ASSUME NEW seen, CloseTransport(seen) \/ DestroySocket PROVE socket' = "closed" <=> socket = "closed"
  BY <1>2, SocketGoes
<1>3. disconnected => aborted
  BY DEF EndInv, OverIsOver
<1>4. CASE Connect \/ HandshakeTimeout \/ AttemptSucceeds \/ AttemptFails \/ EndTimeout \/ ReceiveData
  <2>1. UNCHANGED <<accepting, aborted, completed, receiving, sweep>>
    BY <1>4 DEF Connect, HandshakeTimeout, AttemptSucceeds, AttemptFails, EndTimeout,
        ReceiveData, session,
       input, files
  <2>2. socket' = "closed" <=> socket = "closed"
    BY <1>2, <1>4 DEF Connect, HandshakeTimeout, AttemptSucceeds, AttemptFails, EndTimeout,
        ReceiveData, link
  <2> QED BY <2>1, <2>2, SweepsLeft
<1>5. ASSUME ReleaseAgent, UNCHANGED <<accepting, completed>> PROVE SweepsFinish'
  BY <1>1, <1>2, <1>5, SweepsLeft DEF ReleaseAgent
<1>6. CASE SocketFails
  BY <1>1, <1>2, <1>6, SweepsLeft DEF SocketFails, SessionErrs, input
<1>7. CASE Release \/ \E r \in Request : RequestTimeout(r)
  BY <1>5, <1>7 DEF Release, RequestTimeout, input
<1>8. ASSUME NEW r \in Request, WriteTimeout(r) PROVE SweepsFinish'
  BY <1>1, <1>2, <1>8, SweepsLeft DEF WriteTimeout, input
<1>9. ASSUME NEW r \in Request, ReadTimeout(r) PROVE SweepsFinish'
  <2>1. UNCHANGED <<accepting, completed>>
    BY <1>9 DEF ReadTimeout, input
  <2>2. CASE Reject({r}) /\ UNCHANGED <<link, session, sweep>>
    BY <1>1, <2>1, <2>2, SweepsLeft DEF link, session
  <2> QED BY <1>5, <1>9, <2>1, <2>2 DEF ReadTimeout
<1>10. ASSUME NEW r \in Request,
              \/ Call(r) \/ WriteCompletes(r) \/ ReadImage(r) \/ ReadVideo(r) \/ FinishCall(r) \/ HandOver(r)
       PROVE  SweepsFinish'
  <2>1. UNCHANGED <<socket, aborted, accepting, receiving, sweep>> /\ completed' \subseteq completed
    BY <1>10 DEF Call, WriteCompletes, ReadImage, ReadVideo, FinishCall, HandOver, link, session,
        input, files
  <2> QED BY <2>1, SweepsLeft
<1> QED BY <1>4, <1>6, <1>7, <1>8, <1>9, <1>10

LEMMA SweepsOfFrames ==
  ASSUME EndInv, SweepsFinish, FrameStep
  PROVE  SweepsFinish'
<1>1. ASSUME NEW requests, Reject(requests) PROVE receiving' \subseteq receiving
  BY <1>1 DEF Reject
<1>2. ASSUME NEW seen, CloseTransport(seen) \/ DestroySocket PROVE socket' = "closed" <=> socket = "closed"
  BY <1>2, SocketGoes
<1>3. accepting = None /\ (socket = "closed" => aborted)
  BY DEF FrameStep, AcceptReady, AcceptUnsupported, AcceptBusy, AcceptChallenge, AcceptClose,
      AcceptGarbage,
     AcceptResponse, AcceptImageChunk, AcceptVideoChunk, VideoChunk, NextFrame, Handling, EndInv, OverIsOver
<1>4. CASE AcceptReady \/ AcceptUnsupported \/ AcceptBusy \/ AcceptClose \/ AcceptResponse
  <2>1. UNCHANGED <<accepting, aborted, completed, receiving, sweep>>
    BY <1>4 DEF AcceptReady, AcceptUnsupported, AcceptBusy, AcceptClose, AcceptResponse, session, files
  <2>2. socket' = "closed" <=> socket = "closed"
    BY <1>2, <1>4 DEF AcceptReady, AcceptUnsupported, AcceptBusy, AcceptClose, AcceptResponse, link
  <2> QED BY <2>1, <2>2, SweepsLeft
<1>5. ASSUME SessionErrs({}), DestroySocket, UNCHANGED <<accepting, completed>> PROVE SweepsFinish'
  BY <1>1, <1>2, <1>5, SweepsLeft DEF SessionErrs
<1>6. CASE AcceptChallenge \/ AcceptGarbage
  <2>1. \/ UNCHANGED <<link, session, accepting, files, sweep>>
        \/ SessionErrs({}) /\ DestroySocket /\ UNCHANGED <<accepting, completed>>
    BY <1>6 DEF AcceptChallenge, AcceptGarbage
  <2>2. CASE UNCHANGED <<link, session, accepting, files, sweep>>
    BY <2>2, SweepsLeft DEF link, session, files
  <2> QED BY <1>5, <2>1, <2>2
<1>7. CASE AcceptImageChunk \/ AcceptVideoChunk
  <2>1. UNCHANGED <<socket, aborted, completed>>
    BY <1>7 DEF AcceptImageChunk, AcceptVideoChunk, VideoChunk, link, session
  <2>2. CASE ChunkFails(Head(batch))
    <3>1. At("cleaning")'
      <4>1. /\ accepting' = [of |-> Head(batch).of, part |-> Head(batch).part, step |-> "cleaning"]
            /\ Head(batch).of \in Transfer /\ Head(batch).part \in {"first", "last"}
        BY <1>7, <2>2, Frames DEF ChunkFails, AcceptImageChunk, AcceptVideoChunk, VideoChunk,
            NextFrame, EndInv
      <4> QED BY <4>1, Chunks DEF At
    <3>2. "chunk" \in Cause /\ StartSweep("chunk") /\ receiving' \subseteq receiving
      BY <1>1, <2>2 DEF ChunkFails, Cause
    <3>3. ~At("cleaning") /\ Typed
      BY <1>3 DEF At, EndInv
    <3>4. \A c \in Cause : \/ sweep'[c] = sweep[c]
                           \/ c = "chunk" /\ sweep[c] = Idle /\ sweep'[c].stage = "waiting" /\ sweep'[c] # Idle
      BY <3>2, <3>3, SweepStarts
    <3> QED BY <1>3, <2>1, <3>1, <3>2, <3>3, <3>4, SweepsGoOn
  <2>3. CASE ~ChunkFails(Head(batch))
    <3>1. UNCHANGED <<receiving, sweep>> /\ (accepting' = accepting \/ ~aborted)
      <4>1. CASE AcceptImageChunk
        BY <2>3, <4>1 DEF AcceptImageChunk
      <4>2. CASE AcceptVideoChunk
        BY <2>3, <4>2 DEF AcceptVideoChunk, VideoChunk
      <4> QED BY <1>7, <4>1, <4>2
    <3> QED BY <1>3, <2>1, <3>1, SweepsGoOn DEF EndInv, At
  <2> QED BY <2>2, <2>3
<1> QED BY <1>4, <1>6, <1>7 DEF FrameStep

LEMMA SweepsOfFiles ==
  ASSUME EndInv, SweepsFinish, FileStep
  PROVE  SweepsFinish'
<1>1. /\ Typed /\ (socket = "closed" => aborted)
      /\ sweep \in [Cause -> Sweep] /\ {"close", "chunk"} \subseteq Cause
  BY DEF EndInv, OverIsOver, Typed, TypeOK, Cause
<1>2. CASE \E t \in Video : RemoveDirectory(t)
  BY <1>2, SweepsLeft DEF RemoveDirectory, link, session, input
<1>3. CASE Create \/ CreateFails \/ Write \/ Sync \/ Rename \/ Discarded \/ StoreFails \/ StoreFailed
  <2>1. UNCHANGED <<socket, aborted>> /\ accepting # None /\ ~At("cleaning")
    BY <1>3 DEF Create, CreateFails, Write, Sync, Rename, Discarded, StoreFails, StoreFailed, At,
        link, session
  <2>2. CASE ChunkFails(accepting)
    <3>1. At("cleaning")'
      <4>1. /\ accepting' = [of |-> accepting.of, part |-> accepting.part, step |-> "cleaning"]
            /\ accepting.of \in Transfer /\ accepting.part \in {"first", "last"}
        BY <1>1, <2>1, <2>2, Chunks DEF ChunkFails, Typed, TypeOK
      <4> QED BY <4>1, Chunks DEF At
    <3>2. StartSweep("chunk")
      BY <2>2 DEF ChunkFails
    <3>3. \A c \in Cause : \/ sweep'[c] = sweep[c]
                           \/ c = "chunk" /\ sweep[c] = Idle /\ sweep'[c].stage = "waiting" /\ sweep'[c] # Idle
      BY <1>1, <3>2, SweepStarts
    <3> QED BY <1>1, <2>1, <3>1, <3>3, SweepsGoOn
  <2>3. CASE ~ChunkFails(accepting)
    <3>1. UNCHANGED sweep
      BY <1>3, <2>3 DEF Create, CreateFails, Write, Sync, Rename, Discarded, StoreFails, StoreFailed
    <3> QED BY <1>1, <2>1, <3>1, SweepsGoOn
  <2> QED BY <2>2, <2>3
<1>4. CASE ChunkFailed
  <2>1. /\ sweep["chunk"] = Idle /\ accepting' = None /\ At("cleaning")
        /\ UNCHANGED <<aborted, completed, receiving, sweep>>
    BY <1>4 DEF ChunkFailed, session, files
  <2>2. socket' = "closed" <=> socket = "closed"
    BY <1>4, SocketGoes DEF ChunkFailed
  <2>3. accepting # None
    BY <2>1 DEF At
  <2> QED BY <1>1, <2>1, <2>2, <2>3, SweepsGoOn
<1>5. ASSUME NEW c \in Cause, SweepCompleted(c) \/ SweepPartial(c) \/ SweepEnds(c) PROVE SweepsFinish'
  <2>1. /\ UNCHANGED <<socket, aborted, accepting>>
        /\ \A d \in Cause \ {c} : sweep'[d] = sweep[d]
        /\ sweep[c].stage \in {"waiting", "completed", "partial"}
        /\ completed' \subseteq completed /\ receiving' \subseteq receiving
    BY <1>1, <1>5 DEF SweepCompleted, SweepPartial, SweepEnds, link, session, input, files
  <2>2. \/ /\ sweep'[c].stage = "completed" /\ (accepting = None \/ At("cleaning")) /\ completed' = {}
        \/ /\ sweep'[c].stage = "partial" /\ sweep[c].stage = "completed" /\ receiving' = {}
        \/ /\ sweep'[c] = Idle /\ sweep[c].stage = "partial"
    BY <1>1, <1>5 DEF SweepCompleted, SweepPartial, SweepEnds
  <2>3. sweep[c] # Idle /\ Idle.stage = "idle"
    BY <2>1 DEF Idle
  <2> QED BY <1>1, <2>1, <2>2, <2>3 DEF SweepsFinish, At
<1> QED BY <1>2, <1>3, <1>4, <1>5 DEF FileStep, StoreStep

LEMMA SweepsOfClose ==
  ASSUME EndInv, SweepsFinish, SocketCloses
  PROVE  SweepsFinish'
<1>1. /\ socket # "closed" /\ socket' = "closed" /\ aborted' /\ UNCHANGED accepting /\ StartSweep("close")
      /\ Cause = {"error", "close", "release", "chunk"} /\ Typed
  BY DEF SocketCloses, input, Cause, EndInv
<1>2. \A d \in Cause : sweep'[d] = sweep[d] \/ (d = "close" /\ sweep'[d].stage = "waiting")
  BY <1>1, SweepStarts
<1>3. sweep'["close"].stage = "waiting"
  <2>1. sweep["close"] = Idle
    BY <1>1 DEF SweepsFinish
  <2> QED BY <1>1, <2>1 DEF StartSweep, Typed, TypeOK
<1> QED BY <1>1, <1>2, <1>3 DEF SweepsFinish, At

LEMMA SweepsInvariance ==
  ASSUME EndInv, SweepsFinish, [Next]_vars
  PROVE  SweepsFinish'
<1>1. CASE UNCHANGED vars
  BY <1>1, SweepsLeft DEF vars, link, session, input, files
<1>2. CASE Next
  BY <1>2, SweepsOfSession, SweepsOfFrames, SweepsOfFiles, SweepsOfClose DEF Next, SocketStep, Continue
<1> QED BY <1>1, <1>2
-----------------------------------------------------------------------------
(* What a step does to one video. *)

(* A transfer has one reader.                                                *)
LEMMA OneReader ==
  \A t \in Video : \A r, q \in Request : Reference[r] = t /\ Reference[q] = t => r = q
BY ReferenceAssumption DEF Transfer

(* Frames that are handled or dropped do not come again.                     *)
LEMMA FramesPass ==
  ASSUME Typed, NEW t \in Video, Once(t), unsent' \subseteq unsent,
         \/ batch' = batch \/ batch' = <<>>
         \/ batch # <<>> /\ batch' = Tail(batch)
  PROVE  /\ Once(t)' /\ (Coming(t)' => Coming(t))
         /\ batch # <<>> /\ batch' = Tail(batch) /\ Head(batch) = First(t) => ~Coming(t)'
<1>1. First(t)' = First(t) /\ batch \in Seq(Frame)
  BY DEF First, Typed, TypeOK
<1>2. CASE batch' = batch
  <2>1. Once(t)' /\ (Coming(t)' => Coming(t))
    BY <1>1, <1>2 DEF Once, Coming, Arrived
  <2>2. ASSUME batch # <<>>, batch' = Tail(batch) PROVE FALSE
    BY <1>1, <1>2, <2>2, HeadTailProperties
  <2> QED BY <2>1, <2>2
<1>3. CASE batch' = <<>>
  <2>1. Len(batch') = 0
    BY <1>3
  <2>2. ~Arrived(t)'
    BY <2>1 DEF Arrived
  <2>3. Once(t)' /\ (Coming(t)' => Coming(t))
    BY <1>1, <2>1, <2>2 DEF Once, Coming
  <2>4. ASSUME batch # <<>>, Head(batch) = First(t) PROVE ~Coming(t)'
    <3>1. Len(batch) \in Nat /\ 1 \in 1 .. Len(batch) /\ batch[1] = First(t)
      BY <1>1, <2>4, HeadTailProperties, EmptySeq, LenProperties
    <3> QED BY <1>1, <2>2, <3>1 DEF Once, Coming, Arrived
  <2> QED BY <2>3, <2>4
<1>4. CASE batch # <<>> /\ batch' = Tail(batch)
  <2>1. /\ Len(batch) \in Nat \ {0} /\ Len(batch') = Len(batch) - 1 /\ Head(batch) = batch[1]
        /\ \A i \in 1 .. Len(batch') : batch'[i] = batch[i + 1]
    BY <1>1, <1>4, HeadTailProperties, EmptySeq, LenProperties
  <2>2. \A i \in 1 .. Len(batch') : i \in Nat /\ i + 1 \in 1 .. Len(batch) /\ i + 1 # 1
    BY <2>1
  <2>3. Arrived(t)' => Arrived(t)
    BY <1>1, <2>1, <2>2 DEF Arrived
  <2>4. \A i, j \in 1 .. Len(batch') : batch'[i] = First(t) /\ batch'[j] = First(t) => i = j
    <3>1. SUFFICES ASSUME NEW i \in 1 .. Len(batch'), NEW j \in 1 .. Len(batch'),
                          batch'[i] = First(t), batch'[j] = First(t)
                   PROVE  i = j
      OBVIOUS
    <3>2. i + 1 = j + 1
      BY <2>1, <2>2, <3>1 DEF Once
    <3> QED BY <2>2, <3>1, <3>2
  <2>5. Once(t)' /\ (Coming(t)' => Coming(t))
    BY <1>1, <2>3, <2>4 DEF Once, Coming
  <2>6. ASSUME Head(batch) = First(t) PROVE ~Coming(t)'
    <3>1. 1 \in 1 .. Len(batch) /\ batch[1] = First(t)
      BY <2>1, <2>6
    <3>2. First(t) \notin unsent
      BY <3>1 DEF Once, Arrived
    <3>3. ~Arrived(t)'
      BY <1>1, <2>1, <2>2, <3>1 DEF Once, Arrived
    <3> QED BY <1>1, <3>2, <3>3 DEF Coming
  <2> QED BY <2>5, <2>6
<1> QED BY <1>2, <1>3, <1>4

(* A video that a step leaves where it is, or whose chunk it has done with,  *)
(* or whose reader it fails.                                                 *)
LEMMA Kept ==
  ASSUME Typed, NEW t \in Video, Filed(t), Once(t)', Coming(t)' => Coming(t),
         dir'[t] = dir[t], t \in completed' <=> t \in completed,
         StepOf(t)' = StepOf(t) \/ (StepOf(t) # "renaming" /\ StepOf(t)' \in {"none", "cleaning"}),
         \A r \in Request : Reference[r] = t =>
           \/ call'[r] = call[r]
           \/ call[r] \notin {"done", "failed", "delivered"} /\ call'[r] # "delivered",
         \/ (t \in receiving' <=> t \in receiving) /\ (t \in removing' <=> t \in removing)
         \/ /\ t \in receiving /\ t \notin receiving' /\ t \in removing'
            /\ \E r \in Request : Reference[r] = t /\ call'[r] = "failed"
  PROVE  Filed(t)'
<1>1. /\ ReaderHas(t, "delivered")' <=> ReaderHas(t, "delivered")
      /\ ReaderHas(t, "done") => ReaderHas(t, "done")'
      /\ ReaderHas(t, "failed") => ReaderHas(t, "failed")'
      /\ ReaderHas(t, "failed")' => ~ReaderHas(t, "done")
  BY OneReader DEF ReaderHas
<1>2. Owned(t)'
  BY <1>1 DEF Filed, Owned
<1>3. Coming(t)' => Untouched(t)'
  BY <1>1 DEF Filed, Untouched
<1>4. Staged(t)'
  <2>1. CASE ReaderHas(t, "failed")'
    BY <1>1, <2>1 DEF Filed, Staged, Stored, New, Partial, Complete, Handed, Removed
  <2>2. CASE ~ReaderHas(t, "failed")'
    <3>1. (t \in receiving' <=> t \in receiving) /\ (t \in removing' <=> t \in removing)
      BY <2>2 DEF ReaderHas
    <3>2. Stored(t)
      BY <1>1, <2>2 DEF Filed, Staged
    <3>3. CASE New(t)
      BY <1>1, <3>1, <3>3 DEF Staged, Stored, New, Nowhere
    <3>4. CASE Partial(t)
      BY <1>1, <3>1, <3>4 DEF Staged, Stored, Partial
    <3>5. CASE Complete(t)
      BY <1>1, <3>1, <3>5 DEF Staged, Stored, Complete
    <3>6. CASE Handed(t) \/ Removed(t)
      BY <1>1, <3>1, <3>6 DEF Staged, Stored, Handed, Removed, Nowhere
    <3> QED BY <3>2, <3>3, <3>4, <3>5, <3>6 DEF Stored
  <2> QED BY <2>1, <2>2
<1> QED BY <1>2, <1>3, <1>4 DEF Filed
(* A rejection cancels what its readers were waiting for, nothing else.      *)
LEMMA KeptByReject ==
  ASSUME Typed, NEW t \in Video, Filed(t), Once(t)', Coming(t)' => Coming(t), UNCHANGED <<dir, completed>>,
         StepOf(t)' = StepOf(t) \/ (StepOf(t) # "renaming" /\ StepOf(t)' \in {"none", "cleaning"}),
         NEW requests, Reject(requests),
         requests \subseteq {r \in Request : call[r] \in {"pending", "reading", "answered"}}
  PROVE  Filed(t)'
<1>1. \A r \in Request : call'[r] = IF r \in requests THEN "failed" ELSE call[r]
  BY RejectedFail
<1>2. \/ (t \in receiving' <=> t \in receiving) /\ (t \in removing' <=> t \in removing)
      \/ /\ t \in receiving /\ t \notin receiving' /\ t \in removing'
         /\ \E r \in Request : Reference[r] = t /\ call'[r] = "failed"
  BY <1>1 DEF Reject
<1> QED BY <1>1, <1>2, Kept

(* A step that leaves the files and the chunk alone.                         *)
LEMMA KeptByCalls ==
  ASSUME Typed, NEW t \in Video, Filed(t), Once(t)', Coming(t)' => Coming(t),
         UNCHANGED <<accepting, receiving, completed, removing, dir>>,
         \A r \in Request : Reference[r] = t =>
           \/ call'[r] = call[r]
           \/ call[r] \notin {"done", "failed", "delivered"} /\ call'[r] # "delivered"
  PROVE  Filed(t)'
<1>1. StepOf(t)' = StepOf(t)
  BY DEF StepOf
<1> QED BY <1>1, Kept

LEMMA UnsentGoes ==
  ASSUME NEW seen, CloseTransport(seen) \/ DestroySocket
  PROVE  unsent' \subseteq unsent
BY DEF CloseTransport, DestroySocket, link

LEMMA FiledOfSession ==
  ASSUME Typed, NEW t \in Video, Filed(t),
         \/ Connect \/ HandshakeTimeout \/ AttemptSucceeds \/ AttemptFails
         \/ SocketFails \/ SocketCloses \/ EndTimeout \/ Release
         \/ \E r \in Request : \/ Call(r) \/ WriteCompletes(r) \/ WriteTimeout(r) \/ RequestTimeout(r)
                               \/ ReadTimeout(r) \/ ReadImage(r) \/ FinishCall(r)
  PROVE  Filed(t)'
<1>1. UNCHANGED <<batch, accepting, completed, dir>> /\ StepOf(t)' = StepOf(t)
  BY DEF Connect, HandshakeTimeout, AttemptSucceeds, AttemptFails, SocketFails, SocketCloses,
      EndTimeout, Release,
     Call, WriteCompletes, WriteTimeout, RequestTimeout, ReadTimeout, ReadImage, FinishCall, input, files, StepOf
<1>2. unsent' \subseteq unsent
  BY UnsentGoes DEF Connect, HandshakeTimeout, AttemptSucceeds, AttemptFails, SocketFails, SocketCloses,
     EndTimeout, Release, ReleaseAgent, Call, WriteCompletes, WriteTimeout, RequestTimeout, ReadTimeout, ReadImage,
     FinishCall, link
<1>3. Once(t)' /\ (Coming(t)' => Coming(t))
  BY <1>1, <1>2, FramesPass DEF Filed
<1>4. ASSUME NEW requests, Reject(requests),
             requests \subseteq {r \in Request : call[r] \in {"pending", "reading", "answered"}}
      PROVE  Filed(t)'
  BY <1>1, <1>3, <1>4, KeptByReject
<1>5. Waiting \cup Answered \subseteq {r \in Request : call[r] \in {"pending", "reading", "answered"}}
  BY DEF Waiting, Answered, Typed, TypeOK
<1>6. ASSUME UNCHANGED files,
             \A r \in Request : Reference[r] = t =>
               \/ call'[r] = call[r]
               \/ call[r] \notin {"done", "failed", "delivered"} /\ call'[r] # "delivered"
      PROVE  Filed(t)'
  BY <1>1, <1>3, <1>6, KeptByCalls DEF files
<1>7. CASE Connect \/ HandshakeTimeout \/ AttemptSucceeds \/ AttemptFails \/ EndTimeout
  BY <1>6, <1>7 DEF Connect, HandshakeTimeout, AttemptSucceeds, AttemptFails, EndTimeout, calls
<1>8. CASE \E r \in Request : Call(r) \/ WriteCompletes(r) \/ ReadImage(r) \/ FinishCall(r)
  <2>1. PICK r \in Request : Call(r) \/ WriteCompletes(r) \/ ReadImage(r) \/ FinishCall(r)
    BY <1>8
  <2>2. UNCHANGED files
    BY <2>1 DEF Call, WriteCompletes, ReadImage, FinishCall, memory
  <2>3. \A q \in Request : q # r => call'[q] = call[q]
    BY <2>1 DEF Call, WriteCompletes, ReadImage, FinishCall, Typed, TypeOK
  <2>4. call'[r] = call[r] \/ (call[r] \notin {"done", "failed", "delivered"} /\ call'[r] # "delivered")
    BY <2>1 DEF Call, WriteCompletes, ReadImage, FinishCall, Typed, TypeOK
  <2> QED BY <1>6, <2>2, <2>3, <2>4
<1>9. CASE SocketFails \/ SocketCloses \/ Release \/ \E r \in Request : RequestTimeout(r)
  <2>1. Reject(Waiting \cup {}) \/ Reject(Waiting \cup Answered) \/ Reject(Waiting)
    BY <1>9 DEF SocketFails, SocketCloses, Release, RequestTimeout, SessionErrs, ReleaseAgent
  <2> QED BY <1>4, <1>5, <2>1
<1>10. ASSUME NEW r \in Request, WriteTimeout(r) \/ ReadTimeout(r) PROVE Filed(t)'
  <2>1. \/ Reject(Waiting \cup (Answered \cap {r})) \/ Reject(Answered \cap {r}) \/ Reject(Waiting)
        \/ call[r] = "reading" /\ Reject({r})
    BY <1>10 DEF WriteTimeout, ReadTimeout, ReleaseAgent
  <2> QED BY <1>4, <1>5, <2>1
<1> QED BY <1>7, <1>8, <1>9, <1>10

LEMMA FiledOfData ==
  ASSUME Typed, NEW t \in Video, Filed(t), ReceiveData
  PROVE  Filed(t)'
<1>1. UNCHANGED <<accepting, call, receiving, completed, removing, dir>> /\ batch = <<>>
  BY DEF ReceiveData, calls, files, Paused
<1>2. PICK n \in 1 .. MaxBatch : \E f \in [1 .. n -> unsent] :
             /\ \A i, j \in 1 .. n : f[i] = f[j] => i = j
             /\ batch' = f /\ unsent' = unsent \ {f[i] : i \in 1 .. n}
  BY DEF ReceiveData
<1>3. PICK f \in [1 .. n -> unsent] : /\ \A i, j \in 1 .. n : f[i] = f[j] => i = j
                                      /\ batch' = f /\ unsent' = unsent \ {f[i] : i \in 1 .. n}
  BY <1>2
<1>4. f \in Seq(unsent) /\ Len(f) = n
  <2>1. n \in Nat
    BY <1>2
  <2> QED BY <1>3, <2>1, SeqDef, LenProperties
<1>5. Once(t)' /\ (Coming(t)' => Coming(t))
  BY <1>3, <1>4 DEF Once, Coming, Arrived, First
<1> QED BY <1>1, <1>5, KeptByCalls
LEMMA FiledOfReading ==
  ASSUME Typed, NEW t \in Video, Filed(t), NEW r \in Request, ReadVideo(r) \/ HandOver(r)
  PROVE  Filed(t)'
<1>1. UNCHANGED <<unsent, batch, accepting>> /\ StepOf(t)' = StepOf(t)
  BY DEF ReadVideo, HandOver, link, input, StepOf
<1>2. Once(t)' /\ (Coming(t)' => Coming(t))
  BY <1>1, FramesPass DEF Filed
<1>3. call \in [Request -> Progress] /\ dir \in [Video -> {"none", "partial", "complete", "handed", "removed"}]
  BY DEF Typed, TypeOK
<1>4. /\ call[r] \in {"resolved", "delivered"} /\ Reference[r] \in Video
      /\ \A q \in Request : q # r => call'[q] = call[q]
      /\ \A s \in Video : s # Reference[r] => dir'[s] = dir[s]
      /\ UNCHANGED receiving
  BY <1>3 DEF ReadVideo, HandOver, files, Typed
<1>5. CASE t # Reference[r]
  <2>1. (t \in completed' <=> t \in completed) /\ (t \in removing' <=> t \in removing)
    BY <1>5 DEF ReadVideo, HandOver
  <2> QED BY <1>1, <1>2, <1>4, <1>5, <2>1, Kept
<1>6. CASE t = Reference[r]
  <2>1. \A p \in Progress : /\ ReaderHas(t, p) <=> call[r] = p
                            /\ ReaderHas(t, p)' <=> call'[r] = p
    BY <1>6, OneReader DEF ReaderHas
  <2>2. {"done", "failed", "delivered"} \subseteq Progress
    BY DEF Progress
  <2>3. Stored(t)
    BY <1>4, <2>1, <2>2 DEF Filed, Staged
  <2>4. CASE ReadVideo(r)
    <3>1. call[r] = "resolved" /\ dir' = dir
      BY <2>4 DEF ReadVideo
    <3>2. CASE t \notin completed
      <4>1. UNCHANGED <<completed, removing>> /\ call'[r] = "reading"
        BY <1>3, <1>6, <2>4, <3>2 DEF ReadVideo
      <4> QED BY <1>1, <1>2, <1>4, <3>1, <4>1, <1>6, OneReader, Kept
    <3>3. CASE t \in completed
      <4>1. /\ t \notin completed'
            /\ \/ call'[r] = "delivered" /\ UNCHANGED removing
               \/ call'[r] = "refused" /\ t \in removing'
        BY <1>3, <1>6, <2>4, <3>3 DEF ReadVideo
      <4>2. /\ dir[t] = "complete" /\ t \notin receiving /\ t \notin removing
            /\ StepOf(t) \in {"none", "cleaning"}
        BY <2>3, <3>3 DEF Stored, New, Partial, Complete, Handed, Removed, Nowhere
      <4>3. Owned(t)'
        BY <2>1, <2>2, <4>1 DEF Owned
      <4>4. ~Coming(t)'
        BY <1>2, <4>2 DEF Filed, Untouched
      <4>5. Complete(t)'
        BY <1>1, <1>4, <2>1, <2>2, <3>1, <4>1, <4>2 DEF Complete
      <4> QED BY <1>2, <4>3, <4>4, <4>5 DEF Filed, Staged, Stored
    <3> QED BY <3>2, <3>3
  <2>5. CASE HandOver(r)
    <3>1. /\ dir[t] = "complete" /\ t \notin receiving /\ t \notin completed /\ t \notin removing
          /\ StepOf(t) \in {"none", "cleaning"}
      <4>1. call[r] = "delivered"
        BY <2>5 DEF HandOver
      <4>2. ReaderHas(t, "delivered")
        BY <2>1, <2>2, <4>1
      <4> QED BY <2>3, <4>2 DEF Stored, New, Partial, Complete, Handed, Removed, Nowhere
    <3>2. /\ completed' = completed
          /\ \/ call'[r] = "failed" /\ t \in removing' /\ dir'[t] = "complete"
             \/ call'[r] = "done" /\ removing' = removing /\ dir'[t] = "handed"
      BY <1>3, <1>6, <2>5, <3>1 DEF HandOver
    <3>3. Owned(t)' /\ ~Coming(t)'
      BY <1>2, <3>1, <3>2 DEF Filed, Owned, Untouched
    <3>4. Staged(t)'
      BY <1>1, <1>4, <2>1, <2>2, <3>1, <3>2 DEF Staged, Stored, Handed, Nowhere
    <3> QED BY <1>2, <3>3, <3>4 DEF Filed
  <2> QED BY <2>4, <2>5
<1> QED BY <1>5, <1>6

LEMMA FiledOfFrames ==
  ASSUME Typed, NEW t \in Video, Filed(t), FrameStep
  PROVE  Filed(t)'
<1>1. Handling /\ accepting = None /\ batch # <<>> /\ StepOf(t) = "none"
  BY DEF FrameStep, AcceptReady, AcceptUnsupported, AcceptBusy, AcceptChallenge, AcceptClose,
      AcceptGarbage,
     AcceptResponse, AcceptImageChunk, AcceptVideoChunk, VideoChunk, NextFrame, Handling, StepOf
<1>2. unsent' \subseteq unsent /\ UNCHANGED <<completed, dir>>
  BY UnsentGoes DEF FrameStep, AcceptReady, AcceptUnsupported, AcceptBusy, AcceptChallenge, AcceptClose,
     AcceptGarbage, AcceptResponse, AcceptImageChunk, AcceptVideoChunk, VideoChunk, link, files
<1>3. batch' = <<>> \/ batch' = Tail(batch)
  BY DEF FrameStep, AcceptReady, AcceptUnsupported, AcceptBusy, AcceptChallenge, AcceptClose,
      AcceptGarbage,
     AcceptResponse, AcceptImageChunk, AcceptVideoChunk, VideoChunk, NextFrame
<1>4. Once(t)' /\ (Coming(t)' => Coming(t))
  BY <1>1, <1>2, <1>3, FramesPass DEF Filed
<1>5. Waiting \subseteq {r \in Request : call[r] \in {"pending", "reading", "answered"}}
  BY DEF Waiting
<1>6. ASSUME ChunkFails(Head(batch)), Head(batch).kind = "chunk" PROVE Filed(t)'
  <2>1. StepOf(t)' \in {"none", "cleaning"}
    BY <1>6 DEF ChunkFails, StepOf
  <2> QED BY <1>1, <1>2, <1>4, <1>5, <1>6, <2>1, KeptByReject DEF ChunkFails
<1>7. ASSUME UNCHANGED <<accepting, receiving, removing>>,
             \A r \in Request : Reference[r] = t =>
               \/ call'[r] = call[r]
               \/ call[r] \notin {"done", "failed", "delivered"} /\ call'[r] # "delivered"
      PROVE  Filed(t)'
  BY <1>2, <1>4, <1>7, KeptByCalls
<1>8. ASSUME SessionErrs({}), UNCHANGED accepting PROVE Filed(t)'
  <2>1. StepOf(t)' = StepOf(t) /\ Reject(Waiting \cup {})
    BY <1>8 DEF StepOf, SessionErrs
  <2> QED BY <1>2, <1>4, <1>5, <2>1, KeptByReject
<1>9. CASE AcceptReady \/ AcceptUnsupported \/ AcceptBusy \/ AcceptClose
  <2>1. UNCHANGED <<accepting, receiving, removing, call>>
    BY <1>9 DEF AcceptReady, AcceptUnsupported, AcceptBusy, AcceptClose, calls, files
  <2> QED BY <1>7, <2>1
<1>10. CASE AcceptChallenge \/ AcceptGarbage
  <2>1. UNCHANGED accepting /\ (UNCHANGED <<receiving, removing, call>> \/ SessionErrs({}))
    BY <1>10 DEF AcceptChallenge, AcceptGarbage, calls, files
  <2> QED BY <1>7, <1>8, <2>1
<1>11. CASE AcceptResponse
  <2>1. UNCHANGED <<accepting, receiving, removing>>
    BY <1>11 DEF AcceptResponse, files
  <2>2. \A r \in Request : \/ call'[r] = call[r]
                           \/ call[r] = "pending" /\ call'[r] \in {"answered", "resolved", "refused"}
    BY <1>11 DEF AcceptResponse, Typed, TypeOK
  <2> QED BY <1>7, <2>1, <2>2
<1>12. CASE AcceptImageChunk
  <2>1. CASE ChunkFails(Head(batch))
    BY <1>6, <1>12, <2>1 DEF AcceptImageChunk, NextFrame
  <2>2. CASE ~ChunkFails(Head(batch))
    <3>1. UNCHANGED <<accepting, receiving, removing>>
      BY <1>12, <2>2 DEF AcceptImageChunk
    <3>2. \A r \in Request : call'[r] = call[r] \/ (call[r] = "reading" /\ call'[r] = "done")
      BY <1>12, <2>2 DEF AcceptImageChunk, Typed, TypeOK
    <3> QED BY <1>7, <3>1, <3>2
  <2> QED BY <2>1, <2>2
<1>13. CASE AcceptVideoChunk
  <2>1. PICK ignored : VideoChunk(ignored)
    BY <1>13 DEF AcceptVideoChunk
  <2>2. Head(batch).kind = "chunk" /\ batch' = Tail(batch) /\ Head(batch).of \in Video
    BY <2>1 DEF VideoChunk, NextFrame
  <2>3. \/ UNCHANGED <<accepting, call, receiving, removing>>
        \/ /\ UNCHANGED <<call, receiving, removing>>
           /\ \/ /\ Head(batch).part = "first" /\ Head(batch).of \notin receiving
                 /\ Await(Head(batch), "creating")
              \/ Head(batch).of \in receiving /\ Await(Head(batch), "writing")
        \/ ChunkFails(Head(batch))
    BY <2>1 DEF VideoChunk
  <2>4. CASE Head(batch).of # t /\ ~ChunkFails(Head(batch))
    <3>1. StepOf(t)' = "none" /\ UNCHANGED <<call, receiving, removing>>
      BY <1>1, <2>3, <2>4 DEF StepOf, Await
    <3> QED BY <1>1, <1>2, <1>4, <3>1, Kept
  <2>5. CASE Head(batch).of = t /\ Await(Head(batch), "creating") /\ Head(batch).part = "first"
             /\ UNCHANGED <<call, receiving, removing>>
    <3>1. Head(batch) = First(t)
      BY <1>1, <2>2, <2>5, Frames DEF First, Frame
    <3>2. ~Coming(t)' /\ Coming(t)
      <4>1. ~Coming(t)'
        BY <1>1, <1>2, <2>2, <3>1, FramesPass DEF Filed
      <4>2. 1 \in 1 .. Len(batch) /\ Head(batch) = batch[1]
        BY <1>1, HeadTailProperties, EmptySeq, LenProperties DEF Typed, TypeOK
      <4> QED BY <3>1, <4>1, <4>2 DEF Coming, Arrived
    <3>3. StepOf(t)' = "creating"
      BY <1>1, <2>5, Chunks, Frames, <2>2 DEF StepOf, Await
    <3>4. Untouched(t)
      BY <3>2 DEF Filed
    <3>5. ReaderHas(t, "delivered")' <=> ReaderHas(t, "delivered")
      BY <2>5 DEF ReaderHas
    <3> QED BY <1>2, <1>4, <2>5, <3>2, <3>3, <3>4, <3>5
            DEF Filed, Untouched, Owned, Staged, Stored, New, Nowhere
  <2>6. CASE Head(batch).of = t /\ t \in receiving /\ Await(Head(batch), "writing")
             /\ UNCHANGED <<call, receiving, removing>>
    <3>1. StepOf(t)' = "writing"
      BY <1>1, <2>6, Chunks, Frames, <2>2 DEF StepOf, Await
    <3>2. \A p \in Progress : ReaderHas(t, p)' <=> ReaderHas(t, p)
      BY <2>6 DEF ReaderHas
    <3>3. {"done", "failed", "delivered"} \subseteq Progress
      BY DEF Progress
    <3>4. ~Coming(t)'
      BY <1>4, <2>6 DEF Filed, Untouched
    <3>5. Owned(t)'
      BY <2>6 DEF Owned
    <3>6. Staged(t)'
      BY <1>1, <1>2, <2>6, <3>1, <3>2, <3>3
         DEF Filed, Staged, Stored, New, Partial, Complete, Handed, Removed, Nowhere
    <3> QED BY <1>4, <3>4, <3>5, <3>6 DEF Filed
  <2> QED BY <1>6, <1>7, <2>2, <2>3, <2>4, <2>5, <2>6
<1> QED BY <1>9, <1>10, <1>11, <1>12, <1>13 DEF FrameStep
LEMMA FiledOfStores ==
  ASSUME Typed, NEW t \in Video, Filed(t), StoreStep
  PROVE  Filed(t)'
<1>1. accepting # None /\ accepting \in Chunk
  BY DEF StoreStep, Create, CreateFails, Write, Sync, Rename, Discarded, StoreFails, StoreFailed,
      ChunkFailed, At,
     Typed, TypeOK
<1>2. unsent' \subseteq unsent /\ UNCHANGED batch
  BY UnsentGoes DEF StoreStep, Create, CreateFails, Write, Sync, Rename, Discarded, StoreFails,
      StoreFailed,
     ChunkFailed, link
<1>3. Once(t)' /\ (Coming(t)' => Coming(t))
  BY <1>2, FramesPass DEF Filed
<1>4. ASSUME ChunkFails(accepting), ~At("renaming"), UNCHANGED <<completed, dir>> PROVE Filed(t)'
  <2>1. StepOf(t) # "renaming" /\ StepOf(t)' \in {"none", "cleaning"}
    BY <1>4 DEF ChunkFails, StepOf, At
  <2>2. Waiting \subseteq {r \in Request : call[r] \in {"pending", "reading", "answered"}}
    BY DEF Waiting
  <2> QED BY <1>3, <1>4, <2>1, <2>2, KeptByReject DEF ChunkFails
<1>5. CASE CreateFails \/ StoreFailed
  BY <1>4, <1>5 DEF CreateFails, StoreFailed, At
<1>6. CASE ChunkFailed \/ Discarded
  <2>1. StepOf(t) # "renaming" /\ StepOf(t)' = "none" /\ UNCHANGED <<files, call>>
    BY <1>6 DEF ChunkFailed, Discarded, StepOf, At, calls
  <2> QED BY <1>3, <2>1, Kept DEF files
<1>7. ASSUME accepting.of # t,
             Create \/ Write \/ Sync \/ Rename \/ StoreFails
      PROVE  Filed(t)'
  <2>1. StepOf(t)' = "none" /\ StepOf(t) = "none"
    BY <1>7 DEF Create, Write, Sync, Rename, StoreFails, Await, StepOf
  <2>2. /\ dir'[t] = dir[t] /\ (t \in completed' <=> t \in completed)
        /\ (t \in receiving' <=> t \in receiving) /\ (t \in removing' <=> t \in removing)
    BY <1>7 DEF Create, Write, Sync, Rename, StoreFails, files, Typed, TypeOK
  <2>3. \A r \in Request : Reference[r] = t => call'[r] = call[r]
    BY <1>7 DEF Create, Write, Sync, Rename, StoreFails, calls, Typed, TypeOK
  <2> QED BY <1>3, <2>1, <2>2, <2>3, Kept
<1>8. ASSUME NEW step, Await(accepting, step), accepting.of = t, accepting.step # "cleaning"
      PROVE  StepOf(t)' = step \/ step \notin {"creating", "writing", "syncing", "renaming", "discarding", "failing"}
  BY <1>1, <1>8, Chunks DEF Await, StepOf
<1>9. ASSUME NEW step, At(step), accepting.of = t
      PROVE  StepOf(t) = step
  BY <1>9 DEF At, StepOf
<1>10. ASSUME UNCHANGED call
       PROVE  \A p \in Progress : ReaderHas(t, p)' <=> ReaderHas(t, p)
  BY <1>10 DEF ReaderHas
<1>11. {"done", "failed", "delivered"} \subseteq Progress
  BY DEF Progress
<1>12. CASE Create /\ accepting.of = t
  <2>1. /\ StepOf(t) = "creating" /\ StepOf(t)' = "writing" /\ dir'[t] = "partial" /\ t \in receiving'
        /\ UNCHANGED <<completed, removing, call>>
    BY <1>8, <1>9, <1>12 DEF Create, calls, At, Typed, TypeOK
  <2>2. Owned(t)' /\ ~Coming(t)'
    BY <1>3, <2>1 DEF Filed, Owned, Untouched
  <2>3. Staged(t)'
    BY <1>10, <1>11, <2>1 DEF Filed, Staged, Stored, New, Partial, Complete, Handed, Removed, Nowhere
  <2> QED BY <1>3, <2>2, <2>3 DEF Filed
<1>13. CASE Write /\ accepting.of = t
  <2>1. /\ StepOf(t) = "writing" /\ StepOf(t)' \in {"none", "syncing"}
        /\ UNCHANGED <<receiving, completed, removing, dir, call>>
    BY <1>8, <1>9, <1>13 DEF Write, calls, files, At, StepOf
  <2>2. Owned(t)' /\ ~Coming(t)'
    BY <1>3, <1>10, <1>11, <2>1 DEF Filed, Owned, Untouched
  <2>3. Staged(t)'
    BY <1>10, <1>11, <2>1 DEF Filed, Staged, Stored, New, Partial, Complete, Handed, Removed, Nowhere
  <2> QED BY <1>3, <2>2, <2>3 DEF Filed
<1>14. CASE Sync /\ accepting.of = t
  <2>1. /\ StepOf(t) = "syncing" /\ StepOf(t)' = "renaming" /\ t \notin receiving'
        /\ UNCHANGED <<completed, removing, dir, call>>
    BY <1>8, <1>9, <1>14 DEF Sync, calls, At
  <2>2. Owned(t)' /\ ~Coming(t)'
    BY <1>3, <2>1 DEF Filed, Owned, Untouched
  <2>3. Staged(t)'
    BY <1>10, <1>11, <2>1 DEF Filed, Staged, Stored, New, Partial, Complete, Handed, Removed, Nowhere
  <2> QED BY <1>3, <2>2, <2>3 DEF Filed
<1>15. CASE Rename /\ accepting.of = t
  <2>1. /\ StepOf(t) = "renaming" /\ dir[t] = "partial" /\ dir'[t] = "complete" /\ UNCHANGED receiving
    BY <1>9, <1>15 DEF Rename, Typed, TypeOK
  <2>2. /\ ReaderHas(t, "failed") => ReaderHas(t, "failed")'
        /\ \/ t \in completed' /\ StepOf(t)' = "none" /\ UNCHANGED <<call, removing>>
           \/ /\ ReaderHas(t, "delivered")' /\ StepOf(t)' = "none" /\ UNCHANGED <<completed, removing>>
           \/ /\ StepOf(t)' = "discarding" /\ t \in removing' /\ UNCHANGED completed
              /\ ReaderHas(t, "delivered")' => ReaderHas(t, "delivered")
    <3>1. accepting' = None => StepOf(t)' = "none"
      BY DEF StepOf
    <3>2. Await(accepting, "discarding") => StepOf(t)' = "discarding"
      BY <1>8, <1>15 DEF Rename, At
    <3>3. CASE UNCHANGED call
      BY <1>15, <3>1, <3>2, <3>3 DEF Rename, ReaderHas
    <3>4. CASE ~UNCHANGED call
      <4>1. call \in [Request -> Progress]
        BY DEF Typed, TypeOK
      <4>2. PICK r \in Request : call[r] = "reading" /\ Reference[r] = t
        BY <1>15, <3>4 DEF Rename
      <4>3. call'[r] \in {"delivered", "refused"} /\ \A q \in Request : Reference[q] = t => q = r
        BY <1>15, <3>4, <4>1, <4>2, OneReader DEF Rename
      <4>4. \A p \in Progress : /\ ReaderHas(t, p) <=> call[r] = p
                                /\ ReaderHas(t, p)' <=> call'[r] = p
        BY <4>2, <4>3 DEF ReaderHas
      <4>5. \/ call'[r] = "delivered" /\ accepting' = None /\ UNCHANGED <<completed, removing>>
            \/ /\ call'[r] = "refused" /\ Await(accepting, "discarding") /\ t \in removing'
               /\ UNCHANGED completed
        BY <1>15, <3>4, <4>1, <4>2 DEF Rename
      <4> QED BY <1>11, <3>1, <3>2, <4>2, <4>4, <4>5
    <3> QED BY <3>3, <3>4
  <2>3. Owned(t)' /\ ~Coming(t)'
    BY <1>3, <2>1, <2>2 DEF Filed, Owned, Untouched
  <2>4. Staged(t)'
    <3>1. CASE ReaderHas(t, "failed")
      BY <2>1, <2>2, <3>1 DEF Staged
    <3>2. CASE Partial(t)
      BY <1>10, <1>11, <2>1, <2>2, <3>2 DEF Staged, Stored, Partial, Complete
    <3> QED BY <2>1, <3>1, <3>2 DEF Filed, Staged, Stored, New, Complete, Handed, Removed
  <2> QED BY <1>3, <2>3, <2>4 DEF Filed
<1>16. CASE StoreFails /\ accepting.of = t
  <2>1. /\ StepOf(t) \in {"writing", "syncing", "renaming"} /\ StepOf(t)' = "failing"
        /\ t \notin receiving' /\ t \in removing' /\ UNCHANGED <<completed, dir, call>>
    BY <1>8, <1>9, <1>16 DEF StoreFails, calls, At
  <2>2. Owned(t)' /\ ~Coming(t)'
    BY <1>3, <2>1 DEF Filed, Owned, Untouched
  <2>3. Staged(t)'
    BY <1>10, <1>11, <2>1 DEF Filed, Staged, Stored, New, Partial, Complete, Handed, Removed, Nowhere
  <2> QED BY <1>3, <2>2, <2>3 DEF Filed
<1> QED BY <1>5, <1>6, <1>7, <1>12, <1>13, <1>14, <1>15, <1>16 DEF StoreStep

LEMMA FiledOfSweeps ==
  ASSUME FilesInv, NEW t \in Video,
         \/ \E c \in Cause : SweepCompleted(c) \/ SweepPartial(c) \/ SweepEnds(c)
         \/ \E s \in Video : RemoveDirectory(s)
  PROVE  Filed(t)'
<1>1. UNCHANGED <<unsent, batch, accepting, call>> /\ Typed /\ Filed(t) /\ StepOf(t)' = StepOf(t)
  BY DEF SweepCompleted, SweepPartial, SweepEnds, RemoveDirectory, link, input, calls, StepOf,
      FilesInv, EndInv
<1>2. Once(t)' /\ (Coming(t)' => Coming(t))
  BY <1>1, FramesPass DEF Filed
<1>3. \A p \in Progress : ReaderHas(t, p)' <=> ReaderHas(t, p)
  BY <1>1 DEF ReaderHas
<1>4. {"done", "failed", "delivered"} \subseteq Progress
  BY DEF Progress
<1>5. ASSUME dir'[t] = dir[t], t \in completed' <=> t \in completed, t \in receiving' <=> t \in receiving,
             t \in removing' <=> t \in removing
      PROVE  Filed(t)'
  BY <1>1, <1>2, <1>5, Kept
<1>6. ASSUME NEW c \in Cause, SweepCompleted(c) PROVE Filed(t)'
  <2>1. UNCHANGED <<receiving, dir>> /\ completed' = {} /\ removing' = removing \cup completed
    BY <1>6 DEF SweepCompleted
  <2>2. CASE t \notin completed
    BY <1>5, <2>1, <2>2
  <2>3. CASE t \in completed
    <3>1. Owned(t)' /\ ~Coming(t)'
      BY <1>1, <1>2, <2>1, <2>3 DEF Filed, Owned, Untouched
    <3>2. Staged(t)'
      BY <1>1, <1>3, <1>4, <2>1, <2>3 DEF Filed, Staged, Stored, New, Partial, Complete, Handed,
          Removed, Nowhere
    <3> QED BY <1>2, <3>1, <3>2 DEF Filed
  <2> QED BY <2>2, <2>3
<1>7. ASSUME NEW c \in Cause, SweepPartial(c) PROVE Filed(t)'
  <2>1. UNCHANGED <<completed, dir>> /\ receiving' = {} /\ removing' = removing \cup receiving
    BY <1>7 DEF SweepPartial
  <2>2. StepOf(t) \in {"none", "cleaning"}
    BY <1>7 DEF SweepPartial, FilesInv, SweepsFinish, StepOf, At
  <2>3. CASE t \notin receiving
    BY <1>5, <2>1, <2>3
  <2>4. CASE t \in receiving
    <3>1. Owned(t)' /\ ~Coming(t)'
      BY <1>1, <1>2, <2>1, <2>4 DEF Filed, Owned, Untouched
    <3>2. Staged(t)'
      BY <1>1, <1>3, <1>4, <2>1, <2>2, <2>4 DEF Filed, Staged, Stored, New, Partial, Complete,
          Handed, Removed, Nowhere
    <3> QED BY <1>2, <3>1, <3>2 DEF Filed
  <2> QED BY <2>3, <2>4
<1>8. ASSUME NEW c \in Cause, SweepEnds(c) PROVE Filed(t)'
  BY <1>5, <1>8 DEF SweepEnds, files
<1>9. ASSUME NEW s \in Video, RemoveDirectory(s) PROVE Filed(t)'
  <2>1. UNCHANGED <<receiving, completed>>
    BY <1>9 DEF RemoveDirectory
  <2>2. CASE s # t
    BY <1>1, <1>5, <1>9, <2>1, <2>2 DEF RemoveDirectory, Typed, TypeOK
  <2>3. CASE s = t
    <3>1. t \in removing /\ dir'[t] = "removed" /\ t \notin removing'
      BY <1>1, <1>9, <2>3 DEF RemoveDirectory, Typed, TypeOK
    <3>2. Owned(t)' /\ ~Coming(t)'
      BY <1>1, <1>2, <3>1 DEF Filed, Owned, Untouched
    <3>3. Staged(t)'
      BY <1>1, <1>3, <1>4, <2>1, <3>1 DEF Filed, Staged, Stored, New, Partial, Complete, Handed,
          Removed, Nowhere
    <3> QED BY <1>2, <3>2, <3>3 DEF Filed
  <2> QED BY <2>2, <2>3
<1> QED BY <1>6, <1>7, <1>8, <1>9

LEMMA FilesInvariance ==
  ASSUME FilesInv, [Next]_vars
  PROVE  FilesInv'
<1>1. EndInv /\ SweepsFinish /\ Typed /\ \A t \in Video : Filed(t)
  BY DEF FilesInv, EndInv
<1>2. EndInv' /\ SweepsFinish'
  BY <1>1, EndInvariance, SweepsInvariance
<1>3. ASSUME NEW t \in Video PROVE Filed(t)'
  <2>1. CASE UNCHANGED vars
    <3>1. UNCHANGED <<unsent, batch, accepting, call, receiving, completed, removing, dir>>
      BY <2>1 DEF vars, link, input, calls, files
    <3> QED BY <1>1, <3>1, FramesPass, KeptByCalls DEF Filed
  <2>2. CASE Next
    <3>1. CASE FrameStep
      BY <1>1, <3>1, FiledOfFrames
    <3>2. CASE FileStep
      BY <1>1, <3>2, FiledOfStores, FiledOfSweeps DEF FileStep
    <3>3. CASE SocketStep \/ Release
      BY <1>1, <3>3, FiledOfSession DEF SocketStep
    <3>4. CASE ReceiveData
      BY <1>1, <3>4, FiledOfData
    <3>5. CASE Continue
      BY <1>1, <3>5, FiledOfSession, FiledOfReading DEF Continue
    <3>6. CASE \E r \in Request : \/ Call(r) \/ WriteCompletes(r) \/ WriteTimeout(r)
                                \/ RequestTimeout(r) \/ ReadTimeout(r)
      BY <1>1, <3>6, FiledOfSession
    <3> QED BY <2>2, <3>1, <3>2, <3>3, <3>4, <3>5, <3>6 DEF Next
  <2> QED BY <2>1, <2>2
<1> QED BY <1>2, <1>3 DEF FilesInv

LEMMA FilesStart ==
  ASSUME Init
  PROVE  FilesInv
<1>1. EndInv /\ SweepsFinish
  BY EndStarts DEF Init, SweepsFinish, Idle, Cause
<1>2. ASSUME NEW t \in Video PROVE Filed(t)
  <2>1. batch = <<>> /\ Len(batch) = 0
    BY DEF Init
  <2>2. Once(t)
    BY <2>1 DEF Once, Arrived
  <2>3. \A r \in Request : call[r] = "idle"
    BY DEF Init
  <2>4. StepOf(t) = "none" /\ dir[t] = "none" /\ Nowhere(t)
    BY <1>2, <2>3 DEF Init, StepOf, Nowhere, ReaderHas
  <2> QED BY <2>2, <2>4 DEF Filed, Owned, Untouched, Staged, Stored, New, Nowhere
<1> QED BY <1>1, <1>2 DEF FilesInv

LEMMA CollectedWhenQuiet ==
  ASSUME FilesInv
  PROVE  FilesAreCollected
<1>1. ASSUME NEW t \in Video, dir[t] = "handed"
      PROVE  t \notin removing \cup completed \cup receiving
  BY <1>1 DEF FilesInv, Filed, Staged, Stored, New, Partial, Complete, Handed, Removed, Nowhere
<1>2. ASSUME socket = "closed", ~Paused, ~Continuing, removing = {}, \A c \in Cause : sweep[c] = Idle,
             NEW t \in Video
      PROVE  dir[t] \in {"none", "handed", "removed"}
  <2>1. accepting = None
    BY <1>2 DEF Paused
  <2>2. sweep["close"].stage = "idle"
    BY <1>2 DEF Cause, Idle
  <2>3. completed = {} /\ receiving = {}
    BY <1>2, <2>2 DEF FilesInv, SweepsFinish
  <2>4. ~ReaderHas(t, "delivered") /\ StepOf(t) = "none"
    BY <1>2, <2>1 DEF Continuing, ReaderHas, StepOf
  <2> QED BY <1>2, <2>3, <2>4 DEF FilesInv, Filed, Owned, EndInv, Typed, TypeOK
<1> QED BY <1>1, <1>2 DEF FilesAreCollected

(* A session that has ended and has nothing left to do has left no video     *)
(* behind, and never takes back one that it has handed to its caller         *)
(* (connection.ts cleanupFileBinaryTransfers, file-binary-transfer.ts).      *)
THEOREM FilesAreCollectedHolds == Spec => []FilesAreCollected
<1>1. Init => FilesInv
  BY FilesStart
<1>2. FilesInv /\ [Next]_vars => FilesInv'
  BY FilesInvariance
<1>3. FilesInv => FilesAreCollected
  BY CollectedWhenQuiet
<1> QED BY <1>1, <1>2, <1>3, PTL DEF Spec
=============================================================================
