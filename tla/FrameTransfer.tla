--------------------------- MODULE FrameTransfer ---------------------------
(***************************************************************************)
(* Binary transfers over the TCP frames of the driver: a payload is cut    *)
(* into chunks, every chunk becomes one frame, the stream is cut into      *)
(* reads wherever TCP likes, and the decoder and the receiver put the      *)
(* payload together again (driver/tcp-frame.ts, protocol.ts and the read   *)
(* loop of driver/transport.ts).  A header is two units, so that a read    *)
(* may end inside it, the metadata of a chunk is one unit, and every unit  *)
(* of data is one.  A checksum is the data it is computed from.  A JSON    *)
(* message is its kind and the fields that are well formed or not.  The    *)
(* receiver for base64 messages of protocol.ts is the same machine.        *)
(***************************************************************************)
EXTENDS Integers, Sequences, FiniteSets, SequencesExt, FiniteSetsExt

CONSTANTS Data,        \* the payload of every transfer id: a function to sequences
          ChunkSize,   \* units of data in a chunk
          MaxPayload,  \* largest frame payload the decoder accepts
          MaxMessages  \* bound: JSON frames sent

ASSUME TransferAssumption ==
  /\ \A id \in DOMAIN Data : Data[id] \in Seq(Int)
  /\ ChunkSize \in Nat \ {0} /\ MaxPayload \in Nat /\ ChunkSize < MaxPayload
  /\ MaxMessages \in Nat

TransferId == DOMAIN Data
NoFault == "none"
Fresh == [next |-> 0, data |-> <<>>]
HeaderUnits == 2

VARIABLES
  sent,       \* TransferId -> chunks of it handed to the stream
  messages,   \* JSON messages sent
  fault,      \* what one of the frames had wrong
  wire,       \* units sent and not read
  buffered,   \* the decoder's buffer
  readLoop,   \* what acceptSocketData does: "idle", "decoding", "accepting" the frames of
              \* a read, or "awaiting" the receiver between two of them
  decoded,    \* the frames of the read it has not accepted
  transfers,  \* TransferId -> next sequence number and data of the open transfer, else Fresh
  cancelled,  \* ids whose reader gave up
  completed,  \* TransferId -> what was handed over for it: a set of data
  handed,     \* numbers of the messages handed to the session
  stream      \* "open", "closing" (the driver ended the stream) or "closed"

reader == <<buffered, readLoop, decoded>>
receiver == <<transfers, completed, handed>>
frameVars == <<sent, messages, fault, wire, reader, receiver, cancelled, stream>>

FrameInit ==
  /\ sent = [id \in TransferId |-> 0] /\ messages = 0 /\ fault = NoFault
  /\ wire = <<>> /\ buffered = <<>> /\ readLoop = "idle" /\ decoded = <<>>
  /\ cancelled = {} /\ stream = "open" /\ handed = <<>>
  /\ transfers = [id \in TransferId |-> Fresh] /\ completed = [id \in TransferId |-> {}]

-----------------------------------------------------------------------------
\* The sender.

\* The chunks of a payload: at least one, the final one with size and checksum.
ChunkCount(id) == Max({1, (Len(Data[id]) + ChunkSize - 1) \div ChunkSize})
Chunks(id) ==
  LET total == Len(Data[id])
      count == ChunkCount(id)
  IN [n \in 1..count |->
        [id |-> id, sequence |-> n - 1, final |-> n = count,
         data |-> SubSeq(Data[id], (n - 1) * ChunkSize + 1, Min({n * ChunkSize, total})),
         totalBytes |-> IF n = count THEN total ELSE -1,
         sha256 |-> IF n = count THEN Data[id] ELSE <<>>]]

\* One frame: its header, then its payload.
Frame(form, payload) ==
  <<[unit |-> "header", kind |-> form, length |-> Len(payload)], [unit |-> "header.end"]>>
    \o payload

ChunkPayload(chunk) ==
  <<[unit |-> "metadata", chunk |-> [chunk EXCEPT !.data = <<>>]]>>
    \o [n \in 1..Len(chunk.data) |-> [unit |-> "data", value |-> chunk.data[n]]]

\* The driver's code between two awaits is one step for the sender.
Paused == readLoop \in {"idle", "awaiting"}
SendFrame(frame) ==
  /\ stream # "closed" /\ Paused /\ wire' = wire \o frame
  /\ UNCHANGED <<reader, receiver, cancelled, stream>>

SendChunk(id) ==
  /\ fault = NoFault /\ sent[id] < Len(Chunks(id))
  /\ SendFrame(Frame("binary", ChunkPayload(Chunks(id)[sent[id] + 1])))
  /\ sent' = [sent EXCEPT ![id] = @ + 1]
  /\ UNCHANGED <<messages, fault>>

\* The fields a JSON message must and may have.
Required ==
  [event |-> {"name"}, request |-> {"id", "method"}, response |-> {"id", "ok"},
   failure |-> {"id", "ok", "code", "message"}, cancel |-> {"transferId"},
   chunk |-> {"transferId", "sequence", "dataBase64", "final"}]
Optional ==
  [event |-> {"data"}, request |-> {"params"}, response |-> {"result"},
   failure |-> {"details"}, cancel |-> {}, chunk |-> {"totalBytes", "sha256"}]

parseProtocolMessage(message) ==
  /\ message.kind \in DOMAIN Required
  /\ Required[message.kind] \subseteq message.valid
  /\ Optional[message.kind] \cap message.invalid = {}

MessageFrame(message) ==
  Frame("json", <<[unit |-> "message", number |-> messages + 1, message |-> message]>>)

SendMessage(form) ==
  /\ messages < MaxMessages /\ messages' = messages + 1
  /\ SendFrame(MessageFrame([kind |-> form, valid |-> Required[form], invalid |-> {}]))
  /\ UNCHANGED <<sent, fault>>

\* A message without one of its fields, with a field of the wrong type, or of no kind.
Malformed ==
  UNION {{[kind |-> form, valid |-> Required[form] \ {field}, invalid |-> {}] :
            field \in Required[form]} : form \in DOMAIN Required}
  \cup UNION {{[kind |-> form, valid |-> Required[form], invalid |-> {field}] :
            field \in Optional[form]} : form \in DOMAIN Required}
  \cup {[kind |-> "unsupported", valid |-> {}, invalid |-> {}]}

SendMalformed ==
  /\ fault = NoFault /\ fault' = "message"
  /\ messages < MaxMessages /\ messages' = messages + 1
  /\ \E message \in Malformed : SendFrame(MessageFrame(message))
  /\ UNCHANGED sent

\* What one chunk of a faulty sender may look like on the stream.
Faulty(chunk) ==
  { [kind |-> "altered", frame |->
       Frame("binary", ChunkPayload([chunk EXCEPT !.data = [n \in DOMAIN @ |-> @[n] + 1]]))],
    [kind |-> "sequence", frame |->
       Frame("binary", ChunkPayload([chunk EXCEPT !.sequence = @ + 1]))],
    [kind |-> "shortened", frame |->
       Frame("binary", ChunkPayload([chunk EXCEPT !.data = <<>>]))],
    [kind |-> "unsummed", frame |->
       Frame("binary", ChunkPayload([chunk EXCEPT !.totalBytes = -1]))],
    [kind |-> "empty", frame |-> Frame("binary", <<>>)],
    [kind |-> "header", frame |-> Frame("unsupported", ChunkPayload(chunk))],
    [kind |-> "oversized", frame |->
       Frame("binary", ChunkPayload([chunk EXCEPT !.data = [n \in 1..MaxPayload |-> 0]]))] }

SendFault(id) ==
  /\ fault = NoFault /\ sent[id] < Len(Chunks(id))
  /\ \E f \in Faulty(Chunks(id)[sent[id] + 1]) :
       /\ fault' = f.kind
       /\ SendFrame(f.frame)
  /\ sent' = [sent EXCEPT ![id] = @ + 1]
  /\ UNCHANGED messages

-----------------------------------------------------------------------------
\* The decoder takes the complete frames of its buffer, one by one, before the first of
\* them is looked at; when it refuses a header, those of this read are lost.

validateFrameHeader(header) ==
  header.kind \in {"binary", "json"} /\ header.length <= MaxPayload
HeaderIsThere == Len(buffered) >= HeaderUnits
FrameLength == HeaderUnits + buffered[1].length

ReadStream(n) ==
  /\ stream # "closed" /\ readLoop = "idle" /\ n \in 1..Len(wire)
  /\ readLoop' = "decoding" /\ buffered' = buffered \o SubSeq(wire, 1, n)
  /\ wire' = SubSeq(wire, n + 1, Len(wire))
  /\ UNCHANGED <<sent, messages, fault, decoded, receiver, cancelled, stream>>

DecodeFrame ==
  /\ readLoop = "decoding" /\ HeaderIsThere /\ validateFrameHeader(buffered[1])
  /\ FrameLength <= Len(buffered)
  /\ decoded' = Append(decoded, [kind |-> buffered[1].kind,
                                payload |-> SubSeq(buffered, HeaderUnits + 1, FrameLength)])
  /\ buffered' = SubSeq(buffered, FrameLength + 1, Len(buffered))
  /\ UNCHANGED <<sent, messages, fault, wire, readLoop, receiver, cancelled, stream>>

HeaderIsRefused ==
  /\ readLoop = "decoding" /\ HeaderIsThere /\ ~validateFrameHeader(buffered[1])
  /\ readLoop' = "idle" /\ decoded' = <<>> /\ stream' = "closed"
  /\ UNCHANGED <<sent, messages, fault, wire, buffered, receiver, cancelled>>

FrameIsIncomplete ==
  /\ readLoop = "decoding"
  /\ HeaderIsThere => validateFrameHeader(buffered[1]) /\ FrameLength > Len(buffered)
  /\ readLoop' = "accepting"
  /\ UNCHANGED <<sent, messages, fault, wire, buffered, decoded, receiver, cancelled, stream>>

-----------------------------------------------------------------------------
\* The loop over the frames of one read.  A chunk that fails ends the session but not
\* the loop; a message that cannot be parsed, or a payload without metadata, ends both.
\* Nor does the loop ask whether the socket has closed while it awaited the receiver.

Accepting == readLoop \in {"accepting", "awaiting"} /\ decoded # <<>>
payload == Head(decoded).payload

FrameIsUnreadable ==
  /\ Accepting
  /\ payload # <<>> => Head(decoded).kind = "json" /\ ~parseProtocolMessage(payload[1].message)
  /\ readLoop' = "idle" /\ decoded' = <<>> /\ stream' = "closed"
  /\ UNCHANGED <<sent, messages, fault, wire, buffered, receiver, cancelled>>

AcceptMessage ==
  /\ Accepting /\ payload # <<>> /\ Head(decoded).kind = "json"
  /\ parseProtocolMessage(payload[1].message)
  /\ handed' = Append(handed, payload[1].number)
  /\ readLoop' = "accepting" /\ decoded' = Tail(decoded)
  /\ UNCHANGED <<sent, messages, fault, wire, buffered, transfers, completed, cancelled, stream>>

\* Mutated: the checksum of the final chunk is not compared.
VerifiedBySize(chunk, data) == chunk.totalBytes = Len(data)
Verified(chunk, data) == chunk.totalBytes = Len(data) /\ chunk.sha256 = data

ChunkFails == stream' = IF stream = "open" THEN "closing" ELSE stream
acceptChunk(chunk, data) ==
  LET id == chunk.id
      next == [next |-> transfers[id].next + 1, data |-> transfers[id].data \o data]
  IN \/ /\ id \in cancelled \/ chunk.sequence # transfers[id].next
        /\ ChunkFails /\ UNCHANGED <<transfers, completed>>
     \/ /\ id \notin cancelled /\ chunk.sequence = transfers[id].next
        /\ \/ /\ ~chunk.final
              /\ transfers' = [transfers EXCEPT ![id] = next]
              /\ UNCHANGED <<completed, stream>>
           \/ /\ chunk.final /\ chunk.totalBytes = -1
              /\ transfers' = [transfers EXCEPT ![id] = next]
              /\ ChunkFails /\ UNCHANGED completed
           \/ /\ chunk.final /\ chunk.totalBytes # -1 /\ ~Verified(chunk, next.data)
              /\ transfers' = [transfers EXCEPT ![id] = Fresh]
              /\ ChunkFails /\ UNCHANGED completed
           \/ /\ chunk.final /\ chunk.totalBytes # -1 /\ Verified(chunk, next.data)
              /\ transfers' = [transfers EXCEPT ![id] = Fresh]
              /\ completed' = [completed EXCEPT ![id] = @ \cup {next.data}]
              /\ UNCHANGED stream

AcceptChunk ==
  /\ Accepting /\ payload # <<>> /\ Head(decoded).kind = "binary"
  /\ acceptChunk(payload[1].chunk, [n \in 1..(Len(payload) - 1) |-> payload[n + 1].value])
  /\ readLoop' = "awaiting" /\ decoded' = Tail(decoded)
  /\ UNCHANGED <<sent, messages, fault, wire, buffered, handed, cancelled>>

ReadEnds ==
  /\ readLoop \in {"accepting", "awaiting"} /\ decoded = <<>> /\ readLoop' = "idle"
  /\ UNCHANGED <<sent, messages, fault, wire, buffered, decoded, receiver, cancelled, stream>>

\* The reader of a transfer gives up: its chunks are dropped and refused from now on,
\* and the driver ends the stream.
CancelTransfer(id) ==
  /\ stream = "open" /\ Paused /\ completed[id] = {} /\ cancelled = {}
  /\ cancelled' = {id} /\ transfers' = [transfers EXCEPT ![id] = Fresh]
  /\ stream' = "closing"
  /\ UNCHANGED <<sent, messages, fault, wire, reader, completed, handed>>

StreamCloses ==
  /\ stream = "closing" /\ Paused /\ stream' = "closed"
  /\ UNCHANGED <<sent, messages, fault, wire, reader, receiver, cancelled>>

FrameNext ==
  \/ \E id \in TransferId : SendChunk(id) \/ SendFault(id) \/ CancelTransfer(id)
  \/ SendMalformed
  \/ \E form \in DOMAIN Required : SendMessage(form)
  \/ \E n \in 1..Len(wire) : ReadStream(n)
  \/ DecodeFrame \/ HeaderIsRefused \/ FrameIsIncomplete
  \/ FrameIsUnreadable \/ AcceptMessage \/ AcceptChunk \/ ReadEnds
  \/ StreamCloses
FrameSpec == FrameInit /\ [][FrameNext]_frameVars

-----------------------------------------------------------------------------
\* Wherever the stream was cut, and however the chunks of the transfers were mixed
\* with each other and with messages: only the payload itself is ever handed over and
\* messages arrive in the order they were sent, whatever a faulty sender did, and once
\* a faultless stream is read to its end nothing is left in the decoder, no message is
\* missing and every transfer sent to its end was handed over (createTcpFrameDecoder,
\* createBinaryTransferReceiver, acceptSocketData).
TransfersArrive ==
  /\ \A id \in TransferId : completed[id] \subseteq {Data[id]}
  /\ \A n \in DOMAIN handed : handed[n] = n
  /\ fault = NoFault /\ cancelled = {} /\ wire = <<>> /\ readLoop = "idle" =>
       /\ stream = "open" /\ buffered = <<>> /\ Len(handed) = messages
       /\ \A id \in TransferId : sent[id] = Len(Chunks(id)) => completed[id] = {Data[id]}
=============================================================================
