------------------------------- MODULE Frames ------------------------------
(***************************************************************************)
(* WebSocket frames in the bridge (src/src/bridge.js): _onWsData cuts the  *)
(* bytes of a connection into frames, in chunks as the network has them,   *)
(* and _sendFrame writes frames back.  A length takes one byte, or a code  *)
(* and two bytes, or another code and eight bytes.                         *)
(*                                                                         *)
(* The scale is smaller: a byte has Base values and lengths up to SmallMax *)
(* (125) take one.  Payloads and masks are sequences of bits, since every  *)
(* bit of a byte is masked alike.  Browsers send messages unfragmented.    *)
(***************************************************************************)
EXTENDS Integers, Sequences, FiniteSets, SequencesExt

CONSTANTS
    Base,         \* 256
    SmallMax,     \* 125
    Mask,         \* the mask of a browser's frames: four bits
    Dialogues,    \* the sequences of frames [opcode, payload] browsers send
    Replies,      \* the payloads of the replies to texts
    FChunk        \* bounds the bytes of a chunk

Code16 == SmallMax + 1
Code64 == SmallMax + 2
Medium == Base * Base      \* 65536
Long == Medium * Medium * Medium * Medium     \* what eight bytes hold

Payloads == {payload \in Seq({0, 1}) : Len(payload) < Long}
Messages == [opcode : Nat, payload : Payloads]

ASSUME FrameParameters ==
    /\ Base \in Nat \ {0, 1} /\ SmallMax \in Nat
    /\ Mask \in [1 .. 4 -> {0, 1}] /\ FChunk \in Nat
    /\ Dialogues \subseteq Seq(Messages) /\ Replies \subseteq Payloads

TextFrame == 1
CloseFrame == 8
PingFrame == 9
PongFrame == 10

Xor(a, b) == (a + b) % 2
Masked(payload) == [i \in 1 .. Len(payload) |-> Xor(payload[i], Mask[((i - 1) % 4) + 1])]

\* n as k bytes, the highest first, and back.
Bytes(n, k) ==
    LET Quotient[i \in 0 .. k] == IF i = 0 THEN n ELSE Quotient[i - 1] \div Base
    IN  [i \in 1 .. k |-> Quotient[k - i] % Base]
Value(bytes) ==
    LET V[i \in 0 .. Len(bytes)] == IF i = 0 THEN 0 ELSE (V[i - 1] * Base) + bytes[i]
    IN  V[Len(bytes)]

\* Opcode and length of a frame, as RFC 6455 has them.
Header(opcode, mask, n) ==
    <<opcode>> \o (IF n <= SmallMax THEN <<[masked |-> mask, length |-> n]>>
                   ELSE IF n < Medium
                   THEN <<[masked |-> mask, length |-> Code16]>> \o Bytes(n, 2)
                   ELSE <<[masked |-> mask, length |-> Code64]>> \o Bytes(n, 8))

\* What the browser writes.
BrowserFrame(frame) ==
    Header(frame.opcode, TRUE, Len(frame.payload)) \o Mask \o Masked(frame.payload)

\* The first n frames one after the other, for each n.
FrameStream(frames) ==
    LET Stream[n \in 0 .. Len(frames)] ==
            IF n = 0 THEN <<>> ELSE Stream[n - 1] \o BrowserFrame(frames[n])
    IN  Stream

VARIABLES
    fsent,        \* the frames the browser sends on this connection
    fstream,      \* as it writes them
    farrived,     \* how many bytes of the stream have arrived
    fbuffer,      \* client.buffer
    fbusy,        \* is _onWsData at work on a chunk
    fmessages,    \* the texts handed to _handleMessage
    fanswers,     \* the frames written back: [opcode, payload, frame]
    fdestroyed    \* has the bridge destroyed the socket

fvars == <<fsent, fstream, farrived, fbuffer, fbusy, fmessages, fanswers, fdestroyed>>

FInit ==
    /\ fsent = <<>> /\ fstream = <<>> /\ farrived = 0
    /\ fbuffer = <<>> /\ fbusy = FALSE
    /\ fmessages = <<>> /\ fanswers = <<>> /\ fdestroyed = FALSE

-----------------------------------------------------------------------------
\* Mutant: the one-byte length is used up to the code itself.
SendFrame_OffByOne(opcode, payload) ==
    (IF Len(payload) <= Code16
     THEN <<opcode, [masked |-> FALSE, length |-> Len(payload)]>>
     ELSE Header(opcode, FALSE, Len(payload))) \o payload

\* _sendFrame
SendFrame(opcode, payload) ==
    LET n == Len(payload)
        length(code) == [masked |-> FALSE, length |-> code]
    IN  (IF n < Code16 THEN <<opcode, length(n)>>
         ELSE IF n < Medium THEN <<opcode, length(Code16)>> \o Bytes(n, 2)
         ELSE <<opcode, length(Code64)>> \o Bytes(n, 8)) \o payload

NoFrame == [opcode |-> -1, payload |-> <<>>, end |-> 0]

\* _decodeFrame of at least two bytes: a frame and where it ends, or NoFrame.
DecodeFrame(buf) ==
    LET code == buf[2].length
        head == IF code = Code16 THEN 4 ELSE IF code = Code64 THEN 10 ELSE 2
        n == IF head = 2 THEN code ELSE Value(SubSeq(buf, 3, head))
        start == IF buf[2].masked THEN head + 4 ELSE head
        data == SubSeq(buf, start + 1, start + n)
    IN  IF Len(buf) < head THEN NoFrame
        ELSE IF Len(buf) < start + n THEN NoFrame
        ELSE [opcode |-> buf[1], end |-> start + n,
              payload |-> IF buf[2].masked
                          THEN [i \in 1 .. n |-> Xor(data[i], buf[head + ((i - 1) % 4) + 1])]
                          ELSE data]

FirstFrame == IF Len(fbuffer) < 2 THEN NoFrame ELSE DecodeFrame(fbuffer)

\* A browser connects and begins to send.
FOpen(frames) ==
    /\ fsent = <<>>
    /\ fsent' = frames /\ fstream' = FrameStream(frames)[Len(frames)]
    /\ UNCHANGED <<farrived, fbuffer, fbusy, fmessages, fanswers, fdestroyed>>

FReceive(n) ==
    /\ ~fbusy /\ ~fdestroyed /\ farrived + n <= Len(fstream)
    /\ farrived' = farrived + n
    /\ fbuffer' = fbuffer \o SubSeq(fstream, farrived + 1, farrived + n)
    /\ fbusy' = TRUE
    /\ UNCHANGED <<fsent, fstream, fmessages, fanswers, fdestroyed>>

Answer(opcode, payload) ==
    [opcode |-> opcode, payload |-> payload, frame |-> SendFrame(opcode, payload)]

\* Mutant: the loop goes on after a close frame.
HandleFrame_AfterClose(reply) ==
    LET frame == FirstFrame
    IN  /\ fbusy /\ frame # NoFrame
        /\ fbuffer' = SubSeq(fbuffer, frame.end + 1, Len(fbuffer))
        /\ fdestroyed' = (fdestroyed \/ frame.opcode = CloseFrame)
        /\ fmessages' = IF frame.opcode = TextFrame
                        THEN Append(fmessages, frame.payload) ELSE fmessages
        /\ fanswers' = CASE frame.opcode = PingFrame ->
                              Append(fanswers, Answer(PongFrame, frame.payload))
                         [] frame.opcode = TextFrame ->
                              Append(fanswers, Answer(TextFrame, reply))
                         [] OTHER -> fanswers
        /\ UNCHANGED <<fsent, fstream, farrived, fbusy>>

\* A frame of the chunk: a ping is echoed, a text is a command and the reply
\* goes out at once, a close frame ends the connection, the rest of the chunk
\* with it; a frame of another kind is passed over.
HandleFrame(reply) ==
    LET frame == FirstFrame
    IN  /\ fbusy /\ frame # NoFrame
        /\ fbuffer' = SubSeq(fbuffer, frame.end + 1, Len(fbuffer))
        /\ fdestroyed' = (frame.opcode = CloseFrame)
        /\ fbusy' = ~fdestroyed'
        /\ fmessages' = IF frame.opcode = TextFrame
                        THEN Append(fmessages, frame.payload) ELSE fmessages
        /\ fanswers' = CASE frame.opcode = PingFrame ->
                              Append(fanswers, Answer(PongFrame, frame.payload))
                         [] frame.opcode = TextFrame ->
                              Append(fanswers, Answer(TextFrame, reply))
                         [] OTHER -> fanswers
        /\ UNCHANGED <<fsent, fstream, farrived>>

\* No complete frame is left.
FramesEnd ==
    /\ fbusy /\ FirstFrame = NoFrame
    /\ fbusy' = FALSE
    /\ UNCHANGED <<fsent, fstream, farrived, fbuffer, fmessages, fanswers, fdestroyed>>

\* The connection ends.
FClose ==
    /\ fsent # <<>> /\ ~fbusy
    /\ fsent' = <<>> /\ fstream' = <<>> /\ farrived' = 0
    /\ fbuffer' = <<>>
    /\ fmessages' = <<>> /\ fanswers' = <<>> /\ fdestroyed' = FALSE
    /\ UNCHANGED fbusy

FNext ==
    \/ \E frames \in Dialogues : FOpen(frames)
    \/ \E n \in 1 .. FChunk : FReceive(n)
    \/ \E reply \in Replies : HandleFrame(reply)
    \/ FramesEnd
    \/ FClose

FSpec == FInit /\ [][FNext]_fvars

-----------------------------------------------------------------------------
\* The frames of these kinds among the first n, for each n.
Selected(frames, opcodes) ==
    LET First[n \in 0 .. Len(frames)] ==
            IF n = 0 THEN <<>>
            ELSE IF frames[n].opcode \in opcodes THEN Append(First[n - 1], frames[n])
            ELSE First[n - 1]
    IN  First

\* The frames of these kinds among those that have arrived completely, up to
\* a close frame.
ArrivedFrames(opcodes) ==
    LET complete == Max({n \in 0 .. Len(fsent) :
                            Len(FrameStream(fsent)[n]) <= farrived})
        closes == {i \in 1 .. complete : fsent[i].opcode = CloseFrame}
        upTo == IF closes = {} THEN complete ELSE Min(closes)
    IN  Selected(fsent, opcodes)[upTo]

\* However the bytes are cut into chunks and whatever the lengths, the texts
\* handled are those of the frames that have arrived completely, unmasked,
\* each once and in order, and none after a close frame (bridge.js:149-214).
TextsAsSent ==
    ~fbusy => LET texts == ArrivedFrames({TextFrame})
              IN  fmessages = [i \in 1 .. Len(texts) |-> texts[i].payload]

\* Every text and every ping gets one answer, in the order they came, and a
\* reader of frames finds the answer complete, its payload the reply's or the
\* ping's, also where the length takes more bytes (bridge.js:161-171, 216-242).
AnswersReadBack ==
    ~fbusy =>
        LET asked == ArrivedFrames({TextFrame, PingFrame})
        IN  /\ Len(fanswers) = Len(asked)
            /\ \A i \in 1 .. Len(asked) :
                 LET answer == fanswers[i]  read == DecodeFrame(answer.frame)
                 IN  /\ read.opcode = answer.opcode /\ read.payload = answer.payload
                     /\ read.end = Len(answer.frame)
                     /\ asked[i].opcode = PingFrame =>
                          answer.opcode = PongFrame /\ answer.payload = asked[i].payload
=============================================================================
