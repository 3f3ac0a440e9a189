--------------------------- MODULE ShizukuFrames ---------------------------
(***************************************************************************)
(* drivers/kt002/protocol.py under the calls of controller.py: the bytes   *)
(* of the KT002 arrive in USB reads that end anywhere, are cut into        *)
(* frames, and a call takes the frames one by one until it has what it     *)
(* waits for.                                                              *)
(*                                                                         *)
(* The receive buffer only grows at its end and shrinks at its front, so   *)
(* it is the bytes first..received of the stream the device sends, and a   *)
(* frame is the place where it begins.                                     *)
(*                                                                         *)
(* An operator said to be a mutant is no part of the model: it is the      *)
(* definition after it with a slip of the code, to see a property fail.    *)
(***************************************************************************)
EXTENDS Integers, Sequences, FiniteSets, SequencesExt

CONSTANTS Streams,   \* what the device may send: bytes, and the sound frames in them
          SHIZUKU_MAX_PAYLOAD_SIZE,
          MaxCalls   \* bound: calls of the controller

Byte == 0..255
FrameRecord == [at : Nat, size : Nat, caller_id : Nat, message_type : Nat]

ASSUME StreamsAssumption ==
  Streams \subseteq [bytes : Seq(Byte), sent : Seq(FrameRecord)]

ASSUME LimitsAssumption ==
  /\ SHIZUKU_MAX_PAYLOAD_SIZE \in Nat /\ MaxCalls \in Nat
  /\ 4 <= SHIZUKU_MAX_PAYLOAD_SIZE /\ SHIZUKU_MAX_PAYLOAD_SIZE < 256 * 256

SHIZUKU_FRAME_START == 165
SHIZUKU_FRAME_END == 90
SHIZUKU_FRAME_OVERHEAD == 7
SHIZUKU_HEADER_SIZE == 4

VARIABLES
  stream,     \* the bytes of this run
  received,   \* how many have been read
  first,      \* _rx_buffer holds the bytes first..received
  frames,     \* the frames this call has cut out of the stream
  given,      \* how many of them it has been given
  drained,    \* bytes read when this call had drained its input
  calls, pc

vars == <<stream, received, first, frames, given, drained, calls, pc>>

-----------------------------------------------------------------------------
(* Encoding *)

Bit(n, i) == (n \div 2^i) % 2

\* A bit of the result is set if it is set in an odd number of bytes.
xor8(data) ==
  MapThenSumSet(
    LAMBDA i : 2^i * (Cardinality({j \in DOMAIN data : Bit(data[j], i) = 1}) % 2),
    0..7)

\* Mutant: the checksum is that of the length and the payload.
PackFrameSumsLength(payload) ==
  <<SHIZUKU_FRAME_START, Len(payload) % 256, Len(payload) \div 256, 0, 0>>
    \o payload
    \o <<xor8(<<Len(payload) % 256, Len(payload) \div 256>> \o payload), SHIZUKU_FRAME_END>>

pack_frame(payload) ==
  <<SHIZUKU_FRAME_START, Len(payload) % 256, Len(payload) \div 256, 0, 0>>
    \o payload \o <<xor8(payload), SHIZUKU_FRAME_END>>

\* The header is little-endian: marker, type, caller_id.
pack_request(caller_id, request_type, marker, arguments) ==
  pack_frame(<<marker, request_type, caller_id % 256, caller_id \div 256>>
               \o arguments)

\* pack_lua_mosi puts a word with the size of the text in its upper half, the
\* text and at least twelve bytes of zeros into the arguments.
LUA_MOSI_MAX_CONTENT_SIZE == 256 * 256 - 1
LuaMosiArguments(size) == 4 * ((size + 3) \div 4 + 4)
LuaMosiPayload(size) == SHIZUKU_HEADER_SIZE + LuaMosiArguments(size)

\* A text of this size is sent; any other one raises, here or in pack_frame.
LuaMosiAccepts(size) ==
  /\ size \in 1..LUA_MOSI_MAX_CONTENT_SIZE
  /\ LuaMosiPayload(size) <= SHIZUKU_MAX_PAYLOAD_SIZE

-----------------------------------------------------------------------------
(* Decoding *)

byte(i) == stream.bytes[i]

\* Mutant: the length is trusted.
TooLongNever(c) == byte(c + 3) > 0 \/ byte(c + 4) > 0

\* The 32-bit length; PayloadLength is it unless it is TooLong.
PayloadLength(c) == byte(c + 1) + 256 * byte(c + 2)
TooLong(c) == \/ byte(c + 3) > 0 \/ byte(c + 4) > 0
              \/ PayloadLength(c) > SHIZUKU_MAX_PAYLOAD_SIZE
FrameLength(c) == PayloadLength(c) + SHIZUKU_FRAME_OVERHEAD

\* decode_reply raises for any other frame.
Sound(c) ==
  /\ byte(c + FrameLength(c) - 1) = SHIZUKU_FRAME_END
  /\ byte(c + FrameLength(c) - 2)
       = xor8(SubSeq(stream.bytes, c + 5, c + 4 + PayloadLength(c)))
  /\ PayloadLength(c) >= SHIZUKU_HEADER_SIZE

decode_reply(c) ==
  [at |-> c, size |-> FrameLength(c),
   caller_id |-> byte(c + 7) + 256 * byte(c + 8), message_type |-> byte(c + 6)]

-----------------------------------------------------------------------------
(* Calls of the controller *)

Init ==
  /\ stream \in Streams
  /\ received = 0 /\ first = 1 /\ frames = <<>> /\ given = 0
  /\ drained = 0 /\ calls = 0 /\ pc = "idle"

\* Mutant: what the buffer holds is kept.
StartCallKeepsBuffer ==
  /\ pc = "idle" /\ calls < MaxCalls
  /\ calls' = calls + 1
  /\ received' \in received..Len(stream.bytes) /\ drained' = received'
  /\ frames' = <<>> /\ given' = 0
  /\ pc' = "reading"
  /\ UNCHANGED <<stream, first>>

\* _drain_input empties the buffer and throws away what has come meanwhile.
StartCall ==
  /\ pc = "idle" /\ calls < MaxCalls
  /\ calls' = calls + 1
  /\ received' \in received..Len(stream.bytes) /\ drained' = received'
  /\ first' = received' + 1 /\ frames' = <<>> /\ given' = 0
  /\ pc' = "reading"
  /\ UNCHANGED stream

\* One USB read, of any number of bytes.
Read ==
  /\ pc = "reading"
  /\ received' \in (received + 1)..Len(stream.bytes)
  /\ pc' = "extracting"
  /\ UNCHANGED <<stream, first, frames, given, drained, calls>>

TimeOut ==
  /\ pc = "reading" /\ pc' = "idle"
  /\ UNCHANGED <<stream, received, first, frames, given, drained, calls>>

\* A frame is yielded; with it the call may be over, and drops the others.
Yield ==
  /\ pc = "yielding" /\ given < Len(frames)
  /\ given' = given + 1
  /\ \/ pc' = "yielding" /\ UNCHANGED frames
     \/ pc' = "idle" /\ frames' = SubSeq(frames, 1, given')
  /\ UNCHANGED <<stream, received, first, drained, calls>>

AllYielded ==
  /\ pc = "yielding" /\ given = Len(frames)
  /\ pc' = "reading"
  /\ UNCHANGED <<stream, received, first, frames, given, drained, calls>>

-----------------------------------------------------------------------------
(* extract_frames: one action per way through its loop *)

Candidate(c) ==
  /\ c \in first..received /\ byte(c) = SHIZUKU_FRAME_START
  /\ \A i \in first..(c - 1) : byte(i) # SHIZUKU_FRAME_START

Held(c) == received - c + 1
HeaderHeld(c) == Held(c) >= SHIZUKU_FRAME_OVERHEAD

\* Mutant: a frame is taken for whole without its wrapping.
PayloadHeld(c) == HeaderHeld(c) /\ ~TooLong(c) /\ Held(c) >= PayloadLength(c)

FrameHeld(c) == HeaderHeld(c) /\ ~TooLong(c) /\ Held(c) >= FrameLength(c)

LoopState == UNCHANGED <<stream, received, given, drained, calls>>

NoCandidate ==
  /\ pc = "extracting" /\ \A i \in first..received : byte(i) # SHIZUKU_FRAME_START
  /\ first' = received + 1
  /\ pc' = "yielding" /\ UNCHANGED frames /\ LoopState

\* Mutant: a frame not yet complete is thrown away.
AwaitRestDrops ==
  /\ pc = "extracting"
  /\ \E c \in first..received :
       /\ Candidate(c) /\ (HeaderHeld(c) => ~TooLong(c) /\ Held(c) < FrameLength(c))
       /\ first' = received + 1
  /\ pc' = "yielding" /\ UNCHANGED frames /\ LoopState

AwaitRest ==
  /\ pc = "extracting"
  /\ \E c \in first..received :
       /\ Candidate(c) /\ (HeaderHeld(c) => ~TooLong(c) /\ Held(c) < FrameLength(c))
       /\ first' = c
  /\ pc' = "yielding" /\ UNCHANGED frames /\ LoopState

\* Mutant: the start byte is not deleted.
SkipCandidateKeepsIt ==
  /\ pc = "extracting"
  /\ \E c \in first..received :
       Candidate(c) /\ HeaderHeld(c) /\ TooLong(c) /\ first' = c
  /\ UNCHANGED <<pc, frames>> /\ LoopState

SkipCandidate ==
  /\ pc = "extracting"
  /\ \E c \in first..received :
       Candidate(c) /\ HeaderHeld(c) /\ TooLong(c) /\ first' = c + 1
  /\ UNCHANGED <<pc, frames>> /\ LoopState

\* Mutant: the wrapping is deleted and the payload is not.
TakeFrameShort ==
  /\ pc = "extracting"
  /\ \E c \in first..received :
       /\ Candidate(c) /\ FrameHeld(c) /\ Sound(c)
       /\ first' = c + SHIZUKU_FRAME_OVERHEAD
       /\ frames' = Append(frames, decode_reply(c))
  /\ UNCHANGED pc /\ LoopState

TakeFrame ==
  /\ pc = "extracting"
  /\ \E c \in first..received :
       /\ Candidate(c) /\ FrameHeld(c) /\ Sound(c)
       /\ first' = c + FrameLength(c)
       /\ frames' = Append(frames, decode_reply(c))
  /\ UNCHANGED pc /\ LoopState

\* The exception ends the call, and the frames not yet yielded are lost.
RaiseDamaged ==
  /\ pc = "extracting"
  /\ \E c \in first..received :
       /\ Candidate(c) /\ FrameHeld(c) /\ ~Sound(c)
       /\ first' = c + FrameLength(c)
  /\ frames' = SubSeq(frames, 1, given) /\ pc' = "idle" /\ LoopState

extract_frames ==
  NoCandidate \/ AwaitRest \/ SkipCandidate \/ TakeFrame \/ RaiseDamaged

Next == \/ StartCall \/ Read \/ TimeOut \/ Yield \/ AllYielded \/ extract_frames

\* extract_frames is a loop that runs on.
Spec == Init /\ [][Next]_vars /\ WF_vars(extract_frames)

-----------------------------------------------------------------------------
(* What the codec promises *)

TypeOK ==
  /\ stream \in Streams
  /\ received \in 0..Len(stream.bytes) /\ first \in 1..(received + 1)
  /\ frames \in Seq(FrameRecord) /\ given \in 0..Len(frames)
  /\ drained \in 0..received /\ calls \in 0..MaxCalls
  /\ pc \in {"idle", "reading", "extracting", "yielding"}

\* Between two reads a call has been given exactly the sound frames that came
\* whole since its drain, each once, in order and with its own header, however
\* the reads cut the stream.
EveryCompleteFrame ==
  pc = "reading" =>
    /\ given = Len(frames)
    /\ ToSet(frames) = {f \in ToSet(stream.sent) :
                           f.at > drained /\ f.at + f.size - 1 <= received}
    /\ \A i, j \in DOMAIN frames : i < j => frames[i].at < frames[j].at

\* What begins at c is read as a frame, sound or not; a sound one that the
\* stream holds to its end.
Claims(c) == /\ byte(c) = SHIZUKU_FRAME_START
             /\ c + SHIZUKU_FRAME_OVERHEAD - 1 <= Len(stream.bytes) /\ ~TooLong(c)
IsFrame(c) == Claims(c) /\ c + FrameLength(c) - 1 <= Len(stream.bytes) /\ Sound(c)
Frames == {c \in DOMAIN stream.bytes : IsFrame(c)}

\* The sound frames of the stream are those sent, with the headers they were
\* given, and nothing that reads as the start of a frame claims the start of one
\* of them.
FramesStandApart ==
  /\ ToSet(stream.sent) = {decode_reply(c) : c \in Frames}
  /\ \A c \in DOMAIN stream.bytes, d \in Frames :
       Claims(c) => ~(c < d /\ d < c + FrameLength(c))

\* A stream that FramesStandApart holds of is made of pieces one can look at one
\* by one.  The stream holds p, from c on.
LiesAt(p, c) ==
  /\ c - 1 + Len(p) <= Len(stream.bytes)
  /\ \A i \in 1..Len(p) : stream.bytes[c - 1 + i] = p[i]

\* A frame said to be sent is what pack_request made of its header and of
\* arguments that fit.
Packed(f) ==
  /\ f.at > 0 /\ f.at + f.size - 1 <= Len(stream.bytes)
  /\ f.size \in (SHIZUKU_FRAME_OVERHEAD + SHIZUKU_HEADER_SIZE)
                  ..(SHIZUKU_FRAME_OVERHEAD + SHIZUKU_MAX_PAYLOAD_SIZE)
  /\ f.message_type \in Byte
  /\ LiesAt(pack_request(f.caller_id, f.message_type, byte(f.at + 5),
                         SubSeq(stream.bytes, f.at + 9, f.at + f.size - 3)), f.at)

\* Bytes no further than end tell that the length read at c is too long.
RefusedBy(c, end) ==
  \/ \E i \in {c + 3, c + 4} : i <= end /\ byte(i) > 0
  \/ c + 2 <= end /\ PayloadLength(c) > SHIZUKU_MAX_PAYLOAD_SIZE

\* Whatever begins in at..end is refused there or ends there, and is no sound
\* frame, but for one that was sent and is all of the piece.
Piece(at, end) ==
  \A c \in at..end :
    byte(c) = SHIZUKU_FRAME_START =>
      \/ RefusedBy(c, end)
      \/ /\ c + SHIZUKU_FRAME_OVERHEAD - 1 <= end /\ c + FrameLength(c) - 1 <= end
         /\ \/ ~Sound(c)
            \/ c = at /\ \E f \in ToSet(stream.sent) : f.at = at /\ f.size = end - at + 1

\* Every byte lies in such a piece, and what was sent the encoder built: what
\* pack_request builds, blocks the decoder refuses and noise make up the stream,
\* each ending where the next begins.
Composed ==
  /\ \A f \in ToSet(stream.sent) : Packed(f)
  /\ \A c \in DOMAIN stream.bytes :
       \E at \in 1..c, end \in c..Len(stream.bytes) : Piece(at, end)

\* Frames are cut out of the stream one behind the other: no byte serves two,
\* and none is from before the drain or still in the buffer.
FramesDisjoint ==
  /\ \A i \in DOMAIN frames :
       frames[i].at > drained /\ frames[i].at + frames[i].size <= first
  /\ \A i, j \in DOMAIN frames :
       i < j => frames[i].at + frames[i].size <= frames[j].at

\* Whatever arrives, the buffer keeps less than one longest frame between reads.
LeftoverBounded ==
  pc \in {"reading", "yielding"} =>
    received - first + 1 < SHIZUKU_MAX_PAYLOAD_SIZE + SHIZUKU_FRAME_OVERHEAD

\* Frame by frame, a call is given what FrameService promises it.
Service == INSTANCE FrameService
  WITH sent <- ToSet(stream.sent), taken <- SubSeq(frames, 1, given),
       calling <- pc # "idle"
GivenInOrder == Service!Spec

\* The loop of extract_frames comes to an end.
ExtractionEnds == pc = "extracting" ~> pc # "extracting"
=============================================================================
