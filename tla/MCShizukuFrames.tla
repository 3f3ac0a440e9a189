-------------------------- MODULE MCShizukuFrames --------------------------
(* Streams are blocks one after the other: sound frames, damaged ones, noise. *)
EXTENDS ShizukuFrames

CONSTANTS Blocks,      \* the blocks a stream is made of
          MaxBlocks    \* bound: blocks in a stream

Good(caller_id, type, arguments) ==
  [bytes |-> pack_request(caller_id, type, 1, arguments), sound |-> TRUE,
   caller_id |-> caller_id, message_type |-> type]
Other(bytes) ==
  [bytes |-> bytes, sound |-> FALSE, caller_id |-> 0, message_type |-> 0]

Ack == Good(1, 3, <<>>)
Report == Good(258, 16, <<165, 90>>)
BadChecksum == Other(ReplaceAt(Ack.bytes, 10, 0))
BadEnd == Other(ReplaceAt(Ack.bytes, 11, 0))
NoHeader == Other(pack_frame(<<1, 3>>))
BadLength == Other(<<SHIZUKU_FRAME_START, 7, 0, 0, 0, 9, 9>>)
BadLength4 == Other(<<SHIZUKU_FRAME_START, 4, 0, 0, 1, 9, 9>>)
Noise == Other(<<0, 90>>)
StrayStart == Other(<<SHIZUKU_FRAME_START>>)

QuietBlocks == {Ack, Report, BadChecksum, BadEnd, NoHeader, BadLength, BadLength4, Noise}
NoisyBlocks == {Ack, StrayStart}

Joined(s, b) ==
  [bytes |-> s.bytes \o b.bytes,
   sent |-> IF b.sound
            THEN Append(s.sent, [at |-> Len(s.bytes) + 1, size |-> Len(b.bytes),
                                 caller_id |-> b.caller_id,
                                 message_type |-> b.message_type])
            ELSE s.sent]

MCStreams ==
  {FoldLeft(Joined, [bytes |-> <<>>, sent |-> <<>>], blocks) :
     blocks \in BoundedSeq(Blocks, MaxBlocks)}
=============================================================================
