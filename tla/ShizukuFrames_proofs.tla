------------------------ MODULE ShizukuFrames_proofs ------------------------
(* What extract_frames keeps, for any bytes and any cuts. *)
EXTENDS ShizukuFrames, TLAPS

\* The buffer holds nothing from before the drain of its call.
BufferAfterDrain == drained < first

FInv == TypeOK /\ FramesDisjoint /\ LeftoverBounded /\ BufferAfterDrain

-----------------------------------------------------------------------------
(* Numbers and sequences *)

\* The bytes of the buffer are bytes, and its bounds are numbers.
LEMMA Numbers ==
  ASSUME TypeOK
  PROVE  /\ received \in Nat /\ first \in Nat \ {0} /\ first <= received + 1
         /\ drained \in Nat /\ drained <= received
         /\ Len(stream.bytes) \in Nat /\ received <= Len(stream.bytes)
         /\ calls \in Nat /\ calls <= MaxCalls
         /\ SHIZUKU_MAX_PAYLOAD_SIZE \in Nat /\ SHIZUKU_MAX_PAYLOAD_SIZE >= 4
         /\ \A i \in 1..received : byte(i) \in Nat
<1>1. stream.bytes \in Seq(Byte)
  BY StreamsAssumption DEF TypeOK
<1>2. Len(stream.bytes) \in Nat
  BY <1>1
<1>3. received \in 0..Len(stream.bytes)
  BY DEF TypeOK
<1>4. received \in Nat /\ received <= Len(stream.bytes)
  BY <1>2, <1>3
<1>5. first \in 1..(received + 1) /\ drained \in 0..received /\ calls \in 0..MaxCalls
  BY DEF TypeOK
<1>6. ASSUME NEW i \in 1..received PROVE byte(i) \in Nat
  <2>1. i \in 1..Len(stream.bytes)
    BY <1>2, <1>4
  <2>2. stream.bytes[i] \in Byte
    BY <1>1, <2>1
  <2> QED
    BY <2>2 DEF byte, Byte
<1>7. /\ first \in Nat \ {0} /\ first <= received + 1
      /\ drained \in Nat /\ drained <= received
      /\ calls \in Nat /\ calls <= MaxCalls
  <2>1. MaxCalls \in Nat
    BY LimitsAssumption
  <2> QED
    BY <1>4, <1>5, <2>1
<1>8. SHIZUKU_MAX_PAYLOAD_SIZE \in Nat /\ SHIZUKU_MAX_PAYLOAD_SIZE >= 4
  BY LimitsAssumption
<1> QED
  BY <1>2, <1>4, <1>6, <1>7, <1>8

\* A frame that is whole lies between the front of the buffer and its end.
LEMMA WholeFrame ==
  ASSUME TypeOK, NEW c \in first..received, FrameHeld(c)
  PROVE  /\ c \in Nat /\ first <= c /\ PayloadLength(c) \in Nat
         /\ FrameLength(c) = PayloadLength(c) + 7
         /\ c + FrameLength(c) \in Nat
         /\ c + FrameLength(c) <= received + 1
<1>1. /\ c \in Nat /\ first <= c /\ received \in Nat
  BY Numbers
<1>2. received - c + 1 >= 7 /\ received - c + 1 >= FrameLength(c)
  BY DEF FrameHeld, HeaderHeld, Held, SHIZUKU_FRAME_OVERHEAD
<1>3. c + 1 \in 1..received /\ c + 2 \in 1..received
  BY <1>1, <1>2
<1>4. byte(c + 1) \in Nat /\ byte(c + 2) \in Nat
  BY <1>3, Numbers
<1>5. PayloadLength(c) \in Nat
  BY <1>4 DEF PayloadLength
<1>6. FrameLength(c) = PayloadLength(c) + 7
  BY DEF FrameLength, SHIZUKU_FRAME_OVERHEAD
<1> QED
  BY <1>1, <1>2, <1>5, <1>6

\* What decode_reply returns of a sound frame.
LEMMA SoundRecord ==
  ASSUME TypeOK, NEW c \in first..received, FrameHeld(c), Sound(c)
  PROVE  decode_reply(c) \in FrameRecord
<1>1. PayloadLength(c) >= 4
  BY DEF Sound, SHIZUKU_HEADER_SIZE
<1>2. c + 6 \in 1..received /\ c + 7 \in 1..received /\ c + 8 \in 1..received
  BY SMTT(30), <1>1, WholeFrame, Numbers
<1>3. byte(c + 6) \in Nat /\ byte(c + 7) \in Nat /\ byte(c + 8) \in Nat
  BY <1>2, Numbers
<1>4. c \in Nat /\ FrameLength(c) \in Nat
  BY WholeFrame
<1>5. byte(c + 7) + 256 * byte(c + 8) \in Nat
  BY <1>3
<1> QED
  BY <1>3, <1>4, <1>5 DEF decode_reply, FrameRecord

LEMMA FrameFields ==
  ASSUME NEW s \in Seq(FrameRecord)
  PROVE  \A i \in 1..Len(s) : s[i].at \in Nat /\ s[i].size \in Nat
<1>1. ASSUME NEW i \in 1..Len(s) PROVE s[i] \in FrameRecord
  OBVIOUS
<1> QED
  BY <1>1 DEF FrameRecord

\* The frames a call keeps when it ends are the first of those it had.
LEMMA KeptFrames ==
  ASSUME NEW S, NEW s \in Seq(S), NEW n \in 0..Len(s)
  PROVE  /\ SubSeq(s, 1, n) \in Seq(S) /\ Len(SubSeq(s, 1, n)) = n
         /\ \A i \in 1..n : SubSeq(s, 1, n)[i] = s[i] /\ i \in 1..Len(s)
  OBVIOUS

-----------------------------------------------------------------------------
(* The invariant *)

LEMMA InitInv == Init => FInv
<1> SUFFICES ASSUME Init PROVE FInv
  OBVIOUS
<1>1. stream.bytes \in Seq(Byte)
  BY StreamsAssumption DEF Init
<1>2. 0 \in 0..Len(stream.bytes) /\ 1 \in 1..(0 + 1) /\ 0 \in 0..0
  BY <1>1
<1>3. 0 \in 0..MaxCalls
  BY LimitsAssumption
<1>4. <<>> \in Seq(FrameRecord) /\ Len(<<>>) = 0
  OBVIOUS
<1> QED
  BY <1>2, <1>3, <1>4 DEF Init, FInv, TypeOK, FramesDisjoint,
     LeftoverBounded, BufferAfterDrain

\* Frames that stay, or the first of them, stay disjoint when the buffer's
\* front moves on.
LEMMA StillDisjoint ==
  ASSUME FInv, first' \in Nat, first <= first', drained' = drained,
         \/ frames' = frames
         \/ frames' = SubSeq(frames, 1, given)
         \/ given < Len(frames) /\ frames' = SubSeq(frames, 1, given + 1)
  PROVE  FramesDisjoint'
<1>1. frames \in Seq(FrameRecord) /\ given \in 0..Len(frames)
  BY DEF FInv, TypeOK
<1>2. PICK n \in 0..Len(frames) : frames' = SubSeq(frames, 1, n)
  <2>1. CASE frames' = frames
    <3>1. frames = SubSeq(frames, 1, Len(frames)) /\ Len(frames) \in 0..Len(frames)
      BY <1>1
    <3> QED
      BY <2>1, <3>1
  <2>2. CASE frames' = SubSeq(frames, 1, given)
    BY <1>1, <2>2
  <2>3. CASE given < Len(frames) /\ frames' = SubSeq(frames, 1, given + 1)
    <3>1. given + 1 \in 0..Len(frames)
      BY <1>1, <2>3
    <3> QED
      BY <2>3, <3>1
  <2> QED
    BY <2>1, <2>2, <2>3
<1>3. /\ DOMAIN frames' = 1..n
      /\ \A i \in 1..n : frames'[i] = frames[i] /\ i \in DOMAIN frames
  BY <1>1, <1>2, KeptFrames
<1>4. \A i \in DOMAIN frames : frames[i].at \in Nat /\ frames[i].size \in Nat
  BY <1>1, FrameFields
<1>5. first \in Nat
  BY Numbers DEF FInv
<1>6. ASSUME NEW i \in DOMAIN frames'
      PROVE  frames'[i].at > drained' /\ frames'[i].at + frames'[i].size <= first'
  <2>1. frames[i].at > drained /\ frames[i].at + frames[i].size <= first
    BY <1>3, <1>6 DEF FInv, FramesDisjoint
  <2> QED
    BY <1>3, <1>4, <1>5, <1>6, <2>1
<1>7. ASSUME NEW i \in DOMAIN frames', NEW j \in DOMAIN frames', i < j
      PROVE  frames'[i].at + frames'[i].size <= frames'[j].at
  BY <1>3, <1>7 DEF FInv, FramesDisjoint
<1> QED
  BY <1>6, <1>7 DEF FramesDisjoint

\* A new frame begins where the others end or later.
LEMMA TakeFrameKeeps == FInv /\ TakeFrame => FInv'
<1> SUFFICES ASSUME FInv, TakeFrame PROVE FInv'
  OBVIOUS
<1>t. TypeOK
  BY DEF FInv
<1>1. PICK c \in first..received :
        /\ FrameHeld(c) /\ Sound(c) /\ first' = c + FrameLength(c)
        /\ frames' = Append(frames, decode_reply(c))
  BY DEF TakeFrame
<1>2. /\ pc = "extracting" /\ pc' = pc /\ stream' = stream /\ received' = received
      /\ given' = given /\ drained' = drained /\ calls' = calls
  BY DEF TakeFrame, LoopState
<1> DEFINE n == Len(frames)
           new == decode_reply(c)
<1>3. frames \in Seq(FrameRecord) /\ n \in Nat /\ given \in 0..n
  BY <1>t DEF TypeOK
<1>4. new \in FrameRecord /\ new.at = c /\ new.size = FrameLength(c)
  BY <1>t, <1>1, SoundRecord DEF decode_reply
<1>5. /\ c \in Nat /\ first <= c /\ first \in Nat /\ FrameLength(c) \in Nat
      /\ FrameLength(c) > 0 /\ drained \in Nat /\ received \in Nat
      /\ first' \in Nat /\ first' <= received + 1 /\ first < first'
  BY SMTT(30), <1>t, <1>1, WholeFrame, Numbers
<1>6. /\ frames' \in Seq(FrameRecord) /\ Len(frames') = n + 1
      /\ \A i \in 1..n : frames'[i] = frames[i]
      /\ frames'[n + 1] = new
  BY <1>1, <1>3, <1>4
<1>7. TypeOK'
  <2>1. first' \in 1..(received' + 1) /\ given' \in 0..Len(frames')
    BY <1>2, <1>3, <1>5, <1>6
  <2> QED
    BY <1>t, <1>2, <1>6, <2>1 DEF TypeOK
<1>8. \A i \in 1..n : frames[i].at \in Nat /\ frames[i].size \in Nat
  BY <1>3, FrameFields
<1>9. \A i \in 1..n : frames[i].at > drained /\ frames[i].at + frames[i].size <= first
  BY <1>3 DEF FInv, FramesDisjoint
<1>10. drained < first
  BY DEF FInv, BufferAfterDrain
<1>11. FramesDisjoint'
  <2>1. ASSUME NEW i \in DOMAIN frames'
        PROVE  frames'[i].at > drained' /\ frames'[i].at + frames'[i].size <= first'
    <3>1. CASE i \in 1..n
      BY SMTT(30), <1>2, <1>5, <1>6, <1>8, <1>9, <3>1
    <3>2. CASE i = n + 1
      BY <1>1, <1>2, <1>4, <1>5, <1>6, <1>10, <3>2
    <3> QED
      BY <1>3, <1>6, <2>1, <3>1, <3>2
  <2>2. ASSUME NEW i \in DOMAIN frames', NEW j \in DOMAIN frames', i < j
        PROVE  frames'[i].at + frames'[i].size <= frames'[j].at
    <3>1. CASE j \in 1..n
      <4>1. i \in 1..n
        BY <1>3, <1>6, <2>2, <3>1
      <4> QED
        BY <1>3, <1>6, <2>2, <3>1, <4>1 DEF FInv, FramesDisjoint
    <3>2. CASE j = n + 1
      <4>1. i \in 1..n
        BY <1>3, <1>6, <2>2, <3>2
      <4> QED
        BY SMTT(30), <1>4, <1>5, <1>6, <1>8, <1>9, <3>2, <4>1
    <3> QED
      BY <1>3, <1>6, <2>2, <3>1, <3>2
  <2> QED
    BY <2>1, <2>2 DEF FramesDisjoint
<1>12. LeftoverBounded'
  BY <1>2 DEF LeftoverBounded
<1>13. BufferAfterDrain'
  BY <1>2, <1>5, <1>10 DEF BufferAfterDrain
<1> QED
  BY <1>7, <1>11, <1>12, <1>13 DEF FInv

LEMMA StartCallKeeps == FInv /\ StartCall => FInv'
<1> SUFFICES ASSUME FInv, StartCall PROVE FInv'
  OBVIOUS
<1>t. TypeOK
  BY DEF FInv
<1>1. /\ received' \in received..Len(stream.bytes) /\ drained' = received'
      /\ first' = received' + 1 /\ frames' = <<>> /\ given' = 0
      /\ pc' = "reading" /\ stream' = stream /\ calls < MaxCalls
      /\ calls' = calls + 1
  BY DEF StartCall
<1>n. /\ received \in Nat /\ Len(stream.bytes) \in Nat
      /\ calls \in Nat /\ MaxCalls \in Nat
  BY <1>t, Numbers, LimitsAssumption
<1>r. received' \in Nat /\ received' <= Len(stream.bytes)
  BY <1>1, <1>n
<1>2. /\ received' \in 0..Len(stream.bytes) /\ received' \in 0..received'
      /\ received' + 1 \in 1..(received' + 1) /\ received' < received' + 1
      /\ received' - (received' + 1) + 1 = 0
  <2>1. \A r, m \in Nat : r <= m => r \in 0..m /\ r \in 0..r
    OBVIOUS
  <2>2. \A r \in Nat : r + 1 \in 1..(r + 1) /\ r < r + 1 /\ r - (r + 1) + 1 = 0
    OBVIOUS
  <2> QED
    BY <1>n, <1>r, <2>1, <2>2
<1>3. calls + 1 \in 0..MaxCalls
  BY <1>1, <1>n
<1>4. <<>> \in Seq(FrameRecord) /\ Len(<<>>) = 0 /\ 0 \in 0..0
  OBVIOUS
<1>5. TypeOK'
  BY <1>t, <1>1, <1>2, <1>3, <1>4 DEF TypeOK
<1>6. FramesDisjoint'
  BY <1>1 DEF FramesDisjoint
<1>7. received' - first' + 1 = 0
  BY <1>1, <1>2
<1>8. LeftoverBounded'
  BY <1>t, <1>7, Numbers DEF LeftoverBounded, SHIZUKU_FRAME_OVERHEAD
<1>9. BufferAfterDrain'
  BY <1>1, <1>2 DEF BufferAfterDrain
<1> QED
  BY <1>5, <1>6, <1>8, <1>9 DEF FInv

\* The steps of a call that leave the buffer as it is, or lengthen it.
LEMMA CallKeeps == FInv /\ (Read \/ TimeOut \/ Yield \/ AllYielded) => FInv'
<1> SUFFICES ASSUME FInv, Read \/ TimeOut \/ Yield \/ AllYielded PROVE FInv'
  OBVIOUS
<1>t. TypeOK
  BY DEF FInv
<1>1. /\ first' = first /\ drained' = drained /\ stream' = stream /\ calls' = calls
  BY DEF Read, TimeOut, Yield, AllYielded
<1>2. first \in Nat /\ first <= first
  BY <1>t, Numbers
<1>3. \/ frames' = frames
      \/ frames' = SubSeq(frames, 1, given)
      \/ given < Len(frames) /\ frames' = SubSeq(frames, 1, given + 1)
  BY DEF Read, TimeOut, Yield, AllYielded
<1>4. FramesDisjoint'
  BY <1>1, <1>2, <1>3, StillDisjoint
<1>5. BufferAfterDrain'
  BY <1>1 DEF FInv, BufferAfterDrain
<1>6. CASE Read
  <2>1. received' \in (received + 1)..Len(stream.bytes)
    BY <1>6 DEF Read
  <2>2. /\ received' \in 0..Len(stream.bytes) /\ first' \in 1..(received' + 1)
        /\ drained' \in 0..received'
    BY <1>t, <1>1, <2>1, Numbers
  <2>3. TypeOK'
    BY <1>t, <1>1, <1>6, <2>2 DEF TypeOK, Read
  <2>4. LeftoverBounded'
    BY <1>6 DEF Read, LeftoverBounded
  <2> QED
    BY <1>4, <1>5, <2>3, <2>4 DEF FInv
<1>7. CASE TimeOut \/ AllYielded
  <2>1. TypeOK'
    BY <1>t, <1>7 DEF TypeOK, TimeOut, AllYielded
  <2>2. LeftoverBounded'
    BY <1>7 DEF FInv, LeftoverBounded, TimeOut, AllYielded
  <2> QED
    BY <1>4, <1>5, <2>1, <2>2 DEF FInv
<1>8. CASE Yield
  <2>1. frames \in Seq(FrameRecord) /\ given \in 0..Len(frames)
    BY <1>t DEF TypeOK
  <2>2. given' = given + 1 /\ given < Len(frames) /\ received' = received
    BY <1>8 DEF Yield
  <2>3. given' \in 0..Len(frames)
    BY <2>1, <2>2
  <2>4. frames' \in Seq(FrameRecord) /\ given' \in 0..Len(frames')
    <3>1. CASE frames' = frames
      BY <2>1, <2>3, <3>1
    <3>2. CASE frames' = SubSeq(frames, 1, given')
      <4>1. SubSeq(frames, 1, given') \in Seq(FrameRecord)
        BY <2>1, <2>3, KeptFrames
      <4>2. Len(SubSeq(frames, 1, given')) = given'
        BY <2>1, <2>3, KeptFrames
      <4>3. given' \in 0..given'
        BY <2>1, <2>3
      <4> QED
        BY <3>2, <4>1, <4>2, <4>3
    <3> QED
      BY <1>8, <3>1, <3>2 DEF Yield
  <2>5. pc' \in {"yielding", "idle"} /\ pc = "yielding"
    BY <1>8 DEF Yield
  <2>6. TypeOK'
    BY <1>t, <1>1, <2>2, <2>4, <2>5 DEF TypeOK
  <2>7. LeftoverBounded'
    BY <1>1, <2>2, <2>5 DEF FInv, LeftoverBounded
  <2> QED
    BY <1>4, <1>5, <2>6, <2>7 DEF FInv
<1> QED
  BY <1>6, <1>7, <1>8

\* The ways out of the loop, and its way on over a false start.
LEMMA LoopKeeps ==
  FInv /\ (NoCandidate \/ AwaitRest \/ SkipCandidate \/ RaiseDamaged) => FInv'
<1> SUFFICES ASSUME FInv, NoCandidate \/ AwaitRest \/ SkipCandidate \/ RaiseDamaged
             PROVE  FInv'
  OBVIOUS
<1>t. TypeOK
  BY DEF FInv
<1>n. /\ first \in Nat \ {0} /\ received \in Nat /\ first <= received + 1
      /\ drained \in Nat /\ SHIZUKU_MAX_PAYLOAD_SIZE \in Nat
  BY <1>t, Numbers
<1>1. /\ stream' = stream /\ received' = received /\ given' = given
      /\ drained' = drained /\ calls' = calls
  BY DEF NoCandidate, AwaitRest, SkipCandidate, RaiseDamaged, LoopState
<1>2. first' \in Nat /\ first <= first' /\ first' <= received + 1
  <2>1. CASE NoCandidate
    BY <1>n, <2>1 DEF NoCandidate
  <2>2. CASE AwaitRest
    <3>1. first' \in first..received
      BY <2>2 DEF AwaitRest
    <3> QED
      BY <1>n, <3>1
  <2>3. CASE SkipCandidate
    <3>1. PICK c \in first..received : first' = c + 1
      BY <2>3 DEF SkipCandidate
    <3> QED
      BY <1>n, <3>1
  <2>4. CASE RaiseDamaged
    <3>1. PICK c \in first..received : FrameHeld(c) /\ first' = c + FrameLength(c)
      BY <2>4 DEF RaiseDamaged
    <3>2. c \in Nat /\ first <= c /\ FrameLength(c) = PayloadLength(c) + 7
          /\ PayloadLength(c) \in Nat /\ c + FrameLength(c) <= received + 1
      BY <1>t, <3>1, WholeFrame
    <3> QED
      BY <1>n, <3>1, <3>2
  <2> QED
    BY <2>1, <2>2, <2>3, <2>4
<1>3. frames' = frames \/ frames' = SubSeq(frames, 1, given)
  BY DEF NoCandidate, AwaitRest, SkipCandidate, RaiseDamaged
<1>4. FramesDisjoint'
  BY <1>1, <1>2, <1>3, StillDisjoint
<1>5. BufferAfterDrain'
  <2>1. drained < first
    BY DEF FInv, BufferAfterDrain
  <2>2. drained < first'
    BY <1>n, <1>2, <2>1
  <2> QED
    BY <1>1, <2>2 DEF BufferAfterDrain
<1>6. frames' \in Seq(FrameRecord) /\ given' \in 0..Len(frames')
  <2>1. frames \in Seq(FrameRecord) /\ given \in 0..Len(frames)
    BY <1>t DEF TypeOK
  <2>2. SubSeq(frames, 1, given) \in Seq(FrameRecord)
        /\ Len(SubSeq(frames, 1, given)) = given
    BY <2>1, KeptFrames
  <2>3. given \in 0..given
    BY <2>1
  <2> QED
    BY <1>1, <1>3, <2>1, <2>2, <2>3
<1>7. TypeOK'
  <2>1. first' \in 1..(received' + 1)
    BY <1>n, <1>1, <1>2
  <2>2. pc' \in {"idle", "reading", "extracting", "yielding"}
    BY <1>t DEF TypeOK, NoCandidate, AwaitRest, SkipCandidate, RaiseDamaged
  <2> QED
    BY <1>t, <1>1, <1>6, <2>1, <2>2 DEF TypeOK
<1>8. LeftoverBounded'
  <2>1. CASE NoCandidate
    <3>1. received' - first' + 1 = 0
      BY <1>n, <1>1, <2>1 DEF NoCandidate
    <3> QED
      BY <1>n, <3>1 DEF LeftoverBounded, SHIZUKU_FRAME_OVERHEAD
  <2>2. CASE AwaitRest
    <3>1. PICK c \in first..received :
            /\ HeaderHeld(c) => ~TooLong(c) /\ Held(c) < FrameLength(c)
            /\ first' = c
      BY <2>2 DEF AwaitRest
    <3>2. c \in Nat
      BY <1>n, <3>1
    <3>3. CASE ~HeaderHeld(c)
      <4>1. received - c + 1 < 7
        BY <1>n, <3>2, <3>3 DEF HeaderHeld, Held, SHIZUKU_FRAME_OVERHEAD
      <4> QED
        BY <1>n, <1>1, <3>1, <3>2, <4>1 DEF LeftoverBounded, SHIZUKU_FRAME_OVERHEAD
    <3>4. CASE HeaderHeld(c)
      <4>1. received - c + 1 >= 7
        BY <3>4 DEF HeaderHeld, Held, SHIZUKU_FRAME_OVERHEAD
      <4>2. c + 1 \in 1..received /\ c + 2 \in 1..received
        BY <1>n, <3>2, <4>1
      <4>3. byte(c + 1) \in Nat /\ byte(c + 2) \in Nat
        BY <1>t, <4>2, Numbers
      <4>4. PayloadLength(c) \in Nat
        BY <4>3 DEF PayloadLength
      <4>5. PayloadLength(c) <= SHIZUKU_MAX_PAYLOAD_SIZE
        BY <1>n, <3>1, <3>4, <4>4 DEF TooLong
      <4>6. received - c + 1 < PayloadLength(c) + 7
        BY <3>1, <3>4 DEF Held, FrameLength, SHIZUKU_FRAME_OVERHEAD
      <4> QED
        BY <1>n, <1>1, <3>1, <3>2, <4>4, <4>5, <4>6
           DEF LeftoverBounded, SHIZUKU_FRAME_OVERHEAD
    <3> QED
      BY <3>3, <3>4
  <2>3. CASE SkipCandidate \/ RaiseDamaged
    BY <2>3 DEF SkipCandidate, RaiseDamaged, LeftoverBounded
  <2> QED
    BY <2>1, <2>2, <2>3
<1> QED
  BY <1>4, <1>5, <1>7, <1>8 DEF FInv

LEMMA Invariance == Spec => []FInv
<1>1. FInv /\ [Next]_vars => FInv'
  <2> SUFFICES ASSUME FInv, [Next]_vars PROVE FInv'
    OBVIOUS
  <2>1. CASE UNCHANGED vars
    BY <2>1 DEF vars, FInv, TypeOK, FramesDisjoint, LeftoverBounded, BufferAfterDrain
  <2> QED
    BY <2>1, StartCallKeeps, CallKeeps, LoopKeeps, TakeFrameKeeps
       DEF Next, extract_frames
<1> QED
  BY <1>1, InitInv, PTL DEF Spec

-----------------------------------------------------------------------------
(* The theorems *)

\* The buffer stays a piece of the stream, and the frames records of it.
THEOREM TypeCorrect == Spec => []TypeOK
<1>1. FInv => TypeOK
  BY DEF FInv
<1> QED
  BY <1>1, Invariance, PTL

\* No byte is part of two frames of a call, whatever arrives.
THEOREM DisjointCorrect == Spec => []FramesDisjoint
<1>1. FInv => FramesDisjoint
  BY DEF FInv
<1> QED
  BY <1>1, Invariance, PTL

\* The buffer cannot grow without bound between reads, whatever arrives.
THEOREM BoundedCorrect == Spec => []LeftoverBounded
<1>1. FInv => LeftoverBounded
  BY DEF FInv
<1> QED
  BY <1>1, Invariance, PTL

-----------------------------------------------------------------------------
(* Every frame is given *)

\* Between the drain and the front of the buffer every frame has been passed
\* over whole, and what the call has is these.
NoneCut ==
  \A c \in Frames : drained < c => c >= first \/ c + FrameLength(c) <= first
Passed == {c \in Frames : drained < c /\ c + FrameLength(c) <= first}
Got == ToSet(frames) = {decode_reply(c) : c \in Passed}

\* When the loop has ended no whole frame is left in the buffer.
NoneLeft ==
  pc # "extracting" =>
    \A c \in Frames : c >= first => c + FrameLength(c) > received + 1

AllGiven == pc = "reading" => given = Len(frames)

FramesInv ==
  /\ FramesStandApart /\ AllGiven
  /\ pc # "idle" => NoneCut /\ Got /\ NoneLeft

\* The frames of the stream are numbers, and end in it.
LEMMA FramesNumbers ==
  ASSUME TypeOK, NEW c \in Frames
  PROVE  /\ c \in Nat \ {0} /\ FrameLength(c) \in Nat /\ FrameLength(c) >= 11
         /\ c + FrameLength(c) - 1 <= Len(stream.bytes) /\ c \in 1..Len(stream.bytes)
         /\ byte(c) = SHIZUKU_FRAME_START /\ ~TooLong(c) /\ Sound(c)
<1>1. stream.bytes \in Seq(Byte) /\ Len(stream.bytes) \in Nat
  BY Numbers, StreamsAssumption DEF TypeOK
<1>2. c \in DOMAIN stream.bytes /\ IsFrame(c)
  BY DEF Frames
<1>3. c \in 1..Len(stream.bytes) /\ c \in Nat \ {0}
  BY <1>1, <1>2
<1>4. /\ byte(c) = SHIZUKU_FRAME_START /\ c + 7 - 1 <= Len(stream.bytes)
      /\ ~TooLong(c) /\ c + FrameLength(c) - 1 <= Len(stream.bytes) /\ Sound(c)
  BY <1>2 DEF IsFrame, Claims, SHIZUKU_FRAME_OVERHEAD
<1>5. c + 1 \in 1..Len(stream.bytes) /\ c + 2 \in 1..Len(stream.bytes)
  BY <1>1, <1>3, <1>4
<1>6. stream.bytes[c + 1] \in Byte /\ stream.bytes[c + 2] \in Byte
  BY <1>1, <1>5
<1>7. byte(c + 1) \in Nat /\ byte(c + 2) \in Nat
  BY <1>6 DEF byte, Byte
<1>8. PayloadLength(c) \in Nat
  BY <1>7 DEF PayloadLength
<1>9. PayloadLength(c) >= 4
  BY <1>4 DEF Sound, SHIZUKU_HEADER_SIZE
<1>10. FrameLength(c) = PayloadLength(c) + 7
  BY DEF FrameLength, SHIZUKU_FRAME_OVERHEAD
<1> QED
  BY <1>3, <1>4, <1>8, <1>9, <1>10

\* The frames are those of the stream, which stays what it is.
LEMMA FramesStay ==
  ASSUME stream' = stream
  PROVE  /\ Frames' = Frames
         /\ \A c : FrameLength(c)' = FrameLength(c)
         /\ \A c : decode_reply(c)' = decode_reply(c)
         /\ FramesStandApart => FramesStandApart'
<1>1. \A c : byte(c)' = byte(c)
  BY DEF byte
<1>2. \A c : PayloadLength(c)' = PayloadLength(c)
  BY <1>1 DEF PayloadLength
<1>3. \A c : FrameLength(c)' = FrameLength(c)
  BY <1>2 DEF FrameLength
<1>4. \A c : TooLong(c)' = TooLong(c)
  BY <1>1, <1>2 DEF TooLong
<1>5. \A c : Sound(c)' = Sound(c)
  BY <1>1, <1>2, <1>3 DEF Sound
<1>6. \A c : Claims(c)' = Claims(c)
  BY <1>1, <1>4 DEF Claims
<1>7. \A c : IsFrame(c)' = IsFrame(c)
  BY <1>3, <1>5, <1>6 DEF IsFrame
<1>8. Frames' = Frames
  BY <1>7 DEF Frames
<1>9. \A c : decode_reply(c)' = decode_reply(c)
  BY <1>1, <1>3 DEF decode_reply
<1>10. FramesStandApart => FramesStandApart'
  BY <1>3, <1>6, <1>8, <1>9 DEF FramesStandApart
<1> QED
  BY <1>3, <1>8, <1>9, <1>10

\* The loop finds the frames: a start byte behind the front of the buffer that
\* begins one and is whole.
LEMMA FoundIsFrame ==
  ASSUME TypeOK, NEW c \in first..received, Candidate(c), FrameHeld(c), Sound(c)
  PROVE  c \in Frames
<1>1. /\ c \in Nat /\ first <= c /\ FrameLength(c) = PayloadLength(c) + 7
      /\ PayloadLength(c) \in Nat /\ c + FrameLength(c) <= received + 1
  BY WholeFrame
<1>2. /\ first \in Nat \ {0} /\ received \in Nat /\ Len(stream.bytes) \in Nat
      /\ received <= Len(stream.bytes)
  BY Numbers
<1>3. stream.bytes \in Seq(Byte)
  BY StreamsAssumption DEF TypeOK
<1>4. c \in DOMAIN stream.bytes
  BY <1>1, <1>2, <1>3
<1>5. c + 7 - 1 <= Len(stream.bytes) /\ c + FrameLength(c) - 1 <= Len(stream.bytes)
  BY <1>1, <1>2
<1>6. byte(c) = SHIZUKU_FRAME_START /\ ~TooLong(c)
  BY DEF Candidate, FrameHeld
<1> QED
  BY <1>4, <1>5, <1>6 DEF Frames, IsFrame, Claims, SHIZUKU_FRAME_OVERHEAD

\* Before the first start byte in the buffer no frame begins.
LEMMA NoneBefore ==
  ASSUME TypeOK, NEW c \in Nat, first <= c, c <= received + 1,
         \A i \in first..(c - 1) : byte(i) # SHIZUKU_FRAME_START
  PROVE  \A d \in Frames : d >= first => d >= c
<1> SUFFICES ASSUME NEW d \in Frames, d >= first, ~(d >= c) PROVE FALSE
  OBVIOUS
<1>1. d \in Nat /\ byte(d) = SHIZUKU_FRAME_START /\ first \in Nat
  BY FramesNumbers, Numbers
<1>2. d \in first..(c - 1)
  BY <1>1
<1> QED
  BY <1>1, <1>2

\* If the front of the buffer moves on over nothing but noise, what the call
\* has is still all there was.
LEMMA FrontMovesOn ==
  ASSUME FInv, NoneCut, Got, stream' = stream, drained' = drained, frames' = frames,
         first' \in Nat, first <= first',
         \A d \in Frames : d >= first => d >= first'
  PROVE  NoneCut' /\ Got'
<1>1. TypeOK /\ first \in Nat /\ drained \in Nat /\ drained < first
  BY Numbers DEF FInv, BufferAfterDrain
<1>2. \A d \in Frames : d \in Nat /\ FrameLength(d) \in Nat /\ FrameLength(d) >= 11
  BY <1>1, FramesNumbers
<1>3. NoneCut'
  <2> SUFFICES ASSUME NEW d \in Frames, drained < d
               PROVE  d >= first' \/ d + FrameLength(d) <= first'
    BY FramesStay DEF NoneCut
  <2>1. d >= first \/ d + FrameLength(d) <= first
    BY DEF NoneCut
  <2> QED
    BY <1>1, <1>2, <2>1
<1>4. ASSUME NEW d \in Frames, drained < d
      PROVE  d + FrameLength(d) <= first' <=> d + FrameLength(d) <= first
  <2>1. d >= first \/ d + FrameLength(d) <= first
    BY <1>4 DEF NoneCut
  <2>2. CASE d >= first
    <3>1. d >= first'
      BY <2>2
    <3> QED
      BY <1>1, <1>2, <2>2, <3>1
  <2>3. CASE d + FrameLength(d) <= first
    BY <1>1, <1>2, <2>3
  <2> QED
    BY <2>1, <2>2, <2>3
<1>5. Passed' = Passed
  BY <1>4, FramesStay DEF Passed
<1>6. {decode_reply(c) : c \in Passed}' = {decode_reply(c) : c \in Passed}
  BY <1>5, FramesStay
<1>7. ToSet(frames)' = ToSet(frames)
  OBVIOUS
<1> QED
  BY <1>3, <1>6, <1>7 DEF Got

LEMMA StartCallFrames == FInv /\ FramesStandApart /\ StartCall => FramesInv'
<1> SUFFICES ASSUME FInv, FramesStandApart, StartCall PROVE FramesInv'
  OBVIOUS
<1>1. /\ received' \in received..Len(stream.bytes) /\ drained' = received'
      /\ first' = received' + 1 /\ frames' = <<>> /\ given' = 0
      /\ pc' = "reading" /\ stream' = stream
  BY DEF StartCall
<1>2. /\ TypeOK /\ received \in Nat /\ Len(stream.bytes) \in Nat
  BY Numbers DEF FInv
<1>r. received' \in Nat
  BY <1>1, <1>2
<1>3. received' \in Nat /\ drained' \in Nat /\ first' \in Nat /\ first' = drained' + 1
  <2>1. drained' = received' /\ first' = received' + 1
    BY <1>1
  <2>2. drained' \in Nat /\ first' = drained' + 1
    BY <1>r, <2>1
  <2>3. \A n \in Nat : n + 1 \in Nat
    OBVIOUS
  <2>4. first' \in Nat
    BY <2>2, <2>3
  <2> QED
    BY <1>r, <2>2, <2>4
<1>4. \A d \in Frames : d \in Nat /\ FrameLength(d) \in Nat /\ FrameLength(d) >= 11
  BY <1>2, FramesNumbers
<1>5. \A d \in Frames : drained' < d => d >= first' /\ ~(d + FrameLength(d) <= first')
  BY <1>3, <1>4
<1>6. NoneCut'
  BY <1>1, <1>5, FramesStay DEF NoneCut
<1>7. Passed' = {}
  BY <1>1, <1>5, FramesStay DEF Passed
<1>8. Got'
  <2>1. ToSet(frames') = {}
    BY <1>1 DEF ToSet
  <2> QED
    BY <1>7, <2>1 DEF Got
<1>9. NoneLeft'
  <2> SUFFICES ASSUME NEW d \in Frames, d >= first'
               PROVE  d + FrameLength(d) > received' + 1
    BY <1>1, FramesStay DEF NoneLeft
  <2> QED
    BY <1>1, <1>3, <1>4
<1>10. AllGiven'
  BY <1>1 DEF AllGiven
<1> QED
  BY <1>1, <1>6, <1>8, <1>9, <1>10, FramesStay DEF FramesInv

\* The steps of a call that leave the front of the buffer where it is.
LEMMA CallFrames ==
  FInv /\ FramesInv /\ (Read \/ TimeOut \/ Yield \/ AllYielded) => FramesInv'
<1> SUFFICES ASSUME FInv, FramesInv, Read \/ TimeOut \/ Yield \/ AllYielded
             PROVE  FramesInv'
  OBVIOUS
<1>1. /\ first' = first /\ drained' = drained /\ stream' = stream
      /\ pc # "idle" /\ FramesStandApart
  BY DEF Read, TimeOut, Yield, AllYielded, FramesInv
<1>2. FramesStandApart'
  BY <1>1, FramesStay
<1>3. CASE pc' = "idle"
  BY <1>2, <1>3 DEF FramesInv, AllGiven
<1>4. CASE pc' # "idle"
  <2>1. frames' = frames
    BY <1>4 DEF Read, TimeOut, Yield, AllYielded
  <2>2. first \in Nat /\ first <= first
    BY Numbers DEF FInv
  <2>3. NoneCut' /\ Got'
    BY <1>1, <2>1, <2>2, FrontMovesOn DEF FramesInv
  <2>4. NoneLeft'
    <3>1. CASE Read
      BY <3>1 DEF Read, NoneLeft
    <3>2. CASE ~Read
      <4>1. received' = received /\ pc # "extracting"
        BY <3>2 DEF TimeOut, Yield, AllYielded
      <4> QED
        BY <1>1, <4>1, FramesStay DEF FramesInv, NoneLeft
    <3> QED
      BY <3>1, <3>2
  <2>5. AllGiven'
    <3>1. CASE AllYielded
      BY <3>1 DEF AllYielded, AllGiven
    <3>2. CASE ~AllYielded
      BY <1>4, <3>2 DEF Read, TimeOut, Yield, AllGiven
    <3> QED
      BY <3>1, <3>2
  <2> QED
    BY <1>2, <2>3, <2>4, <2>5 DEF FramesInv
<1> QED
  BY <1>3, <1>4

\* What the loop leaves in the buffer when it ends is no whole frame: there is
\* no start byte, or the first one claims more than has come.
LEMMA LoopEndsFrames == FInv /\ FramesInv /\ (NoCandidate \/ AwaitRest) => FramesInv'
<1> SUFFICES ASSUME FInv, FramesInv, NoCandidate \/ AwaitRest PROVE FramesInv'
  OBVIOUS
<1>1. /\ stream' = stream /\ received' = received /\ given' = given
      /\ drained' = drained /\ frames' = frames /\ pc = "extracting" /\ pc' = "yielding"
  BY DEF NoCandidate, AwaitRest, LoopState
<1>2. /\ TypeOK /\ first \in Nat \ {0} /\ received \in Nat /\ first <= received + 1
      /\ Len(stream.bytes) \in Nat /\ received <= Len(stream.bytes)
  BY Numbers DEF FInv
<1>3. FramesStandApart /\ NoneCut /\ Got
  BY <1>1 DEF FramesInv
<1>4. \A d \in Frames : /\ d \in Nat /\ FrameLength(d) \in Nat /\ FrameLength(d) >= 11
                        /\ d \in 1..Len(stream.bytes)
  BY <1>2, FramesNumbers
<1>5. /\ first' \in Nat /\ first <= first'
      /\ \A d \in Frames : d >= first => d >= first'
      /\ \A d \in Frames : d >= first' => d + FrameLength(d) > received + 1
  <2>1. CASE NoCandidate
    <3>1. first' = received + 1 /\ \A i \in first..received : byte(i) # SHIZUKU_FRAME_START
      BY <2>1 DEF NoCandidate
    <3>2. received + 1 \in Nat /\ received + 1 - 1 = received
      BY <1>2
    <3>3. \A d \in Frames : d >= first => d >= received + 1
      BY <1>2, <3>1, <3>2, NoneBefore
    <3>4. \A d \in Frames : d >= received + 1 => d + FrameLength(d) > received + 1
      BY <1>2, <1>4
    <3> QED
      BY <1>2, <3>1, <3>2, <3>3, <3>4
  <2>2. CASE AwaitRest
    <3>1. PICK c \in first..received :
            /\ Candidate(c) /\ first' = c
            /\ HeaderHeld(c) => ~TooLong(c) /\ Held(c) < FrameLength(c)
      BY <2>2 DEF AwaitRest
    <3>2. /\ c \in Nat /\ first <= c /\ c <= received /\ byte(c) = SHIZUKU_FRAME_START
          /\ \A i \in first..(c - 1) : byte(i) # SHIZUKU_FRAME_START
      BY <1>2, <3>1 DEF Candidate
    <3>3. c <= received + 1
      BY <1>2, <3>2
    <3>4. \A d \in Frames : d >= first => d >= c
      BY <1>2, <3>2, <3>3, NoneBefore
    <3>5. ASSUME NEW d \in Frames, d >= c PROVE d + FrameLength(d) > received + 1
      <4>1. d \in Nat /\ FrameLength(d) \in Nat /\ FrameLength(d) >= 11
        BY <1>4
      <4>2. CASE ~HeaderHeld(c)
        <5>1. received - c + 1 < 7
          BY <1>2, <3>2, <4>2 DEF HeaderHeld, Held, SHIZUKU_FRAME_OVERHEAD
        <5> QED
          BY <1>2, <3>2, <3>5, <4>1, <5>1
      <4>3. CASE HeaderHeld(c)
        <5>1. received - c + 1 >= 7 /\ received - c + 1 < FrameLength(c)
          BY <3>1, <4>3 DEF HeaderHeld, Held, SHIZUKU_FRAME_OVERHEAD
        <5>2. c \in DOMAIN stream.bytes
          <6>1. c \in 1..Len(stream.bytes)
            BY <1>2, <3>2
          <6>2. stream.bytes \in Seq(Byte)
            BY <1>2, StreamsAssumption DEF TypeOK
          <6> QED
            BY <6>1, <6>2
        <5>3. c + 7 - 1 <= Len(stream.bytes)
          BY <1>2, <3>2, <5>1
        <5>4. Claims(c)
          BY <3>1, <3>2, <4>3, <5>3 DEF Claims, SHIZUKU_FRAME_OVERHEAD
        <5>5. ~(c < d /\ d < c + FrameLength(c))
          BY <1>3, <5>2, <5>4 DEF FramesStandApart
        <5>6. FrameLength(c) \in Int
          <6>1. c + 1 \in 1..received /\ c + 2 \in 1..received
            BY <1>2, <3>2, <5>1
          <6>2. byte(c + 1) \in Nat /\ byte(c + 2) \in Nat
            BY <1>2, <6>1, Numbers
          <6> QED
            BY <6>2 DEF FrameLength, PayloadLength, SHIZUKU_FRAME_OVERHEAD
        <5>7. CASE d = c
          BY <1>2, <3>2, <5>1, <5>6, <5>7
        <5>8. CASE d # c
          <6>1. c < d
            BY <3>2, <3>5, <4>1, <5>8
          <6>2. ~(d < c + FrameLength(c))
            BY <5>5, <6>1
          <6> QED
            BY <1>2, <3>2, <4>1, <5>1, <5>6, <6>2
        <5> QED
          BY <5>7, <5>8
      <4> QED
        BY <4>2, <4>3
    <3> QED
      BY <3>1, <3>2, <3>4, <3>5
  <2> QED
    BY <2>1, <2>2
<1>6. NoneCut' /\ Got'
  BY <1>1, <1>3, <1>5, FrontMovesOn
<1>7. NoneLeft'
  BY <1>1, <1>5, FramesStay DEF NoneLeft
<1> QED
  BY <1>1, <1>3, <1>6, <1>7, FramesStay DEF FramesInv, AllGiven

\* A false start is no frame, and a damaged frame ends the call.
LEMMA LoopSkipsFrames ==
  FInv /\ FramesInv /\ (SkipCandidate \/ RaiseDamaged) => FramesInv'
<1> SUFFICES ASSUME FInv, FramesInv, SkipCandidate \/ RaiseDamaged PROVE FramesInv'
  OBVIOUS
<1>1. /\ stream' = stream /\ received' = received /\ given' = given
      /\ drained' = drained /\ pc = "extracting"
  BY DEF SkipCandidate, RaiseDamaged, LoopState
<1>2. FramesStandApart /\ FramesStandApart' /\ NoneCut /\ Got
  BY <1>1, FramesStay DEF FramesInv
<1>3. CASE RaiseDamaged
  <2>1. pc' = "idle"
    BY <1>3 DEF RaiseDamaged
  <2> QED
    BY <1>2, <2>1 DEF FramesInv, AllGiven
<1>4. CASE SkipCandidate
  <2>1. PICK c \in first..received : Candidate(c) /\ TooLong(c) /\ first' = c + 1
    BY <1>4 DEF SkipCandidate
  <2>2. frames' = frames /\ pc' = pc
    BY <1>4 DEF SkipCandidate
  <2>3. /\ TypeOK /\ first \in Nat /\ received \in Nat
    BY Numbers DEF FInv
  <2>4. /\ c \in Nat /\ first <= c /\ c <= received + 1
        /\ \A i \in first..(c - 1) : byte(i) # SHIZUKU_FRAME_START
    BY <2>1, <2>3 DEF Candidate
  <2>5. \A d \in Frames : d >= first => d >= c
    BY <2>3, <2>4, NoneBefore
  <2>6. \A d \in Frames : d \in Nat /\ d # c
    BY <2>1, <2>3, FramesNumbers
  <2>7. \A d \in Frames : d >= first => d >= first'
    BY <2>1, <2>4, <2>5, <2>6
  <2>8. first' \in Nat /\ first <= first'
    BY <2>1, <2>3, <2>4
  <2>9. NoneCut' /\ Got'
    BY <1>1, <1>2, <2>2, <2>7, <2>8, FrontMovesOn
  <2> QED
    BY <1>1, <1>2, <2>2, <2>9 DEF FramesInv, NoneLeft, AllGiven
<1> QED
  BY <1>3, <1>4

\* The frame taken is the next one, and it is recorded as it was sent.
LEMMA TakeFrameFrames == FInv /\ FramesInv /\ TakeFrame => FramesInv'
<1> SUFFICES ASSUME FInv, FramesInv, TakeFrame PROVE FramesInv'
  OBVIOUS
<1>1. PICK c \in first..received :
        /\ Candidate(c) /\ FrameHeld(c) /\ Sound(c) /\ first' = c + FrameLength(c)
        /\ frames' = Append(frames, decode_reply(c))
  BY DEF TakeFrame
<1>2. /\ stream' = stream /\ received' = received /\ drained' = drained
      /\ pc = "extracting" /\ pc' = pc
  BY DEF TakeFrame, LoopState
<1>3. /\ TypeOK /\ first \in Nat /\ received \in Nat /\ drained \in Nat /\ drained < first
  BY Numbers DEF FInv, BufferAfterDrain
<1>4. FramesStandApart /\ NoneCut /\ Got
  BY <1>2 DEF FramesInv
<1>5. /\ c \in Frames /\ c \in Nat /\ first <= c /\ c <= received + 1
      /\ \A i \in first..(c - 1) : byte(i) # SHIZUKU_FRAME_START
  BY <1>1, <1>3, FoundIsFrame DEF Candidate
<1>6. \A d \in Frames : d \in Nat /\ FrameLength(d) \in Nat /\ FrameLength(d) >= 11
  BY <1>3, FramesNumbers
<1>7. \A d \in Frames : d >= first => d >= c
  BY <1>3, <1>5, NoneBefore
<1>8. ASSUME NEW d \in Frames, d >= first PROVE d = c \/ d >= first'
  <2>1. c \in DOMAIN stream.bytes /\ Claims(c)
    BY <1>5 DEF Frames, IsFrame
  <2>2. ~(c < d /\ d < c + FrameLength(c))
    BY <1>4, <2>1 DEF FramesStandApart
  <2>3. d >= c
    BY <1>7, <1>8
  <2> QED
    BY <1>1, <1>5, <1>6, <2>2, <2>3
<1>9. first' \in Nat /\ first <= first'
  BY <1>1, <1>3, <1>5, <1>6
<1>10. NoneCut'
  <2> SUFFICES ASSUME NEW d \in Frames, drained < d
               PROVE  d >= first' \/ d + FrameLength(d) <= first'
    BY <1>2, FramesStay DEF NoneCut
  <2>1. d >= first \/ d + FrameLength(d) <= first
    BY <1>4 DEF NoneCut
  <2>2. CASE d >= first
    <3>1. CASE d = c
      BY <1>1, <1>9, <3>1
    <3> QED
      BY <1>8, <2>2, <3>1
  <2>3. CASE d + FrameLength(d) <= first
    BY <1>3, <1>6, <1>9, <2>3
  <2> QED
    BY <2>1, <2>2, <2>3
<1>11. Passed' = Passed \cup {c}
  <2>1. drained < c /\ c + FrameLength(c) <= first'
    BY <1>1, <1>3, <1>5, <1>9
  <2>2. ASSUME NEW d \in Frames, drained < d
        PROVE  d + FrameLength(d) <= first' <=> d + FrameLength(d) <= first \/ d = c
    <3>1. d + FrameLength(d) <= first => d + FrameLength(d) <= first'
      BY <1>3, <1>6, <1>9
    <3>2. ASSUME d + FrameLength(d) <= first' PROVE d + FrameLength(d) <= first \/ d = c
      <4>1. ~(d >= first')
        BY <1>6, <1>9, <3>2
      <4> QED
        BY <1>4, <1>8, <2>2, <4>1 DEF NoneCut
    <3> QED
      BY <2>1, <3>1, <3>2
  <2>3. Passed' = {d \in Frames : drained < d /\ d + FrameLength(d) <= first'}
    BY <1>2, FramesStay DEF Passed
  <2> QED
    BY <1>5, <2>1, <2>2, <2>3 DEF Passed
<1>12. {decode_reply(d) : d \in Passed}' = {decode_reply(d) : d \in Passed} \cup {decode_reply(c)}
  BY <1>2, <1>11, FramesStay
<1>13. ToSet(frames)' = ToSet(frames) \cup {decode_reply(c)}
  <2> DEFINE n == Len(frames)
  <2>1. frames \in Seq(FrameRecord) /\ n \in Nat
    BY <1>3 DEF TypeOK
  <2>2. decode_reply(c) \in FrameRecord
    BY <1>1, <1>3, SoundRecord
  <2>3. /\ DOMAIN frames = 1..n /\ DOMAIN frames' = 1..(n + 1)
        /\ \A i \in 1..n : frames'[i] = frames[i]
        /\ frames'[n + 1] = decode_reply(c)
    BY <1>1, <2>1, <2>2
  <2>4. 1..(n + 1) = 1..n \cup {n + 1}
    BY <2>1
  <2> QED
    BY <2>3, <2>4 DEF ToSet
<1>14. Got'
  BY <1>4, <1>12, <1>13 DEF Got
<1> QED
  BY <1>2, <1>4, <1>10, <1>14, FramesStay DEF FramesInv, NoneLeft, AllGiven

LEMMA FramesInvStep == FInv /\ FramesInv /\ [Next]_vars => FramesInv'
<1> SUFFICES ASSUME FInv, FramesInv, [Next]_vars PROVE FramesInv'
  OBVIOUS
<1>1. CASE UNCHANGED vars
  <2>1. /\ stream' = stream /\ received' = received /\ first' = first /\ given' = given
        /\ drained' = drained /\ frames' = frames /\ pc' = pc
    BY <1>1 DEF vars
  <2>2. first \in Nat /\ first <= first
    BY Numbers DEF FInv
  <2>3. pc # "idle" => NoneCut' /\ Got'
    BY <2>1, <2>2, FrontMovesOn DEF FramesInv
  <2>4. pc # "idle" => NoneLeft'
    BY <2>1, FramesStay DEF FramesInv, NoneLeft
  <2> QED
    BY <2>1, <2>3, <2>4, FramesStay DEF FramesInv, AllGiven
<1>2. CASE StartCall
  BY <1>2, StartCallFrames DEF FramesInv
<1> QED
  BY <1>1, <1>2, CallFrames, LoopEndsFrames, LoopSkipsFrames, TakeFrameFrames
     DEF Next, extract_frames

\* If the frames of the stream stand apart, a call is given every one that came
\* whole since its drain, once, in order and with its header, for any number of
\* frames between any noise, any cuts and any number of calls.
THEOREM EveryFrameGiven == Spec /\ FramesStandApart => []EveryCompleteFrame
<1>1. Init /\ FramesStandApart => FramesInv
  BY DEF Init, FramesInv, AllGiven
<1>2. FInv /\ FramesInv => EveryCompleteFrame
  <2> SUFFICES ASSUME FInv, FramesInv, pc = "reading"
               PROVE  /\ given = Len(frames)
                      /\ ToSet(frames) = {f \in ToSet(stream.sent) :
                                 f.at > drained /\ f.at + f.size - 1 <= received}
                      /\ \A i, j \in DOMAIN frames : i < j => frames[i].at < frames[j].at
    BY DEF EveryCompleteFrame
  <2>1. /\ TypeOK /\ first \in Nat /\ received \in Nat /\ drained \in Nat
        /\ first <= received + 1
    BY Numbers DEF FInv
  <2>2. \A c \in Frames : c \in Nat /\ FrameLength(c) \in Nat /\ FrameLength(c) >= 11
    BY <2>1, FramesNumbers
  <2>3. given = Len(frames)
    BY DEF FramesInv, AllGiven
  <2>4. /\ ToSet(frames) = {decode_reply(c) : c \in Passed}
        /\ ToSet(stream.sent) = {decode_reply(c) : c \in Frames}
    BY DEF FramesInv, Got, FramesStandApart
  <2>5. \A c : decode_reply(c).at = c /\ decode_reply(c).size = FrameLength(c)
    BY DEF decode_reply
  <2>6. ASSUME NEW c \in Frames
        PROVE  c \in Passed <=> c > drained /\ c + FrameLength(c) - 1 <= received
    <3>1. c \in Passed <=> drained < c /\ c + FrameLength(c) <= first
      BY DEF Passed
    <3>2. drained < c => c >= first \/ c + FrameLength(c) <= first
      BY DEF FramesInv, NoneCut
    <3>3. c >= first => c + FrameLength(c) > received + 1
      BY DEF FramesInv, NoneLeft
    <3> QED
      BY <2>1, <2>2, <3>1, <3>2, <3>3
  <2>7. Passed \subseteq Frames
    BY DEF Passed
  <2>8. ToSet(frames) = {f \in ToSet(stream.sent) :
                           f.at > drained /\ f.at + f.size - 1 <= received}
    BY <2>4, <2>5, <2>6, <2>7
  <2>9. ASSUME NEW i \in DOMAIN frames, NEW j \in DOMAIN frames, i < j
        PROVE  frames[i].at < frames[j].at
    <3>1. frames[i].at + frames[i].size <= frames[j].at
      BY <2>9 DEF FInv, FramesDisjoint
    <3>2. \A k \in DOMAIN frames : frames[k] \in ToSet(frames)
      BY DEF ToSet
    <3>3. \A k \in DOMAIN frames :
            /\ frames[k].at \in Nat /\ frames[k].size \in Nat /\ frames[k].size >= 11
      BY <2>2, <2>4, <2>5, <2>7, <3>2
    <3> QED
      BY <3>1, <3>3
  <2> QED
    BY <2>3, <2>8, <2>9
<1> QED
  BY <1>1, <1>2, Invariance, FramesInvStep, PTL DEF Spec

-----------------------------------------------------------------------------
(* Encoder and decoder *)

LEMMA Halves ==
  ASSUME NEW n \in Nat
  PROVE  n % 256 \in Byte /\ n \div 256 \in Nat /\ (n % 256) + 256 * (n \div 256) = n
BY DEF Byte

\* u is s with t behind it.
Joins(s, t, u) ==
  /\ Len(u) = Len(s) + Len(t)
  /\ \A i \in 1..Len(s) : u[i] = s[i]
  /\ \A i \in 1..Len(t) : u[Len(s) + i] = t[i]

LEMMA Concatenated ==
  ASSUME NEW S, NEW s \in Seq(S), NEW t \in Seq(S)
  PROVE  s \o t \in Seq(S) /\ Joins(s, t, s \o t)
BY DEF Joins

\* What pack_frame puts where: p is the payload, wrapped.
Wraps(p, payload, n) ==
  /\ payload \in Seq(Nat) /\ Len(payload) = n
  /\ Len(p) = n + 7
  /\ p[1] = SHIZUKU_FRAME_START
  /\ p[2] = n % 256 /\ p[3] = n \div 256 /\ p[4] = 0 /\ p[5] = 0
  /\ \A i \in 1..n : p[5 + i] = payload[i]
  /\ p[n + 6] = xor8(payload) /\ p[n + 7] = SHIZUKU_FRAME_END

LEMMA PackedBytes ==
  ASSUME NEW payload \in Seq(Nat)
  PROVE  Wraps(pack_frame(payload), payload, Len(payload))
<1> DEFINE n == Len(payload)
           x == xor8(payload)
           front == <<SHIZUKU_FRAME_START, n % 256, n \div 256, 0, 0>>
           back == <<x, SHIZUKU_FRAME_END>>
           S == Nat \cup {x, n \div 256, n % 256}
<1>1. n \in Nat
  OBVIOUS
<1>2. payload \in Seq(S)
  OBVIOUS
<1>3. /\ front \in Seq(S) /\ Len(front) = 5 /\ front[1] = SHIZUKU_FRAME_START
      /\ front[2] = n % 256 /\ front[3] = n \div 256 /\ front[4] = 0 /\ front[5] = 0
  BY DEF SHIZUKU_FRAME_START
<1>4. back \in Seq(S) /\ Len(back) = 2 /\ back[1] = x /\ back[2] = SHIZUKU_FRAME_END
  BY DEF SHIZUKU_FRAME_END
<1>5. pack_frame(payload) = (front \o payload) \o back
  BY DEF pack_frame
<1> HIDE DEF n, x, front, back, S
<1>6. n = Len(payload)
  BY DEF n
<1> DEFINE q == front \o payload
           p == q \o back
<1>7. q \in Seq(S) /\ Joins(front, payload, q)
  BY <1>2, <1>3, Concatenated
<1> HIDE DEF q
<1>8. Joins(q, back, p)
  BY <1>4, <1>7, Concatenated
<1> HIDE DEF p
<1>9. /\ Len(q) = n + 5
      /\ \A i \in 1..5 : q[i] = front[i]
      /\ \A i \in 1..n : q[5 + i] = payload[i]
  BY <1>1, <1>3, <1>6, <1>7 DEF Joins
<1>10. /\ Len(p) = n + 7
       /\ \A i \in 1..(n + 5) : p[i] = q[i]
       /\ p[n + 6] = back[1] /\ p[n + 7] = back[2]
  <2>1. /\ (n + 5) + 2 = n + 7 /\ (n + 5) + 1 = n + 6
        /\ 1 \in 1..2 /\ 2 \in 1..2
    BY <1>1
  <2> QED
    BY <1>4, <1>8, <1>9, <2>1 DEF Joins
<1>11. /\ \A i \in 1..5 : i \in 1..(n + 5)
       /\ \A i \in 1..n : 5 + i \in 1..(n + 5)
  BY <1>1
<1>12. /\ \A i \in 1..5 : p[i] = front[i]
       /\ \A i \in 1..n : p[5 + i] = payload[i]
  BY <1>9, <1>10, <1>11
<1>13. pack_frame(payload) = p
  BY <1>5 DEF p, q
<1>14. 1 \in 1..5 /\ 2 \in 1..5 /\ 3 \in 1..5 /\ 4 \in 1..5 /\ 5 \in 1..5
  OBVIOUS
<1> QED
  BY <1>3, <1>4, <1>6, <1>10, <1>12, <1>13, <1>14 DEF x, Wraps

LEMMA BytesOfStream ==
  ASSUME stream \in Streams
  PROVE  stream.bytes \in Seq(Byte) /\ Len(stream.bytes) \in Nat
<1>1. stream.bytes \in Seq(Byte)
  BY StreamsAssumption
<1> QED
  BY <1>1

LEMMA LiesThere ==
  ASSUME stream \in Streams, NEW c \in Nat \ {0}, NEW p, LiesAt(p, c),
         NEW m \in Nat, Len(p) = m, NEW i \in 1..m, NEW j, j = c - 1 + i
  PROVE  byte(j) = p[i] /\ j \in DOMAIN stream.bytes
<1>1. stream.bytes \in Seq(Byte) /\ Len(stream.bytes) \in Nat
  BY BytesOfStream
<1>2. c - 1 + m <= Len(stream.bytes) /\ stream.bytes[c - 1 + i] = p[i]
  BY DEF LiesAt
<1>3. j \in 1..Len(stream.bytes)
  BY <1>1, <1>2
<1> QED
  BY <1>1, <1>2, <1>3 DEF byte

\* The bytes of a frame at c, counted from its start and in the stream.
LEMMA Places ==
  ASSUME NEW c \in Nat \ {0}, NEW n \in Nat
  PROVE  /\ n + 7 \in Nat
         /\ 1 \in 1..(n + 7) /\ c = c - 1 + 1
         /\ 2 \in 1..(n + 7) /\ c + 1 = c - 1 + 2
         /\ 3 \in 1..(n + 7) /\ c + 2 = c - 1 + 3
         /\ 4 \in 1..(n + 7) /\ c + 3 = c - 1 + 4
         /\ 5 \in 1..(n + 7) /\ c + 4 = c - 1 + 5
         /\ n + 6 \in 1..(n + 7) /\ c + (n + 7) - 2 = c - 1 + (n + 6)
         /\ n + 7 \in 1..(n + 7) /\ c + (n + 7) - 1 = c - 1 + (n + 7)
         /\ \A i \in 1..n : 5 + i \in 1..(n + 7) /\ c + 4 + i = c - 1 + (5 + i)
<1>1. n + 7 \in Nat
  OBVIOUS
<1>2. /\ 1 \in 1..(n + 7) /\ 2 \in 1..(n + 7) /\ 3 \in 1..(n + 7)
      /\ 4 \in 1..(n + 7) /\ 5 \in 1..(n + 7)
      /\ n + 6 \in 1..(n + 7) /\ n + 7 \in 1..(n + 7)
  OBVIOUS
<1>3. /\ c = c - 1 + 1 /\ c + 1 = c - 1 + 2 /\ c + 2 = c - 1 + 3
      /\ c + 3 = c - 1 + 4 /\ c + 4 = c - 1 + 5
  OBVIOUS
<1>4. c + (n + 7) - 2 = c - 1 + (n + 6) /\ c + (n + 7) - 1 = c - 1 + (n + 7)
  OBVIOUS
<1>5. \A i \in 1..n : 5 + i \in 1..(n + 7) /\ c + 4 + i = c - 1 + (5 + i)
  OBVIOUS
<1> QED
  BY <1>1, <1>2, <1>3, <1>4, <1>5

\* What decode_reply looks at, of a wrapped payload that lies at c.
LEMMA WrapIsRead ==
  ASSUME stream \in Streams, NEW c \in Nat \ {0}, NEW p, LiesAt(p, c),
         NEW payload, NEW n \in Nat, Wraps(p, payload, n)
  PROVE  /\ byte(c) = SHIZUKU_FRAME_START /\ c \in DOMAIN stream.bytes
         /\ byte(c + 1) = n % 256 /\ byte(c + 2) = n \div 256
         /\ byte(c + 3) = 0 /\ byte(c + 4) = 0
         /\ byte(c + (n + 7) - 2) = xor8(payload)
         /\ byte(c + (n + 7) - 1) = SHIZUKU_FRAME_END
         /\ \A i \in 1..n : byte(c + 4 + i) = payload[i]
<1>1. Len(p) = n + 7 /\ n + 7 \in Nat
  BY Places DEF Wraps
<1> DEFINE ReadAs(i, j) == byte(j) = p[i] /\ j \in DOMAIN stream.bytes
<1>2. \A i \in 1..(n + 7) : \A j : j = c - 1 + i => ReadAs(i, j)
  BY <1>1, LiesThere
<1> HIDE DEF ReadAs
<1>3. ReadAs(1, c)
  BY <1>2, Places
<1>4. ReadAs(2, c + 1)
  BY <1>2, Places
<1>5. ReadAs(3, c + 2)
  BY <1>2, Places
<1>6. ReadAs(4, c + 3)
  BY <1>2, Places
<1>7. ReadAs(5, c + 4)
  BY <1>2, Places
<1>8. ReadAs(n + 6, c + (n + 7) - 2)
  BY <1>2, Places
<1>9. ReadAs(n + 7, c + (n + 7) - 1)
  BY <1>2, Places
<1>10. \A i \in 1..n : ReadAs(5 + i, c + 4 + i)
  BY <1>2, Places
<1>11. \A i \in 1..n : byte(c + 4 + i) = payload[i]
  <2>1. \A i \in 1..n : byte(c + 4 + i) = p[5 + i]
    BY <1>10 DEF ReadAs
  <2>2. \A i \in 1..n : p[5 + i] = payload[i]
    BY DEF Wraps
  <2> QED
    BY <2>1, <2>2
<1>12. byte(c) = SHIZUKU_FRAME_START /\ c \in DOMAIN stream.bytes
  BY <1>3 DEF ReadAs, Wraps
<1>13. byte(c + 1) = n % 256 /\ byte(c + 2) = n \div 256
  BY <1>4, <1>5 DEF ReadAs, Wraps
<1>14. byte(c + 3) = 0 /\ byte(c + 4) = 0
  BY <1>6, <1>7 DEF ReadAs, Wraps
<1>15. byte(c + (n + 7) - 2) = xor8(payload)
  BY <1>8 DEF ReadAs, Wraps
<1>16. byte(c + (n + 7) - 1) = SHIZUKU_FRAME_END
  BY <1>9 DEF ReadAs, Wraps
<1> QED
  BY <1>11, <1>12, <1>13, <1>14, <1>15, <1>16

LEMMA WrapIsWithin ==
  ASSUME stream \in Streams, NEW c \in Nat \ {0}, NEW p, LiesAt(p, c),
         NEW payload, NEW n \in Nat, Wraps(p, payload, n)
  PROVE  /\ stream.bytes \in Seq(Byte) /\ Len(stream.bytes) \in Nat
         /\ c + (n + 7) - 1 <= Len(stream.bytes)
<1>1. stream.bytes \in Seq(Byte) /\ Len(stream.bytes) \in Nat
  BY BytesOfStream
<1>2. c - 1 + (n + 7) <= Len(stream.bytes)
  BY DEF LiesAt, Wraps
<1> QED
  BY <1>1, <1>2, Places

LEMMA SameSequence ==
  ASSUME NEW S, NEW T, NEW s \in Seq(S), NEW t \in Seq(T),
         NEW n, Len(s) = n, Len(t) = n, \A i \in 1..n : s[i] = t[i]
  PROVE  s = t
OBVIOUS

\* The payload is cut out of the stream as it was put in.
LEMMA PayloadIsRead ==
  ASSUME stream \in Streams, NEW c \in Nat \ {0}, NEW p, LiesAt(p, c),
         NEW payload, NEW n \in Nat, Wraps(p, payload, n)
  PROVE  SubSeq(stream.bytes, c + 5, c + 4 + n) = payload
<1> DEFINE s == SubSeq(stream.bytes, c + 5, c + 4 + n)
           b == stream.bytes
<1>1. b \in Seq(Byte) /\ c + (n + 7) - 1 <= Len(b)
  BY WrapIsWithin
<1>2. ASSUME NEW B, NEW q \in Seq(B), c + (n + 7) - 1 <= Len(q)
      PROVE  /\ SubSeq(q, c + 5, c + 4 + n) \in Seq(B)
             /\ Len(SubSeq(q, c + 5, c + 4 + n)) = n
             /\ \A i \in 1..n : SubSeq(q, c + 5, c + 4 + n)[i] = q[c + 4 + i]
  <2>1. c + 4 + n <= Len(q) /\ c + 4 + n - (c + 5) + 1 = n
    BY <1>2
  <2>2. \A i \in 1..n : c + 5 + i - 1 = c + 4 + i
    OBVIOUS
  <2> QED
    BY <1>2, <2>1, <2>2
<1>3. /\ s \in Seq(Byte) /\ Len(s) = n
      /\ \A i \in 1..n : s[i] = b[c + 4 + i]
  BY <1>1, <1>2
<1>4. \A i \in 1..n : b[c + 4 + i] = payload[i]
  BY WrapIsRead DEF byte
<1> HIDE DEF s, b
<1>5. \A i \in 1..n : s[i] = payload[i]
  BY <1>3, <1>4
<1>6. payload \in Seq(Nat) /\ Len(payload) = n
  BY DEF Wraps
<1>7. s = payload
  <2>1. s \in Seq(Byte) /\ Len(s) = n
    BY <1>3
  <2> QED
    BY <1>5, <1>6, <2>1, SameSequence
<1> QED
  BY <1>7 DEF s

\* A packed payload is a frame where it lies.
LEMMA PackedFrame ==
  ASSUME stream \in Streams, NEW c \in Nat \ {0}, NEW p, LiesAt(p, c),
         NEW payload, NEW n \in Nat, Wraps(p, payload, n),
         n >= 4, n <= SHIZUKU_MAX_PAYLOAD_SIZE
  PROVE  c \in Frames /\ FrameLength(c) = n + 7
<1>1. PayloadLength(c) = n
  BY WrapIsRead, Halves DEF PayloadLength
<1>2. FrameLength(c) = n + 7
  BY <1>1 DEF FrameLength, SHIZUKU_FRAME_OVERHEAD
<1>3. ~TooLong(c)
  <2>1. byte(c + 3) = 0 /\ byte(c + 4) = 0
    BY WrapIsRead
  <2>2. SHIZUKU_MAX_PAYLOAD_SIZE \in Nat
    BY LimitsAssumption
  <2>3. ~(n > SHIZUKU_MAX_PAYLOAD_SIZE) /\ ~(0 > 0)
    BY <2>2
  <2> QED
    BY <1>1, <2>1, <2>3 DEF TooLong
<1>4. Sound(c)
  <2>1. /\ byte(c + FrameLength(c) - 1) = SHIZUKU_FRAME_END
        /\ byte(c + FrameLength(c) - 2) = xor8(payload)
    BY <1>2, WrapIsRead
  <2>2. SubSeq(stream.bytes, c + 5, c + 4 + PayloadLength(c)) = payload
    BY <1>1, PayloadIsRead
  <2>3. PayloadLength(c) >= 4
    BY <1>1
  <2> QED
    BY <2>1, <2>2, <2>3 DEF Sound, SHIZUKU_HEADER_SIZE
<1>5. c + FrameLength(c) - 1 <= Len(stream.bytes) /\ c + 7 - 1 <= Len(stream.bytes)
  <2>1. c + (n + 7) - 1 <= Len(stream.bytes) /\ Len(stream.bytes) \in Nat
    BY WrapIsWithin
  <2>2. c + 7 - 1 <= c + (n + 7) - 1
    OBVIOUS
  <2>3. c + 7 - 1 <= Len(stream.bytes)
    BY <2>1, <2>2
  <2> QED
    BY <1>2, <2>1, <2>3
<1>6. byte(c) = SHIZUKU_FRAME_START /\ c \in DOMAIN stream.bytes
  BY WrapIsRead
<1>7. c \in Frames
  BY <1>3, <1>4, <1>5, <1>6 DEF Frames, IsFrame, Claims, SHIZUKU_FRAME_OVERHEAD
<1> QED
  BY <1>2, <1>7

\* A payload with the header of a request, and arguments of this size.
Requests(payload, caller_id, request_type, size) ==
  /\ payload \in Seq(Nat) /\ Len(payload) = 4 + size
  /\ payload[2] = request_type
  /\ payload[3] = caller_id % 256 /\ payload[4] = caller_id \div 256

LEMMA RequestPayload ==
  ASSUME NEW caller_id \in Nat, NEW request_type \in Byte, NEW marker \in Byte,
         NEW arguments \in Seq(Byte)
  PROVE  \E payload :
           /\ pack_request(caller_id, request_type, marker, arguments)
                = pack_frame(payload)
           /\ Requests(payload, caller_id, request_type, Len(arguments))
<1> DEFINE header == <<marker, request_type, caller_id % 256, caller_id \div 256>>
           payload == header \o arguments
<1>1. /\ header \in Seq(Nat) /\ Len(header) = 4 /\ header[2] = request_type
      /\ header[3] = caller_id % 256 /\ header[4] = caller_id \div 256
  BY Halves DEF Byte
<1>2. arguments \in Seq(Nat)
  <2>1. Byte \subseteq Nat
    BY DEF Byte
  <2>2. \A S, T : S \subseteq T => \A s \in Seq(S) : s \in Seq(T)
    OBVIOUS
  <2> QED
    BY <2>1, <2>2
<1>3. pack_request(caller_id, request_type, marker, arguments) = pack_frame(payload)
  BY DEF pack_request
<1> HIDE DEF header
<1>4. payload \in Seq(Nat) /\ Joins(header, arguments, payload)
  <2>1. header \in Seq(Nat)
    BY <1>1
  <2> QED
    BY <1>2, <2>1, Concatenated
<1> HIDE DEF payload
<1>5. Len(payload) = 4 + Len(arguments)
  BY <1>1, <1>4 DEF Joins
<1>6. payload[2] = header[2] /\ payload[3] = header[3] /\ payload[4] = header[4]
  BY <1>1, <1>4 DEF Joins
<1>7. Requests(payload, caller_id, request_type, Len(arguments))
  BY <1>1, <1>4, <1>5, <1>6 DEF Requests
<1> QED
  BY <1>3, <1>7

LEMMA RequestIsRead ==
  ASSUME stream \in Streams, NEW c \in Nat \ {0}, NEW p, LiesAt(p, c),
         NEW payload, NEW size \in Nat, Wraps(p, payload, 4 + size),
         NEW caller_id \in Nat, NEW request_type,
         Requests(payload, caller_id, request_type, size)
  PROVE  /\ byte(c + 6) = request_type
         /\ byte(c + 7) + 256 * byte(c + 8) = caller_id
<1> DEFINE n == 4 + size
<1>1. /\ n \in Nat /\ 2 \in 1..n /\ 3 \in 1..n /\ 4 \in 1..n
      /\ c + 4 + 2 = c + 6 /\ c + 4 + 3 = c + 7 /\ c + 4 + 4 = c + 8
  OBVIOUS
<1>2. Wraps(p, payload, n)
  OBVIOUS
<1> HIDE DEF n
<1> DEFINE AsPut(i) == byte(c + 4 + i) = payload[i]
<1>3. \A i \in 1..n : AsPut(i)
  BY <1>1, <1>2, WrapIsRead
<1> HIDE DEF AsPut
<1>4. AsPut(2) /\ AsPut(3) /\ AsPut(4)
  BY <1>1, <1>3
<1>5. byte(c + 6) = payload[2] /\ byte(c + 7) = payload[3] /\ byte(c + 8) = payload[4]
  BY <1>1, <1>4 DEF AsPut
<1>6. byte(c + 7) = caller_id % 256 /\ byte(c + 8) = caller_id \div 256
  BY <1>5 DEF Requests
<1>7. byte(c + 7) + 256 * byte(c + 8) = caller_id
  BY <1>6, Halves
<1> QED
  BY <1>5, <1>7 DEF Requests

LEMMA RequestIsFrame ==
  ASSUME stream \in Streams, NEW c \in Nat \ {0}, NEW p, LiesAt(p, c),
         NEW payload, NEW size \in Nat, Wraps(p, payload, 4 + size),
         NEW caller_id \in Nat, NEW request_type,
         Requests(payload, caller_id, request_type, size),
         size + 4 <= SHIZUKU_MAX_PAYLOAD_SIZE
  PROVE  /\ c \in Frames
         /\ decode_reply(c) = [at |-> c, size |-> size + 11,
                               caller_id |-> caller_id, message_type |-> request_type]
<1>1. byte(c + 6) = request_type /\ byte(c + 7) + 256 * byte(c + 8) = caller_id
  BY RequestIsRead
<1> DEFINE n == 4 + size
<1>2. /\ n \in Nat /\ n >= 4 /\ n <= SHIZUKU_MAX_PAYLOAD_SIZE
      /\ n + 7 = size + 11
  <2>1. SHIZUKU_MAX_PAYLOAD_SIZE \in Nat
    BY LimitsAssumption
  <2>2. \A k, m \in Nat : k + 4 <= m =>
          4 + k \in Nat /\ 4 + k >= 4 /\ 4 + k <= m /\ 4 + k + 7 = k + 11
    OBVIOUS
  <2> QED
    BY <2>1, <2>2
<1>3. Wraps(p, payload, n)
  OBVIOUS
<1> HIDE DEF n
<1>4. c \in Frames /\ FrameLength(c) = n + 7
  BY <1>2, <1>3, PackedFrame
<1> QED
  BY <1>1, <1>2, <1>4 DEF decode_reply

\* What pack_request builds, decode_reply accepts wherever it lies in the
\* stream, with the header it was given.  The two are written independently of
\* each other, one with struct.pack and one with struct.unpack_from.  (A
\* caller_id of more than two bytes does not pack into a stream of bytes.)
THEOREM PackedIsDecoded ==
  ASSUME stream \in Streams, NEW c \in Nat \ {0},
         NEW caller_id \in Nat, NEW request_type \in Byte,
         NEW marker \in Byte, NEW arguments \in Seq(Byte),
         Len(arguments) + 4 <= SHIZUKU_MAX_PAYLOAD_SIZE,
         LiesAt(pack_request(caller_id, request_type, marker, arguments), c)
  PROVE  /\ c \in Frames
         /\ decode_reply(c) = [at |-> c, size |-> Len(arguments) + 11,
                               caller_id |-> caller_id, message_type |-> request_type]
<1> DEFINE size == Len(arguments)
<1>1. size \in Nat
  OBVIOUS
<1> HIDE DEF size
<1>2. PICK payload :
        /\ pack_request(caller_id, request_type, marker, arguments)
             = pack_frame(payload)
        /\ Requests(payload, caller_id, request_type, size)
  BY ZenonT(30), RequestPayload DEF size
<1>3. payload \in Seq(Nat) /\ Len(payload) = 4 + size
  BY <1>2 DEF Requests
<1>4. LiesAt(pack_frame(payload), c)
  BY ZenonT(30), <1>2
<1>5. Wraps(pack_frame(payload), payload, 4 + size)
  BY <1>3, PackedBytes
<1>6. size + 4 <= SHIZUKU_MAX_PAYLOAD_SIZE
  BY ZenonT(30) DEF size
<1>7. /\ c \in Frames
      /\ decode_reply(c) = [at |-> c, size |-> size + 11,
                            caller_id |-> caller_id, message_type |-> request_type]
  BY <1>1, <1>2, <1>4, <1>5, <1>6, RequestIsFrame
<1> QED
  BY ZenonT(30), <1>7 DEF size

-----------------------------------------------------------------------------
(* Composed streams *)

\* The marker and the arguments of a frame of n bytes at c lie in the stream.
LEMMA ArgumentPlaces ==
  ASSUME NEW c \in Nat, NEW n \in Nat, c > 0, n >= 11,
         NEW B, NEW q \in Seq(B), c + n - 1 <= Len(q)
  PROVE  /\ c + 5 \in 1..Len(q)
         /\ SubSeq(q, c + 9, c + n - 3) \in Seq(B)
         /\ Len(SubSeq(q, c + 9, c + n - 3)) = n - 11
<1>1. /\ Len(q) \in Nat /\ c + 9 \in Nat /\ c + n - 3 \in Nat
      /\ c + 5 \in Nat /\ c + 5 <= Len(q) /\ c + n - 3 <= Len(q)
  OBVIOUS
<1>2. c + 5 \in 1..Len(q)
  BY <1>1
<1> DEFINE k == n - 11
           m == c + 9
           l == c + n - 3
<1>3. k \in Nat /\ m \in Nat /\ m >= 1 /\ l \in Nat /\ l = m + k - 1 /\ l <= Len(q)
  BY <1>1
<1> HIDE DEF k, m, l
<1>4. SubSeq(q, m, l) \in Seq(B)
  BY <1>3
<1>5. Len(SubSeq(q, m, l)) = k
  BY <1>3
<1> QED
  BY <1>2, <1>4, <1>5 DEF k, m, l

\* A frame that was sent and is what pack_request makes is a frame of the
\* stream, and read with its own header.
LEMMA PackedIsFrame ==
  ASSUME stream \in Streams, NEW f \in ToSet(stream.sent), Packed(f)
  PROVE  f.at \in Frames /\ decode_reply(f.at) = f
<1> DEFINE c == f.at
           n == f.size
           arguments == SubSeq(stream.bytes, c + 9, c + n - 3)
<1>1. f \in FrameRecord
  BY StreamsAssumption DEF ToSet
<1>2. c \in Nat /\ n \in Nat /\ f.caller_id \in Nat
  BY <1>1 DEF FrameRecord
<1>3. /\ c \in Nat \ {0} /\ n >= 11 /\ n <= 7 + SHIZUKU_MAX_PAYLOAD_SIZE
      /\ c + n - 1 <= Len(stream.bytes) /\ f.message_type \in Byte
  BY <1>2, LimitsAssumption
     DEF Packed, SHIZUKU_FRAME_OVERHEAD, SHIZUKU_HEADER_SIZE
<1>4. LiesAt(pack_request(f.caller_id, f.message_type, byte(c + 5), arguments), c)
  BY DEF Packed
<1>5. stream.bytes \in Seq(Byte) /\ Len(stream.bytes) \in Nat
  BY BytesOfStream
<1>6. /\ c + 5 \in 1..Len(stream.bytes)
      /\ arguments \in Seq(Byte) /\ Len(arguments) = n - 11
  <2>1. c > 0
    BY <1>2, <1>3
  <2> HIDE DEF c, n
  <2> QED
    BY <1>2, <1>3, <1>5, <2>1, ArgumentPlaces
<1>7. byte(c + 5) \in Byte
  BY <1>5, <1>6 DEF byte
<1>9. Len(arguments) + 4 <= SHIZUKU_MAX_PAYLOAD_SIZE
  BY <1>2, <1>3, <1>6, LimitsAssumption
<1>10. /\ c \in Frames
       /\ decode_reply(c) = [at |-> c, size |-> Len(arguments) + 11,
                             caller_id |-> f.caller_id,
                             message_type |-> f.message_type]
  <2> HIDE DEF c, n, arguments
  <2> QED
    BY <1>2, <1>3, <1>4, <1>7, <1>6, <1>9, PackedIsDecoded
<1>11. Len(arguments) + 11 = n
  BY <1>2, <1>6
<1>12. f = [at |-> f.at, size |-> f.size,
            caller_id |-> f.caller_id, message_type |-> f.message_type]
  BY <1>1 DEF FrameRecord
<1> QED
  BY <1>10, <1>11, <1>12

\* A length refused within a piece is too long.
LEMMA RefusedIsTooLong ==
  ASSUME NEW c, NEW end, RefusedBy(c, end)
  PROVE  TooLong(c)
BY DEF RefusedBy, TooLong

\* What begins in a piece and is not refused ends in it.
LEMMA PieceHolds ==
  ASSUME NEW at \in Nat, NEW end \in Nat, Piece(at, end),
         NEW c \in at..end, Claims(c)
  PROVE  c + FrameLength(c) - 1 <= end
BY RefusedIsTooLong DEF Piece, Claims

\* A sound frame that begins in a piece is all of it and was sent.
LEMMA PieceIsSent ==
  ASSUME NEW at \in Nat, NEW end \in Nat, Piece(at, end),
         NEW d \in Frames, d \in at..end
  PROVE  d = at /\ \E f \in ToSet(stream.sent) : f.at = d
<1>1. byte(d) = SHIZUKU_FRAME_START /\ ~TooLong(d) /\ Sound(d)
  BY DEF Frames, IsFrame, Claims
<1> QED
  BY <1>1, RefusedIsTooLong DEF Piece

\* What is claimed is some number of bytes.
LEMMA ClaimLength ==
  ASSUME stream \in Streams, NEW c \in DOMAIN stream.bytes, Claims(c)
  PROVE  FrameLength(c) \in Nat
<1>1. stream.bytes \in Seq(Byte) /\ Len(stream.bytes) \in Nat
  BY BytesOfStream
<1>2. c \in 1..Len(stream.bytes) /\ c \in Nat \ {0}
  BY <1>1
<1>3. c + 7 - 1 <= Len(stream.bytes)
  BY DEF Claims, SHIZUKU_FRAME_OVERHEAD
<1>4. c + 1 \in 1..Len(stream.bytes) /\ c + 2 \in 1..Len(stream.bytes)
  BY <1>1, <1>2, <1>3
<1>5. byte(c + 1) \in Byte /\ byte(c + 2) \in Byte
  BY <1>1, <1>4 DEF byte
<1>6. byte(c + 1) \in Nat /\ byte(c + 2) \in Nat
  BY <1>5 DEF Byte
<1> QED
  BY <1>6 DEF FrameLength, PayloadLength, SHIZUKU_FRAME_OVERHEAD

\* The sound frames of a composed stream are those sent, and no claim reaches
\* from one piece into another.
LEMMA ComposedStandsApart ==
  ASSUME stream \in Streams, Composed
  PROVE  FramesStandApart
<1>1. stream.bytes \in Seq(Byte) /\ Len(stream.bytes) \in Nat
  BY BytesOfStream
<1>2. ASSUME NEW f \in ToSet(stream.sent)
      PROVE  f.at \in Frames /\ decode_reply(f.at) = f
  BY PackedIsFrame DEF Composed
<1>3. ASSUME NEW c \in DOMAIN stream.bytes
      PROVE  \E at, end \in Nat : c \in at..end /\ c \in Nat /\ Piece(at, end)
  <2>1. c \in 1..Len(stream.bytes)
    BY <1>1
  <2>2. PICK at \in 1..c, end \in c..Len(stream.bytes) : Piece(at, end)
    BY DEF Composed
  <2>3. at \in Nat /\ end \in Nat /\ c \in at..end /\ c \in Nat
    BY <1>1, <2>1, <2>2
  <2> QED
    BY <2>2, <2>3
<1>4. ASSUME NEW c \in Frames
      PROVE  \E f \in ToSet(stream.sent) : f.at = c
  <2>1. c \in DOMAIN stream.bytes
    BY DEF Frames
  <2> QED
    BY <1>3, <2>1, PieceIsSent
<1>5. ToSet(stream.sent) = {decode_reply(c) : c \in Frames}
  <2>1. ASSUME NEW c \in Frames
        PROVE  decode_reply(c) \in ToSet(stream.sent)
    BY <1>2, <1>4
  <2> QED
    BY <1>2, <2>1
<1>6. ASSUME NEW c \in DOMAIN stream.bytes, NEW d \in Frames, Claims(c),
             c < d, d < c + FrameLength(c)
      PROVE  FALSE
  <2>1. PICK at, end \in Nat : c \in at..end /\ c \in Nat /\ Piece(at, end)
    BY <1>3
  <2>2. c + FrameLength(c) - 1 <= end
    BY <1>6, <2>1, PieceHolds
  <2>3. d \in 1..Len(stream.bytes)
    BY <1>1 DEF Frames
  <2>4. FrameLength(c) \in Nat
    BY <1>6, ClaimLength
  <2>5. d \in at..end
    BY <1>1, <1>6, <2>1, <2>2, <2>3, <2>4
  <2>6. d = at
    BY <2>1, <2>5, PieceIsSent
  <2> QED
    BY <1>6, <2>1, <2>3, <2>6
<1> QED
  BY <1>5, <1>6 DEF FramesStandApart

\* In a stream made of frames as pack_request makes them, each in a piece of
\* its own, and of pieces without a sound frame, the frames stand apart: what is
\* decoded is what was sent, and nothing read as a frame hides one of them.
THEOREM FramesApart == Spec /\ Composed => []FramesStandApart
<1>1. Init /\ Composed => FramesInv
  BY ComposedStandsApart DEF Init, FramesInv, AllGiven
<1>2. FramesInv => FramesStandApart
  BY DEF FramesInv
<1> QED
  BY <1>1, <1>2, Invariance, FramesInvStep, PTL DEF Spec

\* In such a stream a call is given every frame that came whole since its drain,
\* once, in order and with its header: what extract_frames promises, from a
\* condition one can see of the bytes each piece is made of.
THEOREM ComposedIsGiven == Spec /\ Composed => []EveryCompleteFrame
<1>1. Init /\ Composed => FramesStandApart
  BY ComposedStandsApart DEF Init
<1> QED
  BY <1>1, EveryFrameGiven, PTL DEF Spec

-----------------------------------------------------------------------------
(* Frame by frame: the refinement of FrameService *)

\* What a call has been given, of the frames cut out for it.
Taken == SubSeq(frames, 1, given)

\* The first frames of a sequence of frames are those of its beginning and of
\* any longer one.
LEMMA FirstOfFirst ==
  ASSUME NEW S, NEW s \in Seq(S), NEW n \in 0..Len(s)
  PROVE  /\ \A m \in n..Len(s) : SubSeq(SubSeq(s, 1, m), 1, n) = SubSeq(s, 1, n)
         /\ \A e \in S : SubSeq(Append(s, e), 1, n) = SubSeq(s, 1, n)
<1> DEFINE t == SubSeq(s, 1, n)
<1>1. t \in Seq(S) /\ Len(t) = n /\ n \in Nat /\ \A i \in 1..n : t[i] = s[i]
  BY KeptFrames
<1>2. ASSUME NEW m \in n..Len(s) PROVE SubSeq(SubSeq(s, 1, m), 1, n) = t
  <2> DEFINE u == SubSeq(s, 1, m)
             v == SubSeq(u, 1, n)
  <2>1. m \in 0..Len(s) /\ n <= m
    BY <1>1
  <2>2. u \in Seq(S) /\ Len(u) = m /\ \A i \in 1..m : u[i] = s[i]
    BY <2>1, KeptFrames
  <2> HIDE DEF u
  <2>3. n \in 0..Len(u)
    BY <1>1, <2>1, <2>2
  <2>4. v \in Seq(S) /\ Len(v) = n /\ \A i \in 1..n : v[i] = u[i]
    BY <2>2, <2>3, KeptFrames
  <2>5. \A i \in 1..n : i \in 1..m
    BY <1>1, <2>1
  <2> HIDE DEF t, v
  <2>6. \A i \in 1..n : v[i] = t[i]
    BY <1>1, <2>2, <2>4, <2>5
  <2>7. v = t
    BY <1>1, <2>4, <2>6, SameSequence
  <2> QED
    BY <2>7 DEF u, v
<1>3. ASSUME NEW e \in S PROVE SubSeq(Append(s, e), 1, n) = t
  <2> DEFINE u == Append(s, e)
             v == SubSeq(u, 1, n)
  <2>1. u \in Seq(S) /\ Len(u) = Len(s) + 1 /\ \A i \in 1..Len(s) : u[i] = s[i]
    OBVIOUS
  <2> HIDE DEF u
  <2>2. Len(s) \in Nat
    OBVIOUS
  <2>3. n \in 0..Len(u) /\ \A i \in 1..n : i \in 1..Len(s)
    BY <1>1, <2>1, <2>2
  <2>4. v \in Seq(S) /\ Len(v) = n /\ \A i \in 1..n : v[i] = u[i]
    BY <2>1, <2>3, KeptFrames
  <2> HIDE DEF t, v
  <2>5. \A i \in 1..n : v[i] = t[i]
    BY <1>1, <2>1, <2>3, <2>4
  <2>6. v = t
    BY <1>1, <2>4, <2>5, SameSequence
  <2> QED
    BY <2>6 DEF u, v
<1> QED
  BY <1>2, <1>3 DEF t

LEMMA OneMore ==
  ASSUME NEW S, NEW s \in Seq(S), NEW n \in Nat, n < Len(s)
  PROVE  SubSeq(s, 1, n + 1) = Append(SubSeq(s, 1, n), s[n + 1])
<1> DEFINE t == SubSeq(s, 1, n)
           u == Append(t, s[n + 1])
           v == SubSeq(s, 1, n + 1)
<1>1. Len(s) \in Nat /\ n \in 0..Len(s) /\ n + 1 \in 0..Len(s) /\ n + 1 \in 1..Len(s)
  OBVIOUS
<1>2. t \in Seq(S) /\ Len(t) = n /\ \A i \in 1..n : t[i] = s[i]
  BY <1>1, KeptFrames
<1>3. v \in Seq(S) /\ Len(v) = n + 1 /\ \A i \in 1..(n + 1) : v[i] = s[i]
  BY <1>1, KeptFrames
<1> HIDE DEF t, v
<1>4. s[n + 1] \in S
  BY <1>1
<1>5. u \in Seq(S) /\ Len(u) = n + 1 /\ u[n + 1] = s[n + 1]
      /\ \A i \in 1..n : u[i] = t[i]
  BY <1>2, <1>4
<1> HIDE DEF u
<1>6. \A i \in 1..(n + 1) : i = n + 1 \/ i \in 1..n
  OBVIOUS
<1>7. \A i \in 1..(n + 1) : v[i] = u[i]
  BY <1>2, <1>3, <1>5, <1>6
<1>8. v = u
  BY <1>3, <1>5, <1>7, SameSequence
<1> QED
  BY <1>8 DEF t, u, v

\* The frames of the call, at their places: those that were sent and come after
\* the drain, each behind the end of the one before.
LEMMA FramesOfCall ==
  ASSUME FInv, FramesInv, pc # "idle"
  PROVE  /\ frames \in Seq(FrameRecord) /\ Len(frames) \in Nat /\ given \in 0..Len(frames)
         /\ \A i \in 1..Len(frames) :
              /\ frames[i] \in ToSet(stream.sent)
              /\ frames[i].at \in Nat /\ frames[i].size \in Nat
              /\ frames[i].size >= 11 /\ frames[i].at > drained
              /\ frames[i].at + frames[i].size <= first
         /\ \A i, j \in 1..Len(frames) : i < j => frames[i].at < frames[j].at
<1>1. /\ TypeOK /\ frames \in Seq(FrameRecord) /\ Len(frames) \in Nat
      /\ given \in 0..Len(frames)
  BY DEF FInv, TypeOK
<1>2. DOMAIN frames = 1..Len(frames)
  BY <1>1
<1>3. ASSUME NEW i \in 1..Len(frames)
      PROVE  /\ frames[i] \in ToSet(stream.sent)
             /\ frames[i].at \in Nat /\ frames[i].size \in Nat
             /\ frames[i].size >= 11 /\ frames[i].at > drained
             /\ frames[i].at + frames[i].size <= first
  <2>1. frames[i] \in ToSet(frames)
    BY <1>2 DEF ToSet
  <2>2. PICK c \in Passed : frames[i] = decode_reply(c)
    BY <2>1 DEF FramesInv, Got
  <2>3. c \in Frames /\ drained < c /\ c + FrameLength(c) <= first
    BY <2>2 DEF Passed
  <2>4. frames[i] \in ToSet(stream.sent)
    BY <2>2, <2>3 DEF FramesInv, FramesStandApart
  <2>5. frames[i].at = c /\ frames[i].size = FrameLength(c)
    BY <2>2 DEF decode_reply
  <2>6. c \in Nat /\ FrameLength(c) \in Nat /\ FrameLength(c) >= 11
    BY <1>1, <2>3, FramesNumbers
  <2>7. drained \in Nat
    BY Numbers DEF FInv
  <2> QED
    BY <2>3, <2>4, <2>5, <2>6, <2>7
<1>4. ASSUME NEW i \in 1..Len(frames), NEW j \in 1..Len(frames), i < j
      PROVE  frames[i].at < frames[j].at
  <2>1. frames[i].at + frames[i].size <= frames[j].at
    BY <1>2, <1>4 DEF FInv, FramesDisjoint
  <2> QED
    BY <1>3, <2>1
<1> QED
  BY <1>1, <1>3, <1>4

\* No frame that is owed comes before the next one of the call: it is either
\* still in the buffer or one of those behind it.
LEMMA NextIsFirstOwed ==
  ASSUME FInv, FramesInv, pc # "idle", given < Len(frames)
  PROVE  /\ frames[given + 1] \in Service!Owed
         /\ \A g \in Service!Owed : frames[given + 1].at <= g.at
<1>1. /\ frames \in Seq(FrameRecord) /\ Len(frames) \in Nat /\ given \in 0..Len(frames)
      /\ \A i \in 1..Len(frames) :
           /\ frames[i] \in ToSet(stream.sent)
           /\ frames[i].at \in Nat /\ frames[i].size \in Nat
           /\ frames[i].size >= 11 /\ frames[i].at > drained
           /\ frames[i].at + frames[i].size <= first
      /\ \A i, j \in 1..Len(frames) : i < j => frames[i].at < frames[j].at
  BY FramesOfCall
<1> DEFINE f == frames[given + 1]
<1>2. given \in Nat /\ given + 1 \in 1..Len(frames)
  BY <1>1
<1>3. Taken \in Seq(FrameRecord) /\ Len(Taken) = given
      /\ \A i \in 1..given : Taken[i] = frames[i] /\ i \in 1..Len(frames)
  BY <1>1, KeptFrames DEF Taken
<1>4. ToSet(Taken) = {frames[i] : i \in 1..given}
  <2>1. DOMAIN Taken = 1..given
    BY <1>3
  <2> QED
    BY <1>3, <2>1 DEF ToSet
<1>5. Service!Owed = {g \in ToSet(stream.sent) : g.at > drained /\ g \notin ToSet(Taken)}
  BY DEF Service!Owed, Taken, Service!ToSet, ToSet
<1>6. f \in Service!Owed
  <2>1. ASSUME NEW i \in 1..given PROVE frames[i] # f
    <3>1. i < given + 1 /\ i \in 1..Len(frames)
      BY <1>2, <1>3
    <3>2. frames[i].at < f.at /\ frames[i].at \in Nat
      BY <1>1, <1>2, <3>1
    <3> QED
      BY <3>2
  <2> QED
    BY <1>1, <1>2, <1>4, <1>5, <2>1
<1>7. ASSUME NEW g \in Service!Owed
      PROVE  f.at <= g.at
  <2>1. PICK c \in Frames : g = decode_reply(c)
    BY <1>5 DEF FramesInv, FramesStandApart
  <2>2. g.at = c /\ drained < c
    BY <1>5, <2>1 DEF decode_reply
  <2>3. c \in Nat
    BY <2>1, FramesNumbers DEF FInv
  <2>4. c >= first \/ c + FrameLength(c) <= first
    BY <2>1, <2>2 DEF FramesInv, NoneCut
  <2>5. f.at \in Nat /\ f.size \in Nat /\ f.at + f.size <= first
    BY <1>1, <1>2
  <2>6. first \in Nat
    BY Numbers DEF FInv
  <2>7. CASE c >= first
    BY <2>2, <2>3, <2>5, <2>6, <2>7
  <2>8. CASE c + FrameLength(c) <= first
    <3>1. g \in ToSet(frames)
      BY <2>1, <2>2, <2>8 DEF FramesInv, Got, Passed
    <3>2. PICK j \in 1..Len(frames) : g = frames[j]
      BY <1>1, <3>1 DEF ToSet
    <3>3. j \notin 1..given
      BY <1>4, <1>5, <3>2
    <3>4. j = given + 1 \/ given + 1 < j
      BY <1>1, <1>2, <3>2, <3>3
    <3> QED
      BY <1>1, <1>2, <3>2, <3>4
  <2> QED
    BY <2>4, <2>7, <2>8
<1> QED
  BY <1>6, <1>7

\* With each frame yielded the call is given the next one.
LEMMA YieldGives ==
  ASSUME FInv, FramesInv, Yield
  PROVE  Service!Give
<1>1. /\ pc = "yielding" /\ given < Len(frames) /\ given' = given + 1
      /\ stream' = stream /\ drained' = drained
  BY DEF Yield
<1>2. /\ frames \in Seq(FrameRecord) /\ Len(frames) \in Nat /\ given \in 0..Len(frames)
  BY <1>1, FramesOfCall
<1>3. given \in Nat /\ given + 1 \in 0..Len(frames) /\ given + 1 \in (given + 1)..Len(frames)
  BY <1>1, <1>2
<1>4. frames' = frames \/ frames' = SubSeq(frames, 1, given + 1)
  BY <1>1 DEF Yield
<1>5. SubSeq(frames', 1, given + 1) = SubSeq(frames, 1, given + 1)
  BY <1>2, <1>3, <1>4, FirstOfFirst
<1>6. SubSeq(frames, 1, given + 1) = Append(SubSeq(frames, 1, given), frames[given + 1])
  BY <1>1, <1>2, <1>3, OneMore
<1>7. SubSeq(frames', 1, given') = Append(SubSeq(frames, 1, given), frames[given + 1])
  BY <1>1, <1>5, <1>6
<1>8. /\ frames[given + 1] \in Service!Owed
      /\ \A g \in Service!Owed : frames[given + 1].at <= g.at
  BY <1>1, NextIsFirstOwed
<1>9. (pc' # "idle") \in BOOLEAN
  OBVIOUS
<1> QED
  BY <1>1, <1>7, <1>8, <1>9 DEF Service!Give

\* The other steps of a call end it or give nothing.
LEMMA LoopGivesNothing ==
  ASSUME FInv, extract_frames
  PROVE  Service!End \/ UNCHANGED Service!vars
<1>1. /\ pc = "extracting" /\ stream' = stream /\ drained' = drained /\ given' = given
  BY DEF extract_frames, NoCandidate, AwaitRest, SkipCandidate, TakeFrame,
         RaiseDamaged, LoopState
<1>2. frames \in Seq(FrameRecord) /\ given \in 0..Len(frames) /\ Len(frames) \in Nat
  BY DEF FInv, TypeOK
<1>3. given \in given..Len(frames)
  BY <1>2
<1>4. SubSeq(frames', 1, given) = SubSeq(frames, 1, given)
  <2>1. CASE NoCandidate \/ AwaitRest \/ SkipCandidate
    BY <2>1 DEF NoCandidate, AwaitRest, SkipCandidate
  <2>2. CASE TakeFrame
    <3>1. PICK c \in first..received :
            /\ Candidate(c) /\ FrameHeld(c) /\ Sound(c)
            /\ frames' = Append(frames, decode_reply(c))
      BY <2>2 DEF TakeFrame
    <3>2. decode_reply(c) \in FrameRecord
      BY <3>1, SoundRecord, WholeFrame DEF FInv
    <3> QED
      BY <1>2, <3>1, <3>2, FirstOfFirst
  <2>3. CASE RaiseDamaged
    <3>1. frames' = SubSeq(frames, 1, given)
      BY <2>3 DEF RaiseDamaged
    <3> QED
      BY <1>2, <1>3, <3>1, FirstOfFirst
  <2> QED
    BY <2>1, <2>2, <2>3 DEF extract_frames
<1>5. pc' \in {"idle", "yielding", "extracting"}
  BY <1>1 DEF extract_frames, NoCandidate, AwaitRest, SkipCandidate, TakeFrame,
              RaiseDamaged
<1>6. SubSeq(frames', 1, given') = SubSeq(frames, 1, given)
  BY <1>1, <1>4
<1>7. CASE pc' = "idle"
  BY <1>1, <1>6, <1>7 DEF Service!End
<1>8. CASE pc' # "idle"
  BY <1>1, <1>6, <1>8 DEF Service!vars
<1> QED
  BY <1>7, <1>8

LEMMA CallRefines ==
  ASSUME FInv, StartCall \/ Read \/ TimeOut \/ AllYielded
  PROVE  [Service!Next]_(Service!vars)
<1>1. CASE StartCall
  <2>1. /\ pc = "idle" /\ pc' = "reading" /\ stream' = stream
        /\ drained' = received' /\ received' \in received..Len(stream.bytes)
        /\ frames' = <<>> /\ given' = 0
    BY <1>1 DEF StartCall
  <2>2. received \in Nat /\ drained \in Nat /\ drained <= received
    BY Numbers DEF FInv
  <2>3. drained' \in Nat /\ drained' >= drained
    BY <2>1, <2>2, BytesOfStream DEF FInv, TypeOK
  <2>4. SubSeq(frames', 1, given') = <<>>
    BY <2>1
  <2> QED
    BY <2>1, <2>3, <2>4 DEF Service!Next, Service!Start
<1>2. CASE Read \/ AllYielded
  BY <1>2 DEF Read, AllYielded, Service!vars
<1>3. CASE TimeOut
  BY <1>3 DEF TimeOut, Service!Next, Service!End
<1> QED
  BY <1>1, <1>2, <1>3

\* If the frames of the stream stand apart, a call loses those that began before
\* its drain and is given the others one by one, none left out and none twice,
\* until it returns, times out or raises: each step of extract_frames and of
\* the loop around it is a step of FrameService or changes nothing there.
THEOREM ImplementsFrameService == Spec /\ FramesStandApart => GivenInOrder
<1>1. Init /\ FramesStandApart => FramesInv /\ Service!Init
  <2>1. Init => SubSeq(frames, 1, given) = <<>>
    BY DEF Init
  <2>2. Init => Service!Init
    BY <2>1 DEF Init, Service!Init
  <2> QED
    BY <2>2 DEF Init, FramesInv, AllGiven
<1>2. FInv /\ FramesInv /\ [Next]_vars => [Service!Next]_(Service!vars)
  <2> SUFFICES ASSUME FInv, FramesInv, [Next]_vars
               PROVE  [Service!Next]_(Service!vars)
    OBVIOUS
  <2>1. CASE Yield
    BY <2>1, YieldGives DEF Service!Next
  <2>2. CASE extract_frames
    BY <2>2, LoopGivesNothing DEF Service!Next
  <2>3. CASE StartCall \/ Read \/ TimeOut \/ AllYielded
    BY <2>3, CallRefines
  <2>4. CASE UNCHANGED vars
    BY <2>4 DEF vars, Service!vars
  <2> QED
    BY <2>1, <2>2, <2>3, <2>4 DEF Next
<1> QED
  BY <1>1, <1>2, Invariance, FramesInvStep, PTL DEF Spec, GivenInOrder, Service!Spec

\* So it is in every composed stream.
THEOREM ComposedInOrder == Spec /\ Composed => GivenInOrder
<1>1. Init /\ Composed => FramesStandApart
  BY ComposedStandsApart DEF Init
<1> QED
  BY <1>1, ImplementsFrameService, PTL DEF Spec

-----------------------------------------------------------------------------
(* Requests *)

\* pack_lua_mosi and pack_frame agree on the texts they send: the text and the
\* word with its size fit into the arguments, the size into the upper half of
\* that word and the length of the payload into the two bytes pack_frame gives
\* it.  With the limit of constants.py these are the texts up to 4076 bytes,
\* not up to the 65535 pack_lua_mosi speaks of.
THEOREM LuaTextFits ==
  ASSUME NEW size \in Nat
  PROVE  /\ LuaMosiAccepts(size) =>
              /\ 4 + size + 12 <= LuaMosiArguments(size)
              /\ size < 256 * 256
              /\ LuaMosiPayload(size) < 256 * 256
         /\ SHIZUKU_MAX_PAYLOAD_SIZE = 16 * 256 =>
              (LuaMosiAccepts(size) <=> 0 < size /\ size <= 16 * 256 - 20)
<1> DEFINE words == (size + 3) \div 4
           word == 256 * 256
<1>0. word \in Nat
  OBVIOUS
<1>1. /\ words \in Nat
      /\ 4 * words <= size + 3 /\ size + 3 < 4 * words + 4
  OBVIOUS
<1>2. LuaMosiArguments(size) = 4 * words + 16 /\ LuaMosiPayload(size) = 4 * words + 20
  BY <1>1 DEF LuaMosiArguments, LuaMosiPayload, SHIZUKU_HEADER_SIZE
<1>3. SHIZUKU_MAX_PAYLOAD_SIZE \in Nat /\ SHIZUKU_MAX_PAYLOAD_SIZE < word
  BY LimitsAssumption
<1>4. LuaMosiAccepts(size) <=> /\ size \in 1..(word - 1)
                              /\ LuaMosiPayload(size) <= SHIZUKU_MAX_PAYLOAD_SIZE
  BY DEF LuaMosiAccepts, LUA_MOSI_MAX_CONTENT_SIZE
<1> HIDE DEF words, word
<1>5. ASSUME LuaMosiAccepts(size)
      PROVE  /\ 4 + size + 12 <= LuaMosiArguments(size)
             /\ size < word
             /\ LuaMosiPayload(size) < word
  <2>1. 4 + size + 12 <= 4 * words + 16
    BY <1>1
  <2>2. size < word
    BY <1>0, <1>4, <1>5
  <2>3. 4 * words + 20 < word
    BY <1>0, <1>1, <1>2, <1>3, <1>4, <1>5
  <2> QED
    BY <1>2, <2>1, <2>2, <2>3
<1>6. ASSUME SHIZUKU_MAX_PAYLOAD_SIZE = 16 * 256
      PROVE  LuaMosiAccepts(size) <=> 0 < size /\ size <= 16 * 256 - 20
  <2>1. 4 * words + 20 <= 16 * 256 => size <= 16 * 256 - 20
    BY <1>1
  <2>2. size <= 16 * 256 - 20 => 4 * words + 20 <= 16 * 256
    BY <1>1
  <2>3. 16 * 256 < word
    BY DEF word
  <2>4. size \in 1..(word - 1) <=> 0 < size /\ size < word
    BY <1>0
  <2>5. size <= 16 * 256 - 20 => size < word
    BY <1>0, <2>3
  <2> QED
    BY <1>2, <1>4, <1>6, <2>1, <2>2, <2>4, <2>5
<1> QED
  BY <1>5, <1>6 DEF word
=============================================================================
