----------------------- MODULE EarlierController_proofs -----------------------
(***************************************************************************)
(* What the lock and the wait of the earlier drivers promise, for any      *)
(* number of threads and calls.                                            *)
(***************************************************************************)
EXTENDS EarlierController, TLAPS

Inside == {"body"} \cup Talking

\* The lock is with the thread that is in a method, if there is one.
LockHeld == \A t \in Threads : pc[t] \in Inside <=> lock = t

\* A thread under way has a call, and only one that waits has written.
CallUnderway ==
  \A t \in Threads :
    pc[t] # "idle" => call[t].id # 0 /\ (settled[t] => pc[t] = "wait")

\* An answer is about some call,
GoodFrame == {f \in Frame : f.kind \in {"report", "bad"} \/ f.of # 0}
FramesAre(T) == usb_in \in Seq(T) /\ owed \in SUBSET T
AnswersHaveSubject == FramesAre(GoodFrame)

\* and while a thread waits that wrote when nothing was owed to another, all
\* there is and all that will come is about its call or about none.
AboutOnly(id) == {f \in Frame : f.of \in {0, id}}
OnlyOwnFrames ==
  \A t \in Threads :
    pc[t] = "wait" /\ settled[t] => FramesAre(AboutOnly(call[t].id))

Inv == /\ TypeOK /\ LockHeld /\ DeviceWhileTalking /\ CallUnderway
       /\ AnswersHaveSubject /\ OnlyOwnFrames /\ FirstFrameIsOwn

-----------------------------------------------------------------------------
(* Data *)

LEMMA AppendOver ==
  ASSUME NEW S, NEW q \in Seq(S), NEW x \in S
  PROVE  Append(q, x) \in Seq(S)
OBVIOUS

LEMMA TailOver ==
  ASSUME NEW S, NEW q \in Seq(S), q # <<>>
  PROVE  Tail(q) \in Seq(S)
OBVIOUS

LEMMA ChunkOver ==
  ASSUME NEW S, NEW q \in Seq(S), NEW n \in 1..Len(q)
  PROVE  /\ SubSeq(q, 1, n)[1] = q[1] /\ q[1] \in S
         /\ SubSeq(q, n + 1, Len(q)) \in Seq(S)
OBVIOUS

LEMMA SeqOver ==
  ASSUME NEW S, NEW T, NEW q \in Seq(S), \A i \in DOMAIN q : q[i] \in T
  PROVE  q \in Seq(T)
OBVIOUS

LEMMA AnswersAreOwn ==
  ASSUME NEW c, c.id \in Ids, NEW answer \in Answers(c) \cup {{}}
  PROVE  answer \in SUBSET GoodFrame /\ answer \in SUBSET AboutOnly(c.id)
BY BoundsAssumption DEF Answers, Plain, GoodFrame, AboutOnly, Frame, Ids

LEMMA ReportIsOfNone ==
  ASSUME NEW kind \in {"report", "bad"}
  PROVE  Plain(kind, 0) \in GoodFrame /\ \A id : Plain(kind, 0) \in AboutOnly(id)
BY DEF Plain, GoodFrame, AboutOnly, Frame

\* What the device sends keeps to any set that has what it owes and reports.
LEMMA DeviceSends ==
  ASSUME NEW T, FramesAre(T), \A kind \in {"report", "bad"} : Plain(kind, 0) \in T,
         SendOwed \/ Report
  PROVE  FramesAre(T)'
<1>1. CASE SendOwed
  BY <1>1, AppendOver DEF SendOwed, FramesAre
<1>2. CASE Report
  BY <1>2, AppendOver DEF Report, FramesAre
<1> QED BY <1>1, <1>2

\* A thread that is not writing only takes frames away.
LEMMA BodyTakes ==
  ASSUME NEW T, FramesAre(T), NEW t \in Threads, Body(t), ~Write(t)
  PROVE  FramesAre(T)'
<1>1. CASE DrainFrame(t)
  BY <1>1, TailOver DEF DrainFrame, FramesAre
<1>2. CASE Read(t)
  BY <1>2, ChunkOver DEF Read, FramesAre
<1>3. CASE connect(t) \/ close(t) \/ Begin(t) \/ Drained(t) \/ GiveUp(t)
  BY <1>3 DEF connect, close, Begin, Drained, GiveUp, FramesAre, deviceVars
<1> QED BY <1>1, <1>2, <1>3 DEF Body

-----------------------------------------------------------------------------
(* A step of a thread *)

\* In a method a thread goes on, under the lock, or ends and lets it go.
LEMMA BodyKeepsOthers ==
  ASSUME TypeOK, NEW t \in Threads, Body(t)
  PROVE  /\ pc[t] \in Inside
         /\ call' = call /\ calls' = calls /\ reports' = reports
         /\ \/ \E step \in Talking : GoesOn(t, step)
            \/ \E kind \in Outcomes, of \in Ids \cup {0} : Ends(t, kind, of)
            \/ UNCHANGED <<lock, pc, outcome>>
<1> USE DEF At, Inside, Talking, Draining, Outcomes
<1>1. CASE connect(t)
  BY <1>1 DEF connect
<1>2. CASE close(t)
  BY <1>2 DEF close
<1>3. CASE Begin(t)
  BY <1>3 DEF Begin
<1>4. CASE DrainFrame(t)
  BY <1>4 DEF DrainFrame
<1>5. CASE Drained(t)
  BY <1>5 DEF Drained
<1>6. CASE Write(t)
  BY <1>6 DEF Write
<1>7. CASE Read(t)
  <2>1. PICK n \in 1..Len(usb_in) : TakeFirst(t, SubSeq(usb_in, 1, n))
    BY <1>7 DEF Read
  <2>2. SubSeq(usb_in, 1, n)[1] \in Frame
    BY <2>1, ChunkOver DEF TypeOK
  <2> QED BY <1>7, <2>1, <2>2 DEF Read, TakeFirst, Frame
<1>8. CASE GiveUp(t)
  BY <1>8 DEF GiveUp
<1> QED BY <1>1, <1>2, <1>3, <1>4, <1>5, <1>6, <1>7, <1>8 DEF Body

\* Connection and settled are set by these actions only.
LEMMA BodyConnection ==
  ASSUME TypeOK, NEW t \in Threads, Body(t)
  PROVE  /\ device' \in BOOLEAN /\ claimed' \in BOOLEAN
         /\ UNCHANGED settled \/ Write(t)
         /\ pc[t] # "body" => UNCHANGED <<device, claimed>>
         /\ pc[t] = "body" /\ pc'[t] \in Talking => device' /\ claimed'
<1> USE DEF At, Talking, Draining, SameConnection, TypeOK
<1>1. CASE connect(t)
  BY <1>1 DEF connect, Ends, GoesOn, connected
<1>2. CASE close(t)
  BY <1>2 DEF close, Ends
<1>3. CASE Begin(t)
  BY <1>3 DEF Begin, Ends, GoesOn, connected
<1>4. CASE DrainFrame(t) \/ Drained(t) \/ Read(t) \/ GiveUp(t)
  BY <1>4 DEF DrainFrame, Drained, Read, GiveUp
<1>5. CASE Write(t)
  BY <1>5 DEF Write
<1> QED BY <1>1, <1>2, <1>3, <1>4, <1>5 DEF Body

-----------------------------------------------------------------------------
(* Types *)

LEMMA InitTypes == Init => TypeOK
<1> SUFFICES ASSUME Init PROVE TypeOK
  OBVIOUS
<1>1. calls \in 0..MaxCalls /\ reports \in 0..MaxReports
  BY BoundsAssumption DEF Init
<1>2. call \in [Threads -> [id : Ids \cup {0}, method : Methods]]
        /\ outcome \in [Threads -> [kind : Outcomes, of : Ids \cup {0}]]
  BY DEF Init, Methods, Outcomes
<1>3. pc \in [Threads -> Steps] /\ settled \in [Threads -> BOOLEAN]
  BY DEF Init, Steps
<1>4. usb_in \in Seq(Frame) /\ owed \in SUBSET Frame
  BY DEF Init
<1> QED BY <1>1, <1>2, <1>3, <1>4 DEF Init, TypeOK

LEMMA WriteTypes ==
  ASSUME TypeOK, CallUnderway, NEW t \in Threads, Write(t)
  PROVE  /\ settled' \in [Threads -> BOOLEAN] /\ usb_in' = usb_in
         /\ \E answer \in SUBSET GoodFrame :
              answer \in SUBSET AboutOnly(call[t].id) /\ owed' = owed \cup answer
<1>1. pc[t] = "write" /\ usb_in' = usb_in
  BY DEF Write, At
<1>2. call[t].id \in Ids
  BY <1>1 DEF CallUnderway, TypeOK
<1>3. PICK answer \in Answers(call[t]) \cup {{}} : owed' = owed \cup answer
  BY DEF Write
<1>4. settled' \in [Threads -> BOOLEAN]
  BY DEF Write, TypeOK
<1> QED BY <1>1, <1>2, <1>3, <1>4, AnswersAreOwn

LEMMA NextTypes == TypeOK /\ CallUnderway /\ [Next]_vars => TypeOK'
<1> SUFFICES ASSUME TypeOK, CallUnderway, [Next]_vars PROVE TypeOK'
  OBVIOUS
<1>f. FramesAre(Frame)
  BY DEF TypeOK, FramesAre
<1>1. ASSUME NEW t \in Threads, NEW m \in Methods, Call(t, m) PROVE TypeOK'
  <2>1. calls + 1 \in Ids /\ calls' \in 0..MaxCalls
    BY <1>1, BoundsAssumption DEF Call, TypeOK, Ids
  <2>2. call' \in [Threads -> [id : Ids \cup {0}, method : Methods]]
    BY <1>1, <2>1 DEF Call, TypeOK
  <2>3. pc' \in [Threads -> Steps] /\ settled' \in [Threads -> BOOLEAN]
    BY <1>1 DEF Call, TypeOK, Steps
  <2> QED BY <1>1, <2>1, <2>2, <2>3 DEF Call, TypeOK, controllerVars, deviceVars
<1>2. ASSUME NEW t \in Threads, Enter(t) PROVE TypeOK'
  <2>1. pc' \in [Threads -> Steps] /\ lock' \in Threads \cup {Nobody}
    BY <1>2 DEF Enter, TypeOK, Steps
  <2> QED BY <1>2, <2>1 DEF Enter, TypeOK, deviceVars
<1>3. ASSUME NEW t \in Threads, Body(t) PROVE TypeOK'
  <2>1. lock' \in Threads \cup {Nobody} /\ pc' \in [Threads -> Steps]
          /\ outcome' \in [Threads -> [kind : Outcomes, of : Ids \cup {0}]]
    <3>1. CASE \E step \in Talking : GoesOn(t, step)
      BY <3>1 DEF GoesOn, TypeOK, Steps
    <3>2. CASE \E kind \in Outcomes, of \in Ids \cup {0} : Ends(t, kind, of)
      BY <3>2 DEF Ends, TypeOK, Steps
    <3>3. CASE UNCHANGED <<lock, pc, outcome>>
      BY <3>3 DEF TypeOK
    <3> QED BY <1>3, <3>1, <3>2, <3>3, BodyKeepsOthers
  <2>2. settled' \in [Threads -> BOOLEAN] /\ FramesAre(Frame)'
    <3>1. CASE Write(t)
      BY <1>3, <1>f, <3>1, WriteTypes DEF FramesAre, GoodFrame
    <3>2. CASE ~Write(t)
      BY <1>3, <1>f, <3>2, BodyTakes, BodyConnection DEF TypeOK
    <3> QED BY <3>1, <3>2
  <2> QED BY <1>3, <2>1, <2>2, BodyKeepsOthers, BodyConnection DEF TypeOK, FramesAre
<1>4. CASE SendOwed \/ Report
  <2>1. FramesAre(Frame)'
    BY <1>f, <1>4, DeviceSends, ReportIsOfNone DEF GoodFrame
  <2>2. reports' \in 0..MaxReports
    BY <1>4, BoundsAssumption DEF SendOwed, Report, TypeOK
  <2> QED BY <1>4, <2>1, <2>2 DEF SendOwed, Report, NoThread, controllerVars,
                                  threadVars, TypeOK, FramesAre
<1>5. CASE UNCHANGED vars
  BY <1>5 DEF vars, controllerVars, threadVars, deviceVars, TypeOK
<1> QED BY <1>1, <1>2, <1>3, <1>4, <1>5 DEF Next

-----------------------------------------------------------------------------
(* The lock *)

LEMMA NextLock ==
  TypeOK /\ LockHeld /\ DeviceWhileTalking /\ CallUnderway /\ [Next]_vars
    => LockHeld' /\ DeviceWhileTalking' /\ CallUnderway'
<1> SUFFICES ASSUME TypeOK, LockHeld, DeviceWhileTalking, CallUnderway, [Next]_vars
             PROVE  LockHeld' /\ DeviceWhileTalking' /\ CallUnderway'
  OBVIOUS
<1> USE ThreadsAssumption DEF Inside, Talking, Draining
<1>1. ASSUME NEW t \in Threads, NEW m \in Methods, Call(t, m)
      PROVE  LockHeld' /\ DeviceWhileTalking' /\ CallUnderway'
  <2>1. calls + 1 # 0
    BY DEF TypeOK
  <2>2. pc' = [pc EXCEPT ![t] = "lock"] /\ pc[t] = "idle" /\ lock' = lock
    BY <1>1 DEF Call, controllerVars
  <2>3. LockHeld'
    BY <2>2 DEF LockHeld, TypeOK
  <2>4. DeviceWhileTalking'
    BY <1>1, <2>2 DEF Call, controllerVars, DeviceWhileTalking, connected, TypeOK
  <2>5. CallUnderway'
    BY <1>1, <2>1, <2>2 DEF Call, CallUnderway, TypeOK
  <2> QED BY <2>3, <2>4, <2>5
<1>2. ASSUME NEW t \in Threads, Enter(t)
      PROVE  LockHeld' /\ DeviceWhileTalking' /\ CallUnderway'
  <2>1. LockHeld'
    BY <1>2 DEF Enter, LockHeld, TypeOK
  <2>2. DeviceWhileTalking'
    BY <1>2 DEF Enter, DeviceWhileTalking, connected, TypeOK
  <2>3. CallUnderway'
    BY <1>2 DEF Enter, CallUnderway, TypeOK
  <2> QED BY <2>1, <2>2, <2>3
<1>3. ASSUME NEW t \in Threads, Body(t)
      PROVE  LockHeld' /\ DeviceWhileTalking' /\ CallUnderway'
  <2>1. pc[t] \in Inside /\ lock = t /\ call' = call
    BY <1>3, BodyKeepsOthers DEF LockHeld
  <2>2. \A u \in Threads \ {t} : pc[u] \notin Inside /\ pc'[u] = pc[u]
    BY <1>3, <2>1, BodyKeepsOthers DEF LockHeld, GoesOn, Ends, TypeOK
  <2>3. \/ lock' = t /\ pc'[t] \in Inside
        \/ lock' = Nobody /\ pc'[t] = "idle"
    BY <1>3, <2>1, BodyKeepsOthers DEF GoesOn, Ends, TypeOK
  <2>4. LockHeld'
    BY <2>2, <2>3 DEF LockHeld
  <2>5. DeviceWhileTalking'
    <3>1. pc'[t] \in Talking => connected'
      <4>1. CASE pc[t] = "body"
        BY <1>3, <4>1, BodyConnection DEF connected
      <4>2. CASE pc[t] \in Talking
        <5>1. device /\ claimed
          BY <4>2 DEF DeviceWhileTalking, connected
        <5>2. device' = device /\ claimed' = claimed
          BY <1>3, <4>2, BodyConnection
        <5> QED BY <5>1, <5>2, Zenon DEF connected
      <4> QED BY <2>1, <4>1, <4>2
    <3> QED BY <2>2, <3>1 DEF DeviceWhileTalking
  <2>6. pc'[t] # "idle" => (settled'[t] => pc'[t] = "wait")
    <3>1. CASE Write(t)
      BY <3>1 DEF Write, At, GoesOn, Ends, TypeOK
    <3>2. CASE ~Write(t) /\ settled[t]
      <4>1. pc[t] = "wait"
        BY <2>1, <3>2 DEF CallUnderway
      <4>2. Read(t) \/ GiveUp(t)
        BY <1>3, <3>2, <4>1 DEF Body, At, connect, close, Begin, DrainFrame, Drained
      <4> QED BY <4>1, <4>2 DEF Read, GiveUp, TakeFirst, Ends, TypeOK
    <3>3. CASE ~Write(t) /\ ~settled[t]
      BY <1>3, <3>3, BodyConnection
    <3> QED BY <3>1, <3>2, <3>3
  <2>7. \A u \in Threads \ {t} : settled'[u] = settled[u]
    <3>1. CASE Write(t)
      BY <3>1 DEF Write, TypeOK
    <3>2. CASE UNCHANGED settled
      BY <3>2
    <3> QED BY <1>3, <3>1, <3>2, BodyConnection
  <2>8. CallUnderway'
    BY <2>1, <2>2, <2>6, <2>7 DEF CallUnderway
  <2> QED BY <2>4, <2>5, <2>8
<1>4. CASE SendOwed \/ Report \/ UNCHANGED vars
  <2>1. UNCHANGED <<controllerVars, threadVars>>
    BY <1>4 DEF SendOwed, Report, NoThread, vars
  <2>2. /\ lock' = lock /\ device' = device /\ claimed' = claimed
        /\ pc' = pc /\ call' = call /\ settled' = settled
    BY <2>1 DEF controllerVars, threadVars
  <2>3. LockHeld'
    BY <2>2 DEF LockHeld
  <2>4. DeviceWhileTalking'
    BY <2>2 DEF DeviceWhileTalking, connected
  <2>5. CallUnderway'
    BY <2>2 DEF CallUnderway
  <2> QED BY <2>3, <2>4, <2>5
<1> QED BY <1>1, <1>2, <1>3, <1>4 DEF Next

-----------------------------------------------------------------------------
(* The frames *)

LEMMA NextFrames == Inv /\ [Next]_vars => AnswersHaveSubject' /\ OnlyOwnFrames'
<1> SUFFICES ASSUME Inv, [Next]_vars PROVE AnswersHaveSubject' /\ OnlyOwnFrames'
  OBVIOUS
<1> USE DEF Inv
<1>1. ASSUME NEW t \in Threads, (\E m \in Methods : Call(t, m)) \/ Enter(t)
      PROVE  AnswersHaveSubject' /\ OnlyOwnFrames'
  <2>1. usb_in' = usb_in /\ owed' = owed
    BY <1>1 DEF Call, Enter, deviceVars
  <2>2. \A u \in Threads : pc'[u] = "wait" =>
          pc[u] = "wait" /\ settled'[u] = settled[u] /\ call'[u] = call[u]
    BY <1>1 DEF Call, Enter, TypeOK
  <2> QED BY <2>1, <2>2 DEF AnswersHaveSubject, OnlyOwnFrames, FramesAre
<1>2. ASSUME NEW t \in Threads, Body(t), ~Write(t)
      PROVE  AnswersHaveSubject' /\ OnlyOwnFrames'
  <2>1. AnswersHaveSubject'
    BY <1>2, BodyTakes DEF AnswersHaveSubject
  <2>2. ASSUME NEW u \in Threads, pc'[u] = "wait", settled'[u]
        PROVE  FramesAre(AboutOnly(call[u].id))'
    <3>1. call' = call /\ settled' = settled
      BY <1>2, BodyKeepsOthers, BodyConnection
    <3>2. pc[u] = "wait"
      BY <1>2, <2>2, <3>1 DEF CallUnderway, Body, At, connect, close, Begin,
           DrainFrame, Drained, Read, GiveUp, TakeFirst, GoesOn, Ends, TypeOK
    <3>3. FramesAre(AboutOnly(call[u].id))
      BY <2>2, <3>1, <3>2 DEF OnlyOwnFrames
    <3>4. PICK id : id = call[u].id
      OBVIOUS
    <3>5. FramesAre(AboutOnly(id))'
      BY <1>2, <3>3, <3>4, BodyTakes
    <3> QED BY <3>1, <3>4, <3>5
  <2> QED BY <2>1, <2>2 DEF OnlyOwnFrames
<1>3. ASSUME NEW t \in Threads, Write(t) PROVE AnswersHaveSubject' /\ OnlyOwnFrames'
  <2>1. Body(t) /\ pc[t] = "write" /\ call' = call
    BY <1>3 DEF Body, Write, At
  <2>2. PICK answer \in SUBSET GoodFrame :
          answer \in SUBSET AboutOnly(call[t].id) /\ owed' = owed \cup answer
    BY <1>3, WriteTypes
  <2>3. usb_in' = usb_in
    BY <1>3, WriteTypes
  <2>4. AnswersHaveSubject'
    BY <2>2, <2>3 DEF AnswersHaveSubject, FramesAre
  <2>5. \A u \in Threads \ {t} : pc'[u] # "wait"
    <3>1. pc[t] \in Inside /\ lock = t
      BY <2>1 DEF LockHeld, Inside, Talking
    <3>2. ASSUME NEW u \in Threads \ {t} PROVE pc[u] # "wait" /\ pc'[u] = pc[u]
      <4>1. pc[u] # "wait"
        BY <3>1 DEF LockHeld, Inside, Talking
      <4>2. pc'[u] = pc[u]
        BY <2>1, BodyKeepsOthers DEF GoesOn, Ends, TypeOK
      <4> QED BY <4>1, <4>2
    <3> QED BY <3>2
  <2>6. ASSUME settled'[t] PROVE FramesAre(AboutOnly(call[t].id))'
    <3>1. owed = {} /\ \A i \in DOMAIN usb_in : usb_in[i].of = 0
      BY <1>3, <2>6 DEF Write, TypeOK
    <3>2. \A i \in DOMAIN usb_in : usb_in[i] \in AboutOnly(call[t].id)
      BY <3>1 DEF AboutOnly, TypeOK
    <3>3. usb_in \in Seq(AboutOnly(call[t].id))
      BY <3>2, SeqOver DEF TypeOK
    <3> QED BY <2>1, <2>2, <2>3, <3>1, <3>3 DEF FramesAre
  <2> QED BY <2>1, <2>4, <2>5, <2>6 DEF OnlyOwnFrames
<1>4. CASE SendOwed \/ Report
  <2>1. AnswersHaveSubject'
    BY <1>4, DeviceSends, ReportIsOfNone DEF AnswersHaveSubject
  <2>2. pc' = pc /\ call' = call /\ settled' = settled
    BY <1>4 DEF SendOwed, Report, NoThread, threadVars
  <2>3. ASSUME NEW u \in Threads, pc[u] = "wait", settled[u]
        PROVE  FramesAre(AboutOnly(call[u].id))'
    <3>1. PICK id : id = call[u].id
      OBVIOUS
    <3>2. FramesAre(AboutOnly(id))
      BY <2>3, <3>1 DEF OnlyOwnFrames
    <3>3. FramesAre(AboutOnly(id))'
      BY <1>4, <3>2, DeviceSends, ReportIsOfNone
    <3> QED BY <2>2, <3>1, <3>3
  <2> QED BY <2>1, <2>2, <2>3 DEF OnlyOwnFrames
<1>5. CASE UNCHANGED vars
  <2>1. usb_in' = usb_in /\ owed' = owed /\ pc' = pc /\ call' = call /\ settled' = settled
    BY <1>5 DEF vars, threadVars, deviceVars
  <2> QED BY <2>1 DEF AnswersHaveSubject, OnlyOwnFrames, FramesAre
<1> QED BY <1>1, <1>2, <1>3, <1>4, <1>5 DEF Next, Body

\* What a read hands to a thread that wrote when nothing was owed.
LEMMA ReadIsOwn ==
  ASSUME Inv, NEW t \in Threads, Read(t), settled[t]
  PROVE  /\ outcome'[t].kind = "ok" => outcome'[t].of = call[t].id
         /\ outcome'[t].kind = "unexpected header" => outcome'[t].of \in {0, call[t].id}
<1>1. PICK n \in 1..Len(usb_in) : TakeFirst(t, SubSeq(usb_in, 1, n))
  BY DEF Read
<1>2. usb_in \in Seq(AboutOnly(call[t].id)) /\ usb_in \in Seq(GoodFrame)
  BY DEF Inv, OnlyOwnFrames, AnswersHaveSubject, FramesAre, Read, At
<1>3. /\ SubSeq(usb_in, 1, n)[1] \in AboutOnly(call[t].id)
      /\ SubSeq(usb_in, 1, n)[1] \in GoodFrame
  BY <1>1, <1>2, ChunkOver
<1> DEFINE f == SubSeq(usb_in, 1, n)[1]
<1>4. f.of \in {0, call[t].id} /\ (f.kind \in {"ack", "pong"} => f.of # 0)
  BY <1>3 DEF AboutOnly, GoodFrame
<1>5. \/ Ends(t, "protocol error", 0)
      \/ f.kind = Expected(call[t].method) /\ Ends(t, "ok", f.of)
      \/ Ends(t, "unexpected header", f.of)
  BY <1>1 DEF TakeFirst
<1>6. Expected(call[t].method) \in {"ack", "pong"}
  BY DEF Expected
<1>7. t \in DOMAIN outcome
  BY DEF Inv, TypeOK
<1> HIDE DEF f
<1>8. CASE Ends(t, "protocol error", 0)
  BY <1>7, <1>8 DEF Ends
<1>9. CASE f.kind = Expected(call[t].method) /\ Ends(t, "ok", f.of)
  <2>1. f.of = call[t].id
    BY <1>4, <1>6, <1>9
  <2> QED BY <1>7, <1>9, <2>1 DEF Ends
<1>10. CASE Ends(t, "unexpected header", f.of)
  BY <1>4, <1>7, <1>10 DEF Ends
<1> QED BY <1>5, <1>8, <1>9, <1>10

LEMMA NextOutcome == Inv /\ [Next]_vars => FirstFrameIsOwn'
<1> SUFFICES ASSUME Inv, [Next]_vars,
                    NEW t \in Threads, pc'[t] = "idle", settled'[t]
             PROVE  /\ outcome'[t].kind = "ok" => outcome'[t].of = call'[t].id
                    /\ outcome'[t].kind = "unexpected header" =>
                         outcome'[t].of \in {0, call'[t].id}
  BY DEF FirstFrameIsOwn
<1> USE DEF Inv
<1>t. t \in DOMAIN pc /\ t \in DOMAIN outcome
  BY DEF TypeOK
<1>s. ASSUME pc[t] = "idle" /\ settled[t] /\ outcome'[t] = outcome[t] /\ call'[t] = call[t]
      PROVE  /\ outcome'[t].kind = "ok" => outcome'[t].of = call'[t].id
             /\ outcome'[t].kind = "unexpected header" =>
                  outcome'[t].of \in {0, call'[t].id}
  BY <1>s DEF FirstFrameIsOwn
<1>1. ASSUME NEW u \in Threads, (\E m \in Methods : Call(u, m)) \/ Enter(u)
      PROVE  pc[t] = "idle" /\ settled[t] /\ outcome'[t] = outcome[t] /\ call'[t] = call[t]
  BY <1>1 DEF Call, Enter, TypeOK
<1>2. ASSUME NEW u \in Threads \ {t}, Body(u)
      PROVE  pc[t] = "idle" /\ settled[t] /\ outcome'[t] = outcome[t] /\ call'[t] = call[t]
  <2>1. pc'[t] = pc[t] /\ outcome'[t] = outcome[t] /\ call' = call
    BY <1>2, BodyKeepsOthers DEF GoesOn, Ends, TypeOK
  <2>2. settled'[t] = settled[t]
    BY ZenonT(30), <1>2, BodyConnection DEF Write, TypeOK
  <2> QED BY <2>1, <2>2
<1>3. CASE Body(t)
  <2>1. call' = call /\ pc[t] # "idle"
    BY <1>3, BodyKeepsOthers DEF Inside, Talking, Draining
  <2>2. CASE Read(t)
    BY <2>1, <2>2, ReadIsOwn DEF Read
  <2>3. CASE Write(t)
    <3>1. GoesOn(t, "wait") \/ Ends(t, "usb error", 0)
      BY <2>3 DEF Write
    <3>2. Ends(t, "usb error", 0)
      BY <3>1, <1>t DEF GoesOn
    <3>3. outcome'[t].kind = "usb error"
      BY <3>2, <1>t DEF Ends
    <3> QED BY <3>3
  <2>4. CASE ~Write(t) /\ ~Read(t)
    <3>1. pc[t] = "wait"
      BY <1>3, <2>1, <2>4, BodyConnection DEF CallUnderway
    <3>2. GiveUp(t)
      BY <1>3, <2>4, <3>1 DEF Body, At, connect, close, Begin, DrainFrame, Drained, Draining
    <3>3. outcome'[t].kind \in {"timeout", "usb error"}
      <4>1. Ends(t, "timeout", 0) \/ Ends(t, "usb error", 0)
        BY <3>2 DEF GiveUp
      <4>2. CASE Ends(t, "timeout", 0)
        BY <4>2, <1>t DEF Ends
      <4>3. CASE Ends(t, "usb error", 0)
        BY <4>3, <1>t DEF Ends
      <4> QED BY <4>1, <4>2, <4>3
    <3> QED BY <3>3
  <2> QED BY <2>2, <2>3, <2>4
<1>4. CASE SendOwed \/ Report \/ UNCHANGED vars
  <2>1. UNCHANGED <<pc, call, outcome, settled>>
    BY <1>4 DEF SendOwed, Report, NoThread, vars, threadVars
  <2> QED BY <1>s, <2>1
<1> QED BY <1>s, <1>1, <1>2, <1>3, <1>4 DEF Next

-----------------------------------------------------------------------------
(* The theorems *)

\* The invariant is one: it holds at first and every step keeps it.
THEOREM Invariance == Spec => []Inv
<1>1. Init => Inv
  <2> SUFFICES ASSUME Init PROVE Inv
    OBVIOUS
  <2>1. LockHeld /\ DeviceWhileTalking /\ CallUnderway /\ OnlyOwnFrames /\ FirstFrameIsOwn
    BY ThreadsAssumption DEF Init, LockHeld, Inside, Talking, Draining,
       DeviceWhileTalking, CallUnderway, OnlyOwnFrames, FirstFrameIsOwn
  <2>2. AnswersHaveSubject
    BY DEF Init, AnswersHaveSubject, FramesAre
  <2> QED BY <2>1, <2>2, InitTypes DEF Inv
<1>2. Inv /\ [Next]_vars => Inv'
  BY NextTypes, NextLock, NextFrames, NextOutcome DEF Inv
<1> QED BY <1>1, <1>2, PTL DEF Spec

\* Variables have their types, and calls stay numbered within the bounds.
THEOREM TypeCorrect == Spec => []TypeOK
<1>1. Inv => TypeOK
  BY DEF Inv
<1> QED BY <1>1, Invariance, PTL

\* The lock works: close waits for the call in progress.
THEOREM DeviceCorrect == Spec => []DeviceWhileTalking
<1>1. Inv => DeviceWhileTalking
  BY DEF Inv
<1> QED BY <1>1, Invariance, PTL

\* The first frame is the right one, for any number of threads and of
\* calls that left answers behind.
THEOREM FirstFrameCorrect == Spec => []FirstFrameIsOwn
<1>1. Inv => FirstFrameIsOwn
  BY DEF Inv
<1> QED BY <1>1, Invariance, PTL
=============================================================================
