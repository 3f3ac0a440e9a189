----------------------- MODULE KT002Controller_proofs -----------------------
(***************************************************************************)
(* What holds of a KT002Controller for every set of commands and methods,  *)
(* any number of calls, and a device that answers at any time or never.    *)
(***************************************************************************)
EXTENDS KT002Controller, SequenceTheorems, TLAPS

-----------------------------------------------------------------------------
(* The invariant *)

\* Frames other than reports are about some call.
GoodFrame == {f \in Frame : f.kind \notin {"report", "bad"} => f.of # {}}
AnswersHaveSubject ==
  /\ usb_in \in Seq(GoodFrame) /\ owed \in Seq(GoodFrame)
  /\ speech # <<>> => job # {}

\* A call whose command was written when nothing was owed to another one
\* finds only frames about itself, from the device to its own variables.
OwnFrame(id) == {f \in GoodFrame : f.of \subseteq {id}}
OwnRequest(id) == {r \in Request : r.id = id}
OnlyOwnAnswers ==
  settled =>
    /\ usb_in \in Seq(OwnFrame(call.id)) /\ owed \in Seq(OwnFrame(call.id))
    /\ todo \in Seq(OwnRequest(call.id))
    /\ job \subseteq {call.id}
    /\ pending_text \in OwnFrame(call.id) /\ accepted_line \in OwnFrame(call.id)

\* The call in progress.
CallUnderway ==
  /\ pc \notin {"idle", "connect"} => call.id \in Ids
  /\ call.api \in SendsCommand => call.cmd \in Commands
  /\ pc \in {"drain", "write", "wait"} => call.api # "register_lua_miso"

\* The local variables of a call hold what their names say.
Locals ==
  /\ pc # "wait" => accepted_line = NoFrame /\ pending_text = NoFrame
  /\ accepted_line # NoFrame =>
       /\ accepted_line.kind = "text"
       /\ call.api \in WaitsForLine
       /\ accepts(call.cmd, accepted_line.line)
  /\ pending_text # NoFrame =>
       pending_text.kind = "text" /\ call.api \in WaitsForLine

\* AnswerIsAboutCall and OkMatchesRequest, kept while the user reconnects.
BetweenCalls == pc \in {"idle", "connect"}
Outcome ==
  BetweenCalls =>
    /\ settled /\ outcome.kind \in {"ok", "lua error"} => outcome.of = {call.id}
    /\ outcome.kind = "ok" /\ call.api \in WaitsForLine =>
         accepts(call.cmd, outcome.line)

\* A set-up answer is on its way only after the set-up, and what was set up is
\* forgotten with the handle.
Reporting ==
  /\ lua_miso_registered /\ handle = "live" => putchar
  /\ ~connected \/ pc = "connect" => ~lua_miso_registered
  /\ connected \/ pc \in {"idle", "connect"}
  /\ \A i \in DOMAIN usb_in : usb_in[i].kind = "setup ack" => putchar

\* A step that leaves the device where it is.
Runs == Driver \/ Device

Inv == /\ TypeOK /\ CallUnderway /\ AnswersHaveSubject /\ OnlyOwnAnswers
       /\ Locals /\ Outcome /\ Reporting

-----------------------------------------------------------------------------
(* Data *)

\* Every element of a sequence is in T: it is a sequence over T.
LEMMA SeqOver ==
  ASSUME NEW S, NEW T, NEW q \in Seq(S), \A i \in DOMAIN q : q[i] \in T
  PROVE  q \in Seq(T)
OBVIOUS

LEMMA AppendOver ==
  ASSUME NEW S, NEW q \in Seq(S), NEW x \in S
  PROVE  Append(q, x) \in Seq(S)
OBVIOUS

LEMMA AppendEach ==
  ASSUME NEW S, NEW q \in Seq(S), NEW x, NEW i \in DOMAIN Append(q, x)
  PROVE  (i \in DOMAIN q /\ Append(q, x)[i] = q[i]) \/ Append(q, x)[i] = x
OBVIOUS

LEMMA FirstOver ==
  ASSUME NEW S, NEW q \in Seq(S), q # <<>>
  PROVE  1 \in DOMAIN q /\ Head(q) = q[1]
BY EmptySeq

LEMMA TailOver ==
  ASSUME NEW S, NEW q \in Seq(S), q # <<>>
  PROVE  /\ Head(q) \in S /\ Tail(q) \in Seq(S)
         /\ \A i \in DOMAIN Tail(q) : i + 1 \in DOMAIN q /\ Tail(q)[i] = q[i + 1]
OBVIOUS

LEMMA SuffixOver ==
  ASSUME NEW S, NEW q \in Seq(S), NEW n \in DOMAIN q
  PROVE  /\ SubSeq(q, n + 1, Len(q)) \in Seq(S)
         /\ \A i \in DOMAIN SubSeq(q, n + 1, Len(q)) :
              i + n \in DOMAIN q /\ SubSeq(q, n + 1, Len(q))[i] = q[i + n]
OBVIOUS

LEMMA LastLeavesNone ==
  ASSUME NEW S, NEW q \in Seq(S), Len(q) = 1
  PROVE  Tail(q) = <<>>
<1>1. q # <<>>
  OBVIOUS
<1>2. Tail(q) \in Seq(S) /\ Len(Tail(q)) = 0
  BY <1>1, HeadTailProperties
<1> QED BY <1>2, EmptySeq

LEMMA RepliesAreLines ==
  ASSUME NEW c \in Command
  PROVE  Replies(c) \subseteq Line
<1>1. c.v \in VoltageOrNone /\ NoVoltage \in VoltageOrNone
  BY DEF Command, VoltageOrNone, Voltages
<1>2. CASE c.op = "PD"
  BY <1>1, <1>2 DEF Replies, Line, Say, SayMeasured
<1>3. CASE c.op = "PING"
  BY <1>1, <1>3 DEF Replies, Line, Say
<1>4. CASE c.op # "PD" /\ c.op # "PING"
  BY <1>1, <1>4 DEF Replies, Line, Say
<1> QED BY <1>2, <1>3, <1>4

LEMMA SomeLines ==
  /\ NoLine \in Line /\ Say("PD_INITIALIZED", NoVoltage) \in Line
  /\ Say("TRACE_NO_PDO", NoVoltage) \in Line
BY DEF NoLine, Line, Say, VoltageOrNone, LuaTraces

LEMMA SpeechesAreLines ==
  ASSUME NEW c \in Command, NEW s \in Speeches(c)
  PROVE  s \in Seq(Line) /\ s # <<>>
<1>1. Answers(c) \subseteq Line
  BY RepliesAreLines DEF Answers
<1>2. \/ \E l \in Answers(c) : s = <<l>>
      \/ \E l \in Answers(c) : s = <<Say("PD_INITIALIZED", NoVoltage), l>>
      \/ \E l \in Answers(c) : s = <<Say("TRACE_NO_PDO", NoVoltage), l>>
  BY DEF Speeches
<1>3. ASSUME NEW l \in Line PROVE <<l>> \in Seq(Line) /\ <<l>> # <<>>
  OBVIOUS
<1>4. ASSUME NEW l \in Line, NEW k \in Line
      PROVE  <<k, l>> \in Seq(Line) /\ <<k, l>> # <<>>
  OBVIOUS
<1> QED BY <1>1, <1>2, <1>3, <1>4, SomeLines

LEMMA JumbleIsCommand == Jumble \in Command
BY DEF Jumble, Command

LEMMA PlainFrame ==
  ASSUME NEW kind \in {"ack", "setup ack", "pong", "text", "report", "bad"},
         NEW of \in SUBSET Ids
  PROVE  Plain(kind, of) \in Frame
BY SomeLines DEF Plain, Frame, Parts

LEMMA TextFrame ==
  ASSUME NEW line \in Line, NEW part \in Parts, NEW of \in SUBSET Ids
  PROVE  Text(line, part, of) \in Frame
BY DEF Text, Frame

LEMMA NoFrameGood == NoFrame \in GoodFrame /\ \A id : NoFrame \in OwnFrame(id)
BY PlainFrame DEF NoFrame, Plain, GoodFrame, OwnFrame

LEMMA CompletedIsLine ==
  ASSUME NEW f \in Frame
  PROVE  Completed(f) \in Line
BY SomeLines DEF Completed, Frame

-----------------------------------------------------------------------------
(* Types *)

LEMMA InitTypes == Init => TypeOK
<1> SUFFICES ASSUME Init PROVE TypeOK
  OBVIOUS
<1>1. NoFrame \in Frame /\ NoLine \in Line
  BY NoFrameGood, SomeLines DEF GoodFrame
<1>2. call \in Call
  BY DEF Init, Call, Api
<1>3. outcome \in [kind : Outcomes, line : Line, of : SUBSET Ids]
  BY <1>1 DEF Init, Outcomes
<1>4. calls \in 0..MaxCalls /\ reports \in 0..MaxReports /\ replugs \in 0..MaxReplugs
  BY BoundsAssumption DEF Init
<1>5. pc \in Steps /\ cut \in {"none", "head", "stub"}
  BY DEF Init, Steps
<1>6. usb_in \in Seq(Frame) /\ owed \in Seq(Frame) /\ todo \in Seq(Request)
        /\ speech \in Seq(Line)
  BY DEF Init
<1> QED BY <1>1, <1>2, <1>3, <1>4, <1>5, <1>6 DEF Init, TypeOK

LEMMA DeviceTypes == TypeOK /\ Device => TypeOK'
<1> SUFFICES ASSUME TypeOK, Device PROVE TypeOK'
  OBVIOUS
<1>t. /\ usb_in \in Seq(Frame) /\ owed \in Seq(Frame)
      /\ todo \in Seq(Request) /\ speech \in Seq(Line) /\ job \in SUBSET Ids
  BY DEF TypeOK
<1>1. CASE SendOwed
  <2>1. Head(owed) \in Frame /\ owed' \in Seq(Frame)
    BY <1>t, <1>1, TailOver DEF SendOwed
  <2>2. usb_in' \in Seq(Frame)
    BY <1>t, <1>1, <2>1, AppendOver DEF SendOwed, Queue
  <2>3. putchar' \in BOOLEAN
    BY <1>1 DEF SendOwed, TypeOK
  <2> QED
    BY <1>1, <2>1, <2>2, <2>3 DEF SendOwed, TypeOK, driverVars, callVars, plugVars
<1>2. CASE TakeCommands
  <2>1. todo # <<>> /\ Head(todo) \in Request /\ Tail(todo) \in Seq(Request)
    BY <1>t, <1>2, TailOver DEF TakeCommands
  <2>2. todo' \in Seq(Request)
    <3>1. <<>> \in Seq(Request)
      OBVIOUS
    <3> QED BY <1>2, <2>1, <3>1 DEF TakeCommands
  <2>3. job' \in SUBSET Ids
    <3>1. \A i \in DOMAIN todo : todo[i] \in Request
      BY <1>t
    <3>2. \A r \in Request : r.id \in Ids
      BY DEF Request
    <3>3. {todo[i].id : i \in DOMAIN todo} \in SUBSET Ids
      BY <3>1, <3>2
    <3>4. {Head(todo).id} \in SUBSET Ids
      BY <2>1, <3>2
    <3> QED BY <1>2, <3>3, <3>4 DEF TakeCommands
  <2>4. speech' \in Seq(Line)
    <3>1. Head(todo).cmd \in Command
      BY <2>1, CommandsAssumption DEF Request
    <3> QED BY <1>2, <3>1, SpeechesAreLines, JumbleIsCommand DEF TakeCommands
  <2> QED
    BY <1>2, <2>2, <2>3, <2>4
       DEF TakeCommands, TypeOK, driverVars, callVars, plugVars
<1>3. CASE PrintPart
  <2>1. Head(speech) \in Line
    BY <1>t, <1>3, TailOver DEF PrintPart
  <2>2. cut' \in {"head", "stub"} /\ cut' \in Parts
    BY <1>3 DEF PrintPart, Parts
  <2>3. Text(Head(speech), cut', job) \in Frame
    BY <1>t, <2>1, <2>2, TextFrame
  <2>4. usb_in' \in Seq(Frame)
    BY <1>t, <1>3, <2>3, AppendOver DEF PrintPart, Queue
  <2> QED
    BY <1>3, <2>2, <2>4 DEF PrintPart, TypeOK, driverVars, callVars, plugVars
<1>4. CASE PrintLine
  <2>1. Head(speech) \in Line /\ speech' \in Seq(Line)
    BY <1>t, <1>4, TailOver DEF PrintLine
  <2>2. \A part \in Parts : Text(Head(speech), part, job) \in Frame
    BY <1>t, <2>1, TextFrame
  <2>3. \/ UNCHANGED usb_in
        \/ \E part \in Parts : Queue(Text(Head(speech), part, job))
    BY <1>4 DEF PrintLine, Parts, TypeOK
  <2>4. usb_in' \in Seq(Frame)
    BY <1>t, <2>2, <2>3, AppendOver DEF Queue
  <2>5. job' \in SUBSET Ids
    BY <1>t, <1>4 DEF PrintLine
  <2> QED
    BY <1>4, <2>1, <2>4, <2>5
       DEF PrintLine, TypeOK, driverVars, callVars, plugVars
<1>5. CASE Report
  <2>1. PICK kind \in {"report", "bad"} : Queue(Plain(kind, {}))
    BY <1>5 DEF Report
  <2>2. Plain(kind, {}) \in Frame
    BY PlainFrame
  <2>3. usb_in' \in Seq(Frame)
    BY <1>t, <2>1, <2>2, AppendOver DEF Queue
  <2>4. reports' \in 0..MaxReports
    BY <1>5, BoundsAssumption DEF Report, TypeOK
  <2> QED
    BY <1>5, <2>3, <2>4 DEF Report, TypeOK, driverVars, callVars, deviceVars, plugVars
<1> QED BY <1>1, <1>2, <1>3, <1>4, <1>5 DEF Device

LEMMA ReplugTypes == TypeOK /\ Replug => TypeOK'
<1> SUFFICES ASSUME TypeOK, Replug PROVE TypeOK'
  OBVIOUS
<1>1. replugs' \in 0..MaxReplugs
  BY BoundsAssumption DEF Replug, TypeOK
<1>2. /\ usb_in' \in Seq(Frame) /\ owed' \in Seq(Frame)
      /\ todo' \in Seq(Request) /\ speech' \in Seq(Line)
  BY DEF Replug
<1> QED BY <1>1, <1>2 DEF Replug, TypeOK, driverVars, callVars

\* The ends of a call keep the types of what they set.
LEMMA EndsTypes ==
  ASSUME NEW kind \in Outcomes, NEW line \in Line, NEW of \in SUBSET Ids,
         Ends(kind, line, of)
  PROVE  /\ pc' \in Steps /\ ack_received' \in BOOLEAN
         /\ accepted_line' \in Frame /\ pending_text' \in Frame
         /\ outcome' \in [kind : Outcomes, line : Line, of : SUBSET Ids]
<1>1. NoFrame \in Frame
  BY NoFrameGood DEF GoodFrame
<1>2. pc' \in Steps
  BY DEF Ends, Steps
<1> QED BY <1>1, <1>2 DEF Ends, FreshLocals

LEMMA DriverTypes == TypeOK /\ CallUnderway /\ Driver => TypeOK'
<1> SUFFICES ASSUME TypeOK, CallUnderway, Driver PROVE TypeOK'
  OBVIOUS
<1> DEFINE Returns ==
      /\ pc' \in Steps /\ ack_received' \in BOOLEAN
      /\ accepted_line' \in Frame /\ pending_text' \in Frame
      /\ outcome' \in [kind : Outcomes, line : Line, of : SUBSET Ids]
<1>t. /\ usb_in \in Seq(Frame) /\ owed \in Seq(Frame) /\ todo \in Seq(Request)
      /\ accepted_line \in Frame /\ pending_text \in Frame /\ call \in Call
      /\ outcome \in [kind : Outcomes, line : Line, of : SUBSET Ids]
  BY DEF TypeOK
<1>e. ASSUME NEW kind \in Outcomes, EndsWithout(kind) PROVE Returns
  BY <1>e, EndsTypes, SomeLines DEF EndsWithout
<1>g. ASSUME NEW step \in Steps, GoesOn(step) PROVE Returns
  BY <1>g DEF GoesOn, callVars, TypeOK
<1>s. Draining \cup {"idle", "register write", "register wait", "write", "wait"}
        \subseteq Steps
  BY DEF Steps
<1>o. {"usb error", "protocol error", "timeout", "ok", "lua error",
       "truncated", "type error"} \subseteq Outcomes
  BY DEF Outcomes
<1>f. /\ \A f \in Frame : f.line \in Line /\ f.of \in SUBSET Ids
      /\ NoFrame \in Frame
  BY NoFrameGood DEF Frame, GoodFrame
<1>1. CASE close \/ connect \/ ConnectFails
  <2>1. CASE close
    BY <2>1 DEF close, NoDevice, TypeOK, callVars, deviceVars, plugVars
  <2>2. CASE connect
    <3>1. Returns
      BY <2>2, <1>g, <1>s DEF connect, Draining
    <3> QED BY <2>2, <3>1 DEF connect, TypeOK
  <2>3. CASE ConnectFails
    <3>1. Returns
      BY <2>3, <1>e, <1>o DEF ConnectFails
    <3> QED BY <2>3, <3>1 DEF ConnectFails, NoDevice, TypeOK, deviceVars, plugVars
  <2> QED BY <1>1, <2>1, <2>2, <2>3
<1>2. CASE StartCall
  <2>1. calls' \in 0..MaxCalls /\ calls + 1 \in Ids
    <3>1. calls \in 0..MaxCalls
      BY DEF TypeOK
    <3>2. calls < MaxCalls /\ calls' = calls + 1
      BY <1>2 DEF StartCall
    <3> QED BY <3>1, <3>2, BoundsAssumption DEF Ids
  <2>2. call' \in Call
    <3>1. PICK api \in Apis, cmd \in Commands :
            call' = [id |-> calls + 1, api |-> api,
                     cmd |-> IF api \in SendsCommand THEN cmd ELSE NoCommand]
      BY <1>2 DEF StartCall
    <3>2. api \in Api
      BY ApisAssumption
    <3> QED BY <2>1, <3>1, <3>2 DEF Call
  <2>3. Returns
    <3>1. \/ EndsWithout("usb error")
          \/ GoesOn("register drain") \/ GoesOn("drain")
      BY <1>2 DEF StartCall
    <3> QED BY <3>1, <1>e, <1>g, <1>s, <1>o DEF Draining
  <2> QED
    BY <1>2, <2>1, <2>2, <2>3 DEF StartCall, NoDevice, TypeOK, deviceVars, plugVars
<1>3. CASE DrainFrame
  <2>1. usb_in' \in Seq(Frame)
    BY <1>t, <1>3, TailOver DEF DrainFrame
  <2> QED
    BY <1>3, <2>1 DEF DrainFrame, TypeOK, driverVars, callVars, deviceVars, plugVars
<1>4. CASE Drained
  <2>1. GoesOn("idle") \/ GoesOn("register write") \/ GoesOn("write")
    BY <1>4 DEF Drained, Draining
  <2>2. Returns
    BY <2>1, <1>g, <1>s
  <2>3. connected' \in BOOLEAN /\ lua_miso_registered' \in BOOLEAN
    BY <1>4 DEF Drained, TypeOK
  <2> QED BY <1>4, <2>2, <2>3 DEF Drained, NoDevice, TypeOK, deviceVars, plugVars
<1>5. CASE RegisterWrite
  <2>1. Plain("setup ack", {call.id}) \in Frame
    BY <1>5, PlainFrame DEF RegisterWrite, CallUnderway
  <2>2. owed' \in Seq(Frame)
    <3>1. owed' = owed \/ owed' = Append(owed, Plain("setup ack", {call.id}))
      BY <1>5 DEF RegisterWrite
    <3> QED BY <1>t, <2>1, <3>1, AppendOver
  <2>3. Returns
    BY <1>5, <1>e, <1>g, <1>s, <1>o DEF RegisterWrite
  <2> QED BY <1>5, <2>2, <2>3 DEF RegisterWrite, TypeOK, plugVars
<1>6. CASE Write
  <2>1. /\ Plain("pong", {call.id}) \in Frame /\ Plain("ack", {call.id}) \in Frame
    BY <1>6, PlainFrame DEF Write, CallUnderway
  <2>2. call.api # "ping" => [id |-> call.id, cmd |-> call.cmd] \in Request
    BY <1>t, <1>6 DEF Write, CallUnderway, Request, Call, Api, SendsCommand,
                      WaitsForLine
  <2>3. Delivered => owed' \in Seq(Frame) /\ todo' \in Seq(Request)
    BY ZenonT(30), <1>t, <2>1, <2>2, AppendOver DEF Delivered
  <2>4. owed' \in Seq(Frame) /\ todo' \in Seq(Request)
    BY <1>t, <1>6, <2>3 DEF Write
  <2>5. Returns
    BY <1>6, <1>e, <1>g, <1>s, <1>o DEF Write
  <2>6. settled' \in BOOLEAN
    BY <1>6 DEF Write, Settled
  <2> QED BY <1>6, <2>4, <2>5, <2>6 DEF Write, TypeOK, plugVars
<1>r. ASSUME Reads
      PROVE  Received \in Frame /\ usb_in' \in Seq(Frame)
  BY <1>t, <1>r, TailOver DEF Reads, Received
<1>d. CASE ReadDamaged
  <2>1. Returns
    BY <1>d, <1>e, <1>o DEF ReadDamaged
  <2>2. usb_in' \in Seq(Frame)
    <3>1. \E n \in DOMAIN usb_in : usb_in' = SubSeq(usb_in, n + 1, Len(usb_in))
      BY <1>d DEF ReadDamaged
    <3> QED BY <1>t, <3>1, SuffixOver
  <2> QED BY <1>d, <2>1, <2>2 DEF ReadDamaged, TypeOK, deviceVars, plugVars
<1>7. CASE ProtocolAck
  <2>1. Returns
    BY <1>7, <1>o, <1>r, <1>f, EndsTypes, SomeLines DEF ProtocolAck
  <2> QED
    BY <1>7, <1>r, <2>1 DEF ProtocolAck, Reads, TypeOK, deviceVars, plugVars
<1>8. CASE ReadOther
  BY <1>8, <1>r DEF ReadOther, Reads, Continues, TypeOK, callVars, deviceVars, plugVars
<1>9. CASE RegisterAck
  <2>1. Ends("ok", NoLine, Received.of) \/ GoesOn("drain")
    BY <1>9 DEF RegisterAck
  <2>2. Returns
    BY <1>9, <2>1, <1>g, <1>s, <1>o, <1>r, <1>f, EndsTypes, SomeLines
       DEF RegisterAck, Draining
  <2> QED BY <1>9, <1>r, <2>2 DEF RegisterAck, Reads, TypeOK, deviceVars, plugVars
<1>10. CASE ReadAck
  <2>1. Returns
    <3>1. CASE Ends("ok", accepted_line.line, accepted_line.of)
      BY <3>1, <1>t, <1>o, <1>f, EndsTypes
    <3>2. CASE ack_received' = TRUE /\ Continues
                 /\ UNCHANGED <<accepted_line, pending_text>>
      BY <3>2 DEF Continues, TypeOK
    <3> QED BY <1>10, <3>1, <3>2 DEF ReadAck
  <2> QED BY <1>10, <1>r, <2>1 DEF ReadAck, Reads, TypeOK, deviceVars, plugVars
<1>11. CASE ReadPart
  <2>1. pending_text' \in Frame
    BY <1>11, <1>r DEF ReadPart
  <2> QED
    BY <1>11, <1>r, <2>1 DEF ReadPart, Reads, Continues, TypeOK, deviceVars, plugVars
<1>12. CASE ReadLine
  <2>1. Completed(Received) \in Line /\ Received.of \in SUBSET Ids
    BY <1>12, <1>r, <1>f, CompletedIsLine DEF ReadLine
  <2>2. Text(Completed(Received), "whole", Received.of) \in Frame
    BY <2>1, TextFrame DEF Parts
  <2>3. Returns
    <3>1. ASSUME NEW kind \in {"ok", "lua error"},
                 Ends(kind, Completed(Received), Received.of)
          PROVE  Returns
      BY <2>1, <3>1, <1>o, EndsTypes
    <3>2. CASE /\ Continues /\ UNCHANGED ack_received
               /\ pending_text' = NoFrame
               /\ accepted_line' \in {accepted_line,
                    Text(Completed(Received), "whole", Received.of)}
      BY <1>f, <2>2, <3>2 DEF Continues, TypeOK
    <3> QED BY <1>12, <3>1, <3>2 DEF ReadLine
  <2> QED BY <1>12, <1>r, <2>3 DEF ReadLine, Reads, TypeOK, deviceVars, plugVars
<1>13. CASE TimeOut \/ ReadFails
  <2>1. Returns
    BY <1>13, <1>e, <1>o DEF TimeOut, ReadFails
  <2> QED
    BY <1>13, <2>1
       DEF TimeOut, ReadFails, KeepsConnection, NoDevice, TypeOK, deviceVars, plugVars
<1>14. CASE TimeOutWithText
  <2>1. \/ EndsWithout("timeout")
        \/ \E kind \in {"ok", "lua error", "truncated", "type error", "timeout"} :
             Ends(kind, pending_text.line, pending_text.of)
    BY <1>14 DEF TimeOutWithText, ShortText
  <2>2. Returns
    BY <2>1, <1>t, <1>e, <1>o, <1>f, EndsTypes
  <2> QED
    BY <1>14, <2>2
       DEF TimeOutWithText, KeepsConnection, NoDevice, TypeOK, deviceVars, plugVars
<1> QED
  BY <1>1, <1>2, <1>3, <1>4, <1>5, <1>6, <1>d, <1>7, <1>8, <1>9, <1>10, <1>11,
     <1>12, <1>13, <1>14 DEF Driver

-----------------------------------------------------------------------------
(* What the two sides leave alone *)

LEMMA DeviceLeaves == Device => UNCHANGED <<driverVars, plugVars, settled, calls>>
BY DEF Device, SendOwed, TakeCommands, PrintPart, PrintLine, Report, deviceVars

\* Frames are taken from the wire one by one, or with a damaged one.
Shortened ==
  \/ usb_in # <<>> /\ usb_in' = Tail(usb_in)
  \/ \E n \in DOMAIN usb_in : usb_in' = SubSeq(usb_in, n + 1, Len(usb_in))

LEMMA ShortenedOver ==
  ASSUME NEW S, usb_in \in Seq(S), Shortened
  PROVE  /\ usb_in' \in Seq(S)
         /\ \A i \in DOMAIN usb_in' : \E j \in DOMAIN usb_in : usb_in'[i] = usb_in[j]
<1>1. CASE usb_in # <<>> /\ usb_in' = Tail(usb_in)
  BY <1>1, TailOver
<1>2. CASE \E n \in DOMAIN usb_in : usb_in' = SubSeq(usb_in, n + 1, Len(usb_in))
  <2>1. PICK n \in DOMAIN usb_in : usb_in' = SubSeq(usb_in, n + 1, Len(usb_in))
    BY <1>2
  <2>2. usb_in' \in Seq(S)
    BY <2>1, SuffixOver
  <2>3. ASSUME NEW i \in DOMAIN usb_in'
        PROVE  i + n \in DOMAIN usb_in /\ usb_in'[i] = usb_in[i + n]
    BY <2>1, <2>3, SuffixOver
  <2> QED BY <2>2, <2>3
<1> QED BY <1>1, <1>2 DEF Shortened

LEMMA DriverLeaves ==
  Driver =>
    /\ UNCHANGED <<putchar, job, speech, cut, replugs>>
    /\ UNCHANGED handle \/ connect
    /\ UNCHANGED usb_in \/ Shortened
    /\ UNCHANGED <<owed, todo>> \/ RegisterWrite \/ Write
<1> SUFFICES ASSUME Driver
             PROVE  /\ UNCHANGED <<putchar, job, speech, cut, replugs>>
                    /\ UNCHANGED handle \/ connect
                    /\ UNCHANGED usb_in \/ Shortened
                    /\ UNCHANGED <<owed, todo>> \/ RegisterWrite \/ Write
  OBVIOUS
<1>1. CASE close \/ connect \/ ConnectFails \/ StartCall \/ Drained
  BY <1>1 DEF close, connect, ConnectFails, StartCall, Drained, NoDevice, deviceVars, plugVars
<1>2. CASE DrainFrame
  BY <1>2 DEF DrainFrame, deviceVars, plugVars, Shortened
<1>3. CASE RegisterWrite \/ Write
  BY <1>3 DEF RegisterWrite, Write, plugVars
<1>d. CASE ReadDamaged
  BY <1>d DEF ReadDamaged, deviceVars, plugVars, Shortened
<1>4. CASE ReadOther \/ RegisterAck \/ ProtocolAck \/ ReadAck
           \/ ReadPart \/ ReadLine
  <2>1. Reads
    BY <1>4 DEF ReadOther, RegisterAck, ProtocolAck, ReadAck,
                ReadPart, ReadLine
  <2> QED BY <2>1 DEF Reads, deviceVars, plugVars, Shortened
<1>5. CASE TimeOut \/ TimeOutWithText \/ ReadFails
  BY <1>5 DEF TimeOut, TimeOutWithText, ReadFails, KeepsConnection, NoDevice,
              deviceVars, plugVars
<1> QED BY <1>1, <1>2, <1>3, <1>d, <1>4, <1>5 DEF Driver

\* A call ends with a step to idle; every other step keeps the call.
LEMMA DriverCall ==
  Driver => \/ UNCHANGED call
            \/ StartCall
BY DEF Driver, close, connect, ConnectFails, DrainFrame, Drained, RegisterWrite,
       Write, ReadDamaged, ReadOther, RegisterAck, ProtocolAck, ReadAck,
       ReadPart, ReadLine, Reads, TimeOut, TimeOutWithText, ReadFails,
       KeepsConnection, driverVars

-----------------------------------------------------------------------------
(* The call underway *)

LEMMA CallUnderwayStep == TypeOK /\ CallUnderway /\ Runs => CallUnderway'
<1> SUFFICES ASSUME TypeOK, CallUnderway, Runs PROVE CallUnderway'
  OBVIOUS
<1>1. CASE Device
  BY <1>1, DeviceLeaves DEF CallUnderway, driverVars
<1>2. CASE StartCall
  <2>1. PICK api \in Apis, cmd \in Commands :
          /\ call' = [id |-> calls + 1, api |-> api,
                      cmd |-> IF api \in SendsCommand THEN cmd ELSE NoCommand]
          /\ CASE ~connected -> EndsWithout("usb error")
               [] connected /\ (\/ api = "register_lua_miso"
                                \/ api \in WaitsForLine /\ ~lua_miso_registered)
                    -> GoesOn("register drain")
               [] OTHER -> GoesOn("drain")
    BY <1>2 DEF StartCall
  <2>2. call'.id \in Ids
    <3>1. calls \in 0..MaxCalls
      BY DEF TypeOK
    <3>2. calls < MaxCalls
      BY <1>2 DEF StartCall
    <3>3. calls + 1 \in Ids
      BY <3>1, <3>2, BoundsAssumption DEF Ids
    <3> QED BY <2>1, <3>3
  <2>3. call'.api \in SendsCommand => call'.cmd \in Commands
    BY <2>1
  <2>4. pc' \in {"drain", "write", "wait"} => call'.api # "register_lua_miso"
    <3>1. CASE pc' = "drain"
      BY <2>1, <3>1 DEF EndsWithout, Ends, GoesOn
    <3>2. pc' \in {"idle", "register drain", "drain"}
      BY <2>1 DEF EndsWithout, Ends, GoesOn
    <3> QED BY <3>1, <3>2
  <2> QED BY <2>2, <2>3, <2>4 DEF CallUnderway
<1>3. CASE Driver /\ ~StartCall
  <2>1. UNCHANGED call
    BY <1>3, DriverCall
  <2>2. \/ pc' \in {"idle", "connect"} \/ UNCHANGED pc
        \/ pc = "register drain" /\ pc' = "register write"
        \/ pc = "drain" /\ pc' = "write"
        \/ RegisterWrite \/ Write \/ RegisterAck
    <3>1. CASE close \/ connect \/ ConnectFails
      BY <3>1 DEF close, connect, ConnectFails, EndsWithout, Ends, GoesOn
    <3>2. CASE DrainFrame \/ Drained
      BY <3>2 DEF DrainFrame, Drained, Draining, GoesOn, driverVars
    <3>3. CASE ReadDamaged \/ ReadOther \/ ProtocolAck \/ ReadAck
                 \/ ReadPart \/ ReadLine
      BY <3>3 DEF ReadDamaged, ReadOther, ProtocolAck, ReadAck, ReadPart,
                  ReadLine, EndsWithout, Ends, Continues
    <3>4. CASE TimeOut \/ TimeOutWithText \/ ReadFails
      BY <3>4 DEF TimeOut, TimeOutWithText, ReadFails, EndsWithout, Ends
    <3> QED BY <1>3, <3>1, <3>2, <3>3, <3>4 DEF Driver
  <2>3. CASE RegisterWrite
    BY <2>1, <2>3 DEF RegisterWrite, CallUnderway, GoesOn, EndsWithout, Ends
  <2>4. CASE Write
    BY <2>1, <2>4 DEF Write, CallUnderway, GoesOn, EndsWithout, Ends
  <2>5. CASE RegisterAck
    BY <2>1, <2>5 DEF RegisterAck, CallUnderway, GoesOn, Ends
  <2> QED BY <2>1, <2>2, <2>3, <2>4, <2>5 DEF CallUnderway
<1> QED BY <1>1, <1>2, <1>3 DEF Runs

-----------------------------------------------------------------------------
(* Answers have a subject *)

LEMMA SubjectsStep ==
  TypeOK /\ CallUnderway /\ AnswersHaveSubject /\ Runs => AnswersHaveSubject'
<1> SUFFICES ASSUME TypeOK, CallUnderway, AnswersHaveSubject, Runs
             PROVE  AnswersHaveSubject'
  OBVIOUS
<1>t. /\ usb_in \in Seq(GoodFrame) /\ owed \in Seq(GoodFrame)
      /\ speech \in Seq(Line) /\ todo \in Seq(Request)
      /\ job \in SUBSET Ids /\ (speech # <<>> => job # {})
  BY DEF AnswersHaveSubject, TypeOK
<1>1. CASE SendOwed
  <2>1. Head(owed) \in GoodFrame /\ owed' \in Seq(GoodFrame)
    BY <1>t, <1>1, TailOver DEF SendOwed
  <2>2. usb_in' \in Seq(GoodFrame)
    BY <1>t, <1>1, <2>1, AppendOver DEF SendOwed, Queue
  <2> QED BY <1>1, <1>t, <2>1, <2>2 DEF SendOwed, AnswersHaveSubject
<1>2. CASE TakeCommands
  <2>1. job' # {}
    <3>1. todo # <<>> /\ 1 \in DOMAIN todo
      BY <1>t, <1>2 DEF TakeCommands
    <3>2. todo[1].id \in {todo[i].id : i \in DOMAIN todo}
      BY <3>1
    <3> QED BY <1>2, <3>2 DEF TakeCommands
  <2> QED BY <1>2, <1>t, <2>1 DEF TakeCommands, AnswersHaveSubject
<1>l. ASSUME NEW part \in Parts, speech # <<>>
      PROVE  Text(Head(speech), part, job) \in GoodFrame
  <2>1. Head(speech) \in Line
    BY <1>t, <1>l, TailOver
  <2>2. Text(Head(speech), part, job) \in Frame
    BY <1>t, <2>1, TextFrame
  <2> QED BY <1>t, <1>l, <2>2 DEF GoodFrame, Text
<1>3. CASE PrintPart
  <2>1. cut' \in Parts
    BY <1>3 DEF PrintPart, Parts
  <2>2. usb_in' \in Seq(GoodFrame)
    BY <1>t, <1>3, <1>l, <2>1, AppendOver DEF PrintPart, Queue
  <2> QED BY <1>3, <1>t, <2>2 DEF PrintPart, AnswersHaveSubject
<1>4. CASE PrintLine
  <2>1. \/ UNCHANGED usb_in
        \/ \E part \in Parts : Queue(Text(Head(speech), part, job))
    BY <1>4 DEF PrintLine, Parts, TypeOK
  <2>2. usb_in' \in Seq(GoodFrame)
    <3>1. speech # <<>>
      BY <1>4 DEF PrintLine
    <3> QED BY <1>t, <1>l, <2>1, <3>1, AppendOver DEF Queue
  <2>3. speech' # <<>> => job' # {}
    <3>1. Len(speech) = 1 => Tail(speech) = <<>>
      BY <1>t, LastLeavesNone
    <3> QED BY <1>t, <1>4, <3>1 DEF PrintLine
  <2> QED BY <1>4, <1>t, <2>2, <2>3 DEF PrintLine, AnswersHaveSubject
<1>5. CASE Report
  <2>1. PICK kind \in {"report", "bad"} : Queue(Plain(kind, {}))
    BY <1>5 DEF Report
  <2>2. Plain(kind, {}) \in GoodFrame
    <3>1. Plain(kind, {}) \in Frame
      BY PlainFrame
    <3> QED BY <3>1 DEF Plain, GoodFrame
  <2>3. usb_in' \in Seq(GoodFrame)
    BY <1>t, <2>1, <2>2, AppendOver DEF Queue
  <2> QED BY <1>5, <1>t, <2>3 DEF Report, deviceVars, AnswersHaveSubject
<1>6. CASE Driver
  <2>1. usb_in' \in Seq(GoodFrame)
    BY <1>t, <1>6, DriverLeaves, ShortenedOver
  <2>2. owed' \in Seq(GoodFrame)
    <3>1. ASSUME NEW kind \in {"ack", "pong", "setup ack"}, call.id \in Ids
          PROVE  Plain(kind, {call.id}) \in GoodFrame
      <4>1. Plain(kind, {call.id}) \in Frame
        BY <3>1, PlainFrame
      <4> QED BY <4>1 DEF Plain, GoodFrame
    <3>2. CASE RegisterWrite
      <4>1. call.id \in Ids
        BY <3>2 DEF RegisterWrite, CallUnderway
      <4>2. Append(owed, Plain("setup ack", {call.id})) \in Seq(GoodFrame)
        BY <1>t, <3>1, <4>1, AppendOver
      <4> QED BY <1>t, <3>2, <4>2 DEF RegisterWrite
    <3>3. CASE Write
      <4>1. call.id \in Ids
        BY <3>3 DEF Write, CallUnderway
      <4>2. Append(owed, Plain("ack", {call.id})) \in Seq(GoodFrame)
            /\ Append(owed, Plain("pong", {call.id})) \in Seq(GoodFrame)
        BY <1>t, <3>1, <4>1, AppendOver
      <4> QED BY <1>t, <3>3, <4>2 DEF Write, Delivered
    <3> QED BY <1>t, <1>6, <3>2, <3>3, DriverLeaves
  <2> QED BY <1>t, <1>6, <2>1, <2>2, DriverLeaves DEF AnswersHaveSubject
<1> QED BY <1>1, <1>2, <1>3, <1>4, <1>5, <1>6 DEF Runs, Device

-----------------------------------------------------------------------------
(* Only own answers *)

\* Frames about an own call are own, and frames about nobody.
LEMMA OwnPlain ==
  ASSUME NEW id \in Ids, NEW kind \in {"ack", "pong", "setup ack"}
  PROVE  Plain(kind, {id}) \in OwnFrame(id)
<1>1. Plain(kind, {id}) \in Frame
  BY PlainFrame
<1> QED BY <1>1 DEF Plain, OwnFrame, GoodFrame

LEMMA OwnReport ==
  ASSUME NEW id, NEW kind \in {"report", "bad"}
  PROVE  Plain(kind, {}) \in OwnFrame(id)
<1>1. Plain(kind, {}) \in Frame
  BY PlainFrame
<1> QED BY <1>1 DEF Plain, OwnFrame, GoodFrame

LEMMA OwnText ==
  ASSUME NEW id, NEW line \in Line, NEW part \in Parts,
         NEW of \in SUBSET Ids, of # {}, of \subseteq {id}
  PROVE  Text(line, part, of) \in OwnFrame(id)
<1>1. Text(line, part, of) \in Frame
  BY TextFrame
<1> QED BY <1>1 DEF Text, OwnFrame, GoodFrame

LEMMA OwnDevice ==
  TypeOK /\ AnswersHaveSubject /\ OnlyOwnAnswers /\ Device => OnlyOwnAnswers'
<1> SUFFICES ASSUME TypeOK, AnswersHaveSubject, OnlyOwnAnswers, Device, settled
             PROVE  /\ usb_in' \in Seq(OwnFrame(call.id))
                    /\ owed' \in Seq(OwnFrame(call.id))
                    /\ todo' \in Seq(OwnRequest(call.id))
                    /\ job' \subseteq {call.id}
  BY DeviceLeaves DEF OnlyOwnAnswers, driverVars, callVars
<1> DEFINE Own == OwnFrame(call.id)
<1>t. /\ usb_in \in Seq(Own) /\ owed \in Seq(Own)
      /\ todo \in Seq(OwnRequest(call.id)) /\ job \subseteq {call.id}
      /\ job \in SUBSET Ids /\ speech \in Seq(Line)
      /\ speech # <<>> => job # {}
  BY DEF OnlyOwnAnswers, AnswersHaveSubject, TypeOK
<1> HIDE DEF Own
<1>q. ASSUME NEW f \in Own, Queue(f) PROVE usb_in' \in Seq(Own)
  BY <1>t, <1>q, AppendOver DEF Queue
<1>l. ASSUME NEW part \in Parts, speech # <<>>
      PROVE  Text(Head(speech), part, job) \in Own
  <2>1. Head(speech) \in Line
    BY <1>t, <1>l, TailOver
  <2> QED BY <1>t, <1>l, <2>1, OwnText DEF Own
<1>1. CASE SendOwed
  <2>1. Head(owed) \in Own /\ owed' \in Seq(Own)
    BY <1>t, <1>1, TailOver DEF SendOwed
  <2>2. usb_in' \in Seq(Own)
    BY <1>q, <1>1, <2>1 DEF SendOwed
  <2> QED BY <1>1, <1>t, <2>1, <2>2 DEF SendOwed, Own
<1>2. CASE TakeCommands
  <2>1. todo # <<>> /\ Tail(todo) \in Seq(OwnRequest(call.id))
        /\ Head(todo) \in OwnRequest(call.id)
    BY <1>t, <1>2, TailOver DEF TakeCommands
  <2>2. \A i \in DOMAIN todo : todo[i] \in OwnRequest(call.id)
    BY <1>t
  <2>3. Head(todo).id = call.id /\ \A i \in DOMAIN todo : todo[i].id = call.id
    BY <2>1, <2>2 DEF OwnRequest
  <2>4. job' \subseteq {call.id}
    BY <1>2, <2>3 DEF TakeCommands
  <2>5. todo' \in Seq(OwnRequest(call.id))
    <3>1. <<>> \in Seq(OwnRequest(call.id))
      OBVIOUS
    <3> QED BY <1>2, <2>1, <3>1 DEF TakeCommands
  <2> QED BY <1>2, <1>t, <2>4, <2>5 DEF TakeCommands, Own
<1>3. CASE PrintPart
  <2>1. cut' \in Parts /\ speech # <<>>
    BY <1>3 DEF PrintPart, Parts
  <2>2. usb_in' \in Seq(Own)
    BY <1>3, <1>l, <1>q, <2>1 DEF PrintPart
  <2> QED BY <1>3, <1>t, <2>2 DEF PrintPart, Own
<1>4. CASE PrintLine
  <2>1. \/ UNCHANGED usb_in
        \/ \E part \in Parts : Queue(Text(Head(speech), part, job))
    BY <1>4 DEF PrintLine, Parts, TypeOK
  <2>2. usb_in' \in Seq(Own)
    <3>1. speech # <<>>
      BY <1>4 DEF PrintLine
    <3> QED BY <1>t, <1>l, <1>q, <2>1, <3>1
  <2>3. job' \subseteq {call.id}
    BY <1>t, <1>4 DEF PrintLine
  <2> QED BY <1>4, <1>t, <2>2, <2>3 DEF PrintLine, Own
<1>5. CASE Report
  <2>1. PICK kind \in {"report", "bad"} : Queue(Plain(kind, {}))
    BY <1>5 DEF Report
  <2>2. usb_in' \in Seq(Own)
    BY <1>q, <2>1, OwnReport DEF Own
  <2> QED BY <1>5, <1>t, <2>2 DEF Report, deviceVars, Own
<1> QED BY <1>1, <1>2, <1>3, <1>4, <1>5 DEF Device

\* The frame a read returns and the text pending before it are own.
LEMMA OwnDriver ==
  /\ TypeOK /\ CallUnderway /\ AnswersHaveSubject /\ OnlyOwnAnswers /\ Locals
  /\ Driver
  => OnlyOwnAnswers'
<1> SUFFICES ASSUME TypeOK, CallUnderway, AnswersHaveSubject, OnlyOwnAnswers,
                    Locals, Driver, settled'
             PROVE  /\ usb_in' \in Seq(OwnFrame(call'.id))
                    /\ owed' \in Seq(OwnFrame(call'.id))
                    /\ todo' \in Seq(OwnRequest(call'.id))
                    /\ job' \subseteq {call'.id}
                    /\ pending_text' \in OwnFrame(call'.id)
                    /\ accepted_line' \in OwnFrame(call'.id)
  BY DEF OnlyOwnAnswers
<1> DEFINE Own == OwnFrame(call.id)
<1>n. NoFrame \in Own
  BY NoFrameGood
<1>1. UNCHANGED call
  BY DriverCall DEF StartCall
<1>2. CASE Write
  <2>1. Settled
    BY <1>2 DEF Write
  <2>2. call.id \in Ids
    BY <1>2 DEF Write, CallUnderway
  <2>3. usb_in' \in Seq(Own)
    <3>1. usb_in \in Seq(GoodFrame) /\ \A i \in DOMAIN usb_in : usb_in[i].of = {}
      BY <2>1 DEF Settled, AnswersHaveSubject
    <3>2. \A i \in DOMAIN usb_in : usb_in[i] \in GoodFrame
      BY <3>1
    <3>3. \A i \in DOMAIN usb_in : usb_in[i] \in Own
      BY <3>1, <3>2 DEF OwnFrame
    <3>4. usb_in \in Seq(Own)
      BY <3>1, <3>3, SeqOver
    <3> QED BY <1>2, <3>4 DEF Write
  <2>4. owed' \in Seq(Own) /\ todo' \in Seq(OwnRequest(call.id))
    <3>1. owed = <<>> /\ todo = <<>>
      BY <2>1 DEF Settled
    <3>2. owed \in Seq(Own) /\ todo \in Seq(OwnRequest(call.id))
      BY <3>1
    <3>3. Append(owed, Plain("ack", {call.id})) \in Seq(Own)
          /\ Append(owed, Plain("pong", {call.id})) \in Seq(Own)
      BY <2>2, <3>2, OwnPlain, AppendOver
    <3>4. call.api # "ping" => [id |-> call.id, cmd |-> call.cmd] \in Request
      BY <1>2, <2>2 DEF TypeOK, Write, CallUnderway, Request, Call, Api,
                        SendsCommand, WaitsForLine
    <3>5. call.api # "ping" =>
            Append(todo, [id |-> call.id, cmd |-> call.cmd])
              \in Seq(OwnRequest(call.id))
      BY <3>2, <3>4, AppendOver DEF OwnRequest
    <3> QED BY <1>2, <3>2, <3>3, <3>5 DEF Write, Delivered
  <2>5. job' \subseteq {call.id}
    BY <1>2, <2>1 DEF Write, Settled
  <2>6. pending_text' \in Own /\ accepted_line' \in Own
    BY <1>2, <1>n DEF Write, Locals, GoesOn, EndsWithout, Ends, FreshLocals,
                      callVars
  <2> QED BY <1>1, <2>3, <2>4, <2>5, <2>6
<1>3. CASE ~Write
  <2>1. settled
    BY <1>3 DEF Driver, close, connect, ConnectFails, StartCall, DrainFrame,
        Drained, RegisterWrite, ReadDamaged, ReadOther, RegisterAck,
        ProtocolAck, ReadAck, ReadPart, ReadLine, Reads, TimeOut,
        TimeOutWithText, ReadFails, KeepsConnection
  <2>t. /\ usb_in \in Seq(Own) /\ owed \in Seq(Own)
        /\ todo \in Seq(OwnRequest(call.id)) /\ job \subseteq {call.id}
        /\ pending_text \in Own /\ accepted_line \in Own
    BY <2>1 DEF OnlyOwnAnswers
  <2>2. usb_in' \in Seq(Own)
    BY <2>t, DriverLeaves, ShortenedOver
  <2>3. owed' \in Seq(Own) /\ todo' \in Seq(OwnRequest(call.id))
    <3>1. CASE RegisterWrite
      <4>1. call.id \in Ids
        BY <3>1 DEF RegisterWrite, CallUnderway
      <4>2. Append(owed, Plain("setup ack", {call.id})) \in Seq(Own)
        BY <2>t, <4>1, OwnPlain, AppendOver
      <4> QED BY <2>t, <3>1, <4>2 DEF RegisterWrite
    <3> QED BY <1>3, <2>t, <3>1, DriverLeaves
  <2>4. pending_text' \in Own /\ accepted_line' \in Own
    <3>e. ASSUME NEW kind, NEW line, NEW of, Ends(kind, line, of)
          PROVE  pending_text' \in Own /\ accepted_line' \in Own
      BY <1>n, <3>e DEF Ends, FreshLocals
    <3>1. CASE close \/ connect \/ ConnectFails \/ DrainFrame \/ Drained
                 \/ RegisterWrite
      BY <2>t, <3>1, <3>e DEF close, connect, ConnectFails, DrainFrame, Drained,
           RegisterWrite, GoesOn, EndsWithout, driverVars, callVars
    <3>2. CASE ReadDamaged \/ ReadOther \/ RegisterAck \/ ProtocolAck
      BY <2>t, <3>2, <3>e DEF ReadDamaged, ReadOther, RegisterAck, ProtocolAck,
           GoesOn, EndsWithout, callVars
    <3>3. CASE ReadAck
      BY <2>t, <3>3, <3>e DEF ReadAck
    <3>4. CASE ReadPart
      <4>1. Received \in Own
        BY <2>t, <3>4, TailOver DEF ReadPart, Reads, Received
      <4> QED BY <2>t, <3>4, <4>1 DEF ReadPart
    <3>5. CASE ReadLine
      <4>1. Received \in Own /\ Received.kind = "text"
        BY <2>t, <3>5, TailOver DEF ReadLine, Reads, Received
      <4>2. Received \in Frame /\ Received.of # {} /\ Received.of \subseteq {call.id}
        BY <4>1 DEF OwnFrame, GoodFrame
      <4>3. Received.of \in SUBSET Ids
        BY <4>2 DEF Frame
      <4>4. "whole" \in Parts
        BY DEF Parts
      <4>5. Text(Completed(Received), "whole", Received.of) \in Own
        BY <4>2, <4>3, <4>4, CompletedIsLine, OwnText
      <4> QED BY <1>n, <2>t, <3>5, <3>e, <4>5 DEF ReadLine
    <3>6. CASE TimeOut \/ TimeOutWithText \/ ReadFails
      BY <3>6, <3>e DEF TimeOut, TimeOutWithText, ReadFails, EndsWithout
    <3>7. ~StartCall
      BY DEF StartCall
    <3> QED BY <1>3, <3>1, <3>2, <3>3, <3>4, <3>5, <3>6, <3>7 DEF Driver
  <2> QED BY <1>1, <2>t, <2>2, <2>3, <2>4, DriverLeaves
<1> QED BY <1>2, <1>3

-----------------------------------------------------------------------------
(* The local variables *)

LEMMA LocalsStep == TypeOK /\ CallUnderway /\ Locals /\ Runs => Locals'
<1> SUFFICES ASSUME TypeOK, CallUnderway, Locals, Runs PROVE Locals'
  OBVIOUS
<1>1. CASE Device
  BY <1>1, DeviceLeaves DEF Locals, driverVars, callVars
<1>e. ASSUME NEW kind, NEW line, NEW of, Ends(kind, line, of) PROVE Locals'
  BY <1>e DEF Ends, FreshLocals, Locals
<1>2. CASE close \/ connect \/ ConnectFails \/ StartCall
  <2>1. pc # "wait"
    BY <1>2 DEF close, connect, ConnectFails, StartCall
  <2>2. accepted_line' = NoFrame /\ pending_text' = NoFrame
    BY <1>2, <2>1 DEF close, connect, ConnectFails, StartCall, Locals, GoesOn,
                      EndsWithout, Ends, FreshLocals, callVars
  <2> QED BY <2>2 DEF Locals
<1>3. CASE DrainFrame \/ Drained \/ RegisterWrite \/ Write
  <2>1. pc # "wait"
    BY <1>3 DEF DrainFrame, Drained, RegisterWrite, Write, Draining
  <2>2. accepted_line' = NoFrame /\ pending_text' = NoFrame
    BY <1>3, <2>1 DEF DrainFrame, Drained, RegisterWrite, Write, Locals, GoesOn,
                      EndsWithout, Ends, FreshLocals, driverVars, callVars
  <2> QED BY <2>2 DEF Locals
<1>4. CASE ReadDamaged \/ ProtocolAck \/ TimeOut \/ TimeOutWithText \/ ReadFails
  BY <1>4, <1>e DEF ReadDamaged, ProtocolAck, TimeOut, TimeOutWithText,
                    ReadFails, EndsWithout
<1>5. CASE ReadOther
  BY <1>5 DEF ReadOther, Reads, Continues, Locals, callVars
<1>6. CASE RegisterAck
  <2>1. CASE GoesOn("drain")
    BY <1>6, <2>1 DEF RegisterAck, Reads, GoesOn, Locals, callVars
  <2> QED BY <1>6, <1>e, <2>1 DEF RegisterAck
<1>7. CASE ReadAck
  <2>1. CASE Continues /\ UNCHANGED <<accepted_line, pending_text>>
    BY <1>7, <2>1 DEF ReadAck, Reads, Continues, Locals
  <2> QED BY <1>7, <1>e, <2>1 DEF ReadAck
<1>8. CASE ReadPart
  BY <1>8 DEF ReadPart, Reads, Continues, Locals
<1>9. CASE ReadLine
  <2>1. CASE /\ accepts(call.cmd, Completed(Received))
             /\ accepted_line' = Text(Completed(Received), "whole", Received.of)
             /\ pending_text' = NoFrame /\ Continues
    <3>1. accepted_line'.kind = "text"
          /\ accepts(call.cmd, accepted_line'.line)
      BY <2>1 DEF Text
    <3>2. pc' = "wait" /\ UNCHANGED call /\ call.api \in WaitsForLine
      BY <1>9, <2>1 DEF ReadLine, Reads, Continues
    <3> QED BY <2>1, <3>1, <3>2 DEF Locals
  <2>2. CASE UNCHANGED accepted_line /\ pending_text' = NoFrame /\ Continues
    BY <1>9, <2>2 DEF ReadLine, Reads, Continues, Locals
  <2> QED BY <1>9, <1>e, <2>1, <2>2 DEF ReadLine
<1> QED BY <1>1, <1>2, <1>3, <1>4, <1>5, <1>6, <1>7, <1>8, <1>9 DEF Runs, Driver

-----------------------------------------------------------------------------
(* The outcome *)

LEMMA OutcomeStep ==
  /\ TypeOK /\ CallUnderway /\ AnswersHaveSubject /\ OnlyOwnAnswers /\ Locals
  /\ Outcome /\ Runs
  => Outcome'
<1> SUFFICES ASSUME TypeOK, CallUnderway, AnswersHaveSubject, OnlyOwnAnswers,
                    Locals, Outcome, Runs
             PROVE  Outcome'
  OBVIOUS
<1>1. CASE Device
  BY <1>1, DeviceLeaves DEF Outcome, BetweenCalls, driverVars
<1>w. ASSUME NEW kind, EndsWithout(kind), kind \notin {"ok", "lua error"}
      PROVE  Outcome'
  BY <1>w DEF EndsWithout, Ends, Outcome
<1>b. ASSUME pc' \notin {"idle", "connect"} PROVE Outcome'
  BY <1>b DEF Outcome, BetweenCalls
<1>k. ASSUME BetweenCalls, UNCHANGED <<outcome, call, settled>> PROVE Outcome'
  BY <1>k DEF Outcome
<1>f. ASSUME Reads, Received.kind \in {"ack", "setup ack", "pong", "text"}
      PROVE  UNCHANGED <<call, settled>> /\ (settled => Received.of = {call.id})
  <2>1. usb_in # <<>> /\ usb_in \in Seq(GoodFrame)
        /\ (settled => usb_in \in Seq(OwnFrame(call.id)))
    BY <1>f DEF Reads, AnswersHaveSubject, OnlyOwnAnswers
  <2>2. Received \in GoodFrame /\ (settled => Received \in OwnFrame(call.id))
    BY <2>1, TailOver DEF Received
  <2>3. Received.of # {} /\ (settled => Received.of \subseteq {call.id})
    BY <1>f, <2>2 DEF GoodFrame, OwnFrame
  <2> QED BY <1>f, <2>3 DEF Reads
<1>2. CASE close \/ connect \/ DrainFrame
  BY <1>2, <1>b, <1>k DEF close, connect, DrainFrame, GoesOn, BetweenCalls,
       Draining, driverVars
<1>3. CASE Drained
  <2>1. CASE pc = "connect"
    BY <1>3, <2>1, <1>k DEF Drained, GoesOn, BetweenCalls
  <2>2. CASE pc # "connect"
    BY <1>3, <2>2, <1>b DEF Drained, GoesOn, Draining
  <2> QED BY <2>1, <2>2
<1>4. CASE ConnectFails \/ ReadDamaged \/ TimeOut \/ ReadFails
  BY <1>4, <1>w DEF ConnectFails, ReadDamaged, TimeOut, ReadFails
<1>5. CASE StartCall \/ RegisterWrite \/ Write
  <2>1. \/ EndsWithout("usb error")
        \/ GoesOn("register drain") \/ GoesOn("drain")
        \/ GoesOn("register wait") \/ GoesOn("wait")
    BY <1>5 DEF StartCall, RegisterWrite, Write
  <2> QED BY <2>1, <1>b, <1>w DEF GoesOn
<1>6. CASE ReadOther \/ ReadPart
  BY <1>6, <1>b DEF ReadOther, ReadPart, Continues
<1>7. CASE RegisterAck
  <2>1. CASE Ends("ok", NoLine, Received.of) /\ call.api = "register_lua_miso"
    <3>1. UNCHANGED <<call, settled>> /\ (settled => Received.of = {call.id})
      BY <1>7, <1>f DEF RegisterAck
    <3>2. call.api \notin WaitsForLine
      BY <2>1 DEF WaitsForLine
    <3> QED BY <2>1, <3>1, <3>2 DEF Ends, Outcome
  <2>2. CASE GoesOn("drain")
    BY <2>2, <1>b DEF GoesOn
  <2> QED BY <1>7, <2>1, <2>2 DEF RegisterAck
<1>8. CASE ProtocolAck
  <2>1. Received.kind \in {"ack", "pong", "text"}
    BY <1>8 DEF ProtocolAck, Awaited
  <2>2. UNCHANGED <<call, settled>> /\ (settled => Received.of = {call.id})
    BY <1>8, <1>f, <2>1 DEF ProtocolAck
  <2> QED BY <1>8, <2>2 DEF ProtocolAck, Ends, Outcome
<1>9. CASE ReadAck
  <2>1. CASE accepted_line # NoFrame
             /\ Ends("ok", accepted_line.line, accepted_line.of)
    <3>1. UNCHANGED <<call, settled>>
      BY <1>9 DEF ReadAck, Reads
    <3>2. settled => accepted_line.of = {call.id}
      BY <2>1 DEF Locals, OnlyOwnAnswers, OwnFrame, GoodFrame
    <3>3. accepts(call.cmd, accepted_line.line)
      BY <2>1 DEF Locals
    <3> QED BY <2>1, <3>1, <3>2, <3>3 DEF Ends, Outcome
  <2>2. CASE Continues
    BY <1>9, <2>2, <1>b DEF ReadAck, Continues
  <2> QED BY <1>9, <2>1, <2>2 DEF ReadAck
<1>10. CASE ReadLine
  <2>1. UNCHANGED <<call, settled>> /\ (settled => Received.of = {call.id})
    BY <1>10, <1>f DEF ReadLine
  <2>2. CASE Ends("lua error", Completed(Received), Received.of)
    BY <2>1, <2>2 DEF Ends, Outcome
  <2>3. CASE Ends("ok", Completed(Received), Received.of)
             /\ accepts(call.cmd, Completed(Received))
    BY <2>1, <2>3 DEF Ends, Outcome
  <2>4. CASE Continues
    BY <1>10, <2>4, <1>b DEF ReadLine, Continues
  <2> QED BY <1>10, <2>2, <2>3, <2>4 DEF ReadLine
<1>11. CASE TimeOutWithText
  <2>1. UNCHANGED <<call, settled>>
    BY <1>11 DEF TimeOutWithText, KeepsConnection
  <2>2. pending_text # NoFrame
    <3>1. pending_text.part = "head"
      BY <1>11 DEF TimeOutWithText
    <3>2. NoFrame.part = "whole"
      BY DEF NoFrame, Plain
    <3> QED BY <3>1, <3>2
  <2>3. settled => pending_text.of = {call.id}
    BY <2>2 DEF Locals, OnlyOwnAnswers, OwnFrame, GoodFrame
  <2>4. CASE Ends("lua error", pending_text.line, pending_text.of)
    BY <2>1, <2>3, <2>4 DEF Ends, Outcome
  <2>5. CASE Ends("ok", pending_text.line, pending_text.of)
             /\ accepts(call.cmd, pending_text.line)
    BY <2>1, <2>3, <2>5 DEF Ends, Outcome
  <2>6. CASE Ends(ShortText, pending_text.line, pending_text.of)
    <3>1. ShortText \notin {"ok", "lua error"}
      BY DEF ShortText
    <3> QED BY <2>6, <3>1 DEF Ends, Outcome
  <2>7. CASE EndsWithout("timeout")
    BY <2>7, <1>w
  <2> QED BY <1>11, <2>4, <2>5, <2>6, <2>7 DEF TimeOutWithText
<1> QED
  BY <1>1, <1>2, <1>3, <1>4, <1>5, <1>6, <1>7, <1>8, <1>9, <1>10, <1>11
     DEF Runs, Driver

-----------------------------------------------------------------------------
(* Text reports *)

LEMMA ReportingStep == TypeOK /\ Reporting /\ Runs => Reporting'
<1> SUFFICES ASSUME TypeOK, Reporting, Runs PROVE Reporting'
  OBVIOUS
<1> DEFINE Vouched(f) == f.kind = "setup ack" => putchar'
<1>t. usb_in \in Seq(Frame)
  BY DEF TypeOK
<1>q. ASSUME NEW f, Queue(f), Vouched(f), putchar => putchar'
      PROVE  \A i \in DOMAIN usb_in' : Vouched(usb_in'[i])
  <2> SUFFICES ASSUME NEW i \in DOMAIN usb_in' PROVE Vouched(usb_in'[i])
    OBVIOUS
  <2>1. \/ i \in DOMAIN usb_in /\ usb_in'[i] = usb_in[i]
        \/ usb_in'[i] = f
    BY <1>t, <1>q, AppendEach DEF Queue
  <2>2. CASE i \in DOMAIN usb_in /\ usb_in'[i] = usb_in[i]
    BY <1>q, <2>2 DEF Reporting
  <2>3. CASE usb_in'[i] = f
    BY <1>q, <2>3
  <2> QED BY <2>1, <2>2, <2>3
<1>1. CASE Device
  <2>1. UNCHANGED <<connected, pc, lua_miso_registered, handle>>
    BY <1>1, DeviceLeaves DEF driverVars, plugVars
  <2>2. putchar => putchar'
    BY <1>1 DEF Device, SendOwed, TakeCommands, PrintPart, PrintLine, Report,
                deviceVars
  <2>3. CASE SendOwed
    BY <1>q, <2>1, <2>2, <2>3 DEF SendOwed, Reporting
  <2>4. CASE TakeCommands
    BY <2>1, <2>4 DEF TakeCommands, Reporting
  <2>5. CASE PrintPart
    <3>1. Vouched(Text(Head(speech), cut', job))
      BY DEF Text
    <3> QED BY <1>q, <2>1, <2>2, <2>5, <3>1 DEF PrintPart, Reporting
  <2>6. CASE PrintLine
    <3>1. \/ UNCHANGED usb_in
          \/ \E part : Queue(Text(Head(speech), part, job))
      BY <2>6 DEF PrintLine
    <3>2. \A part : Vouched(Text(Head(speech), part, job))
      BY DEF Text
    <3>3. CASE UNCHANGED usb_in
      BY <2>1, <2>2, <3>3 DEF Reporting
    <3> QED BY <1>q, <2>1, <2>2, <3>1, <3>2, <3>3 DEF Reporting
  <2>7. CASE Report
    <3>1. PICK kind \in {"report", "bad"} : Queue(Plain(kind, {}))
      BY <2>7 DEF Report
    <3>2. Vouched(Plain(kind, {}))
      BY DEF Plain
    <3> QED BY <1>q, <2>1, <2>2, <3>1, <3>2 DEF Reporting
  <2> QED BY <1>1, <2>3, <2>4, <2>5, <2>6, <2>7 DEF Device
<1>2. CASE Driver
  <2>1. UNCHANGED putchar
    BY <1>2, DriverLeaves
  <2>2. \A i \in DOMAIN usb_in' : Vouched(usb_in'[i])
    <3>1. CASE UNCHANGED usb_in
      BY <2>1, <3>1 DEF Reporting
    <3>2. CASE Shortened
      BY <1>t, <2>1, <3>2, ShortenedOver DEF Reporting
    <3> QED BY <1>2, <3>1, <3>2, DriverLeaves
  <2>3. /\ lua_miso_registered' /\ handle' = "live" => putchar'
        /\ ~connected' \/ pc' = "connect" => ~lua_miso_registered'
        /\ connected' \/ pc' \in {"idle", "connect"}
    <3>1. CASE RegisterAck
      <4>1. Received.kind = "setup ack" /\ usb_in # <<>> /\ pc = "register wait"
        BY <3>1 DEF RegisterAck, Reads
      <4>2. 1 \in DOMAIN usb_in /\ Received = usb_in[1]
        BY <1>t, <4>1, FirstOver DEF Received
      <4>3. connected' /\ pc' # "connect"
        BY <3>1, <4>1 DEF RegisterAck, Reads, Ends, GoesOn, Reporting
      <4> QED BY <2>1, <4>1, <4>2, <4>3 DEF Reporting
    <3>2. CASE close \/ connect \/ ConnectFails \/ Drained
      <4>1. CASE close \/ connect \/ ConnectFails
        <5>1. ~lua_miso_registered'
          BY <4>1 DEF close, connect, ConnectFails, Reporting
        <5>2. pc' \in {"idle", "connect"}
          BY <4>1 DEF close, connect, ConnectFails, GoesOn, EndsWithout, Ends
        <5> QED BY <5>1, <5>2
      <4>2. CASE Drained /\ pc = "connect"
        BY <4>2 DEF Drained
      <4>3. CASE Drained /\ pc # "connect"
        <5>1. /\ connected /\ connected' /\ pc' # "connect" /\ UNCHANGED handle
              /\ lua_miso_registered' => lua_miso_registered
          BY <4>3 DEF Drained, Draining, GoesOn, NoDevice, deviceVars, plugVars,
             Reporting
        <5> QED BY <2>1, <5>1 DEF Reporting
      <4> QED BY <3>2, <4>1, <4>2, <4>3
    <3>3. ASSUME UNCHANGED <<connected, lua_miso_registered, handle>>,
                 pc' = "connect" => pc = "connect",
                 pc' \in {"idle", "connect"} \/ connected
          PROVE  /\ lua_miso_registered' /\ handle' = "live" => putchar'
                 /\ ~connected' \/ pc' = "connect" => ~lua_miso_registered'
                 /\ connected' \/ pc' \in {"idle", "connect"}
      BY <2>1, <3>3 DEF Reporting
    <3>4. CASE StartCall \/ DrainFrame \/ RegisterWrite \/ Write
      <4>1. pc' = "connect" => pc = "connect"
        BY <3>4 DEF StartCall, DrainFrame, RegisterWrite, Write, driverVars,
             GoesOn, EndsWithout, Ends
      <4>2. pc' \in {"idle", "connect"} \/ connected
        BY <3>4 DEF StartCall, DrainFrame, RegisterWrite, Write, driverVars,
             EndsWithout, Ends, Reporting
      <4> QED
        BY <3>3, <3>4, <4>1, <4>2 DEF StartCall, DrainFrame, RegisterWrite, Write,
           driverVars, NoDevice, deviceVars, plugVars
    <3>d. CASE ReadDamaged
      BY <3>3, <3>d DEF ReadDamaged, EndsWithout, Ends, deviceVars, plugVars
    <3>5. CASE ReadOther \/ ProtocolAck \/ ReadAck \/ ReadPart \/ ReadLine
      <4>1. Reads /\ UNCHANGED lua_miso_registered
        BY <3>5 DEF ReadOther, ProtocolAck, ReadAck, ReadPart, ReadLine
      <4>2. pc' = "idle" \/ pc' = pc
        BY <3>5 DEF ReadOther, ProtocolAck, ReadAck, ReadPart, ReadLine,
             EndsWithout, Ends, Continues
      <4> QED
        BY <3>3, <4>1, <4>2 DEF Reads, deviceVars, plugVars, Reporting
    <3>6. CASE TimeOut \/ TimeOutWithText \/ ReadFails
      BY <3>3, <3>6 DEF TimeOut, TimeOutWithText, ReadFails, KeepsConnection,
         NoDevice, deviceVars, plugVars, EndsWithout, Ends
    <3> QED BY <1>2, <3>1, <3>2, <3>4, <3>d, <3>5, <3>6 DEF Driver
  <2> QED BY <2>2, <2>3 DEF Reporting
<1> QED BY <1>1, <1>2 DEF Runs

-----------------------------------------------------------------------------
(* The theorems *)

LEMMA ReplugInv == Inv /\ Replug => Inv'
<1> SUFFICES ASSUME Inv, Replug PROVE Inv'
  OBVIOUS
<1>1. TypeOK'
  BY ReplugTypes DEF Inv
<1>2. /\ UNCHANGED <<driverVars, settled, calls>>
      /\ usb_in' = <<>> /\ owed' = <<>> /\ todo' = <<>> /\ job' = {} /\ speech' = <<>>
      /\ handle' = "dead"
  BY DEF Replug
<1>3. CallUnderway' /\ Locals' /\ Outcome'
  BY <1>2 DEF Inv, CallUnderway, Locals, Outcome, BetweenCalls, driverVars, callVars
<1>4. AnswersHaveSubject'
  BY <1>2 DEF AnswersHaveSubject
<1>6. Reporting'
  <2>1. /\ connected' = connected /\ pc' = pc /\ handle' = "dead"
        /\ lua_miso_registered' = lua_miso_registered
    BY DEF Replug, driverVars
  <2>2. DOMAIN <<>> = {}
    OBVIOUS
  <2> QED BY <1>2, <2>1, <2>2 DEF Inv, Reporting
<1>5. OnlyOwnAnswers'
  BY <1>2 DEF Inv, OnlyOwnAnswers, driverVars, callVars
<1> QED BY <1>1, <1>3, <1>4, <1>5, <1>6 DEF Inv

LEMMA InitInv == Init => Inv
<1> SUFFICES ASSUME Init PROVE Inv
  OBVIOUS
<1>1. TypeOK
  BY InitTypes
<1>2. CallUnderway
  BY DEF Init, CallUnderway, SendsCommand, WaitsForLine
<1>3. AnswersHaveSubject
  BY DEF Init, AnswersHaveSubject
<1>4. OnlyOwnAnswers
  BY DEF Init, OnlyOwnAnswers
<1>5. Locals
  BY DEF Init, Locals
<1>6. Outcome
  BY DEF Init, Outcome
<1>7. Reporting
  BY DEF Init, Reporting
<1> QED BY <1>1, <1>2, <1>3, <1>4, <1>5, <1>6, <1>7 DEF Inv

LEMMA StutterInv == Inv /\ UNCHANGED vars => Inv'
<1> SUFFICES ASSUME Inv, UNCHANGED vars PROVE Inv'
  OBVIOUS
<1>1. TypeOK'
  BY DEF Inv, TypeOK, vars, driverVars, callVars, deviceVars, plugVars
<1>2. CallUnderway' /\ Locals' /\ Outcome'
  BY DEF Inv, CallUnderway, Locals, Outcome, BetweenCalls, vars, driverVars,
         callVars, deviceVars
<1>3. AnswersHaveSubject' /\ OnlyOwnAnswers' /\ Reporting'
  BY DEF Inv, AnswersHaveSubject, OnlyOwnAnswers, Reporting, vars, driverVars,
         callVars, deviceVars, plugVars
<1> QED BY <1>1, <1>2, <1>3 DEF Inv

\* Every step of a call, of the set-up, of connect and close, and every step
\* of the device keeps the invariant.
LEMMA NextInv == Inv /\ [Next]_vars => Inv'
<1> SUFFICES ASSUME Inv, Runs PROVE Inv'
  BY StutterInv, ReplugInv DEF Next, Runs
<1>1. TypeOK'
  BY DeviceTypes, DriverTypes DEF Inv, Runs
<1>2. OnlyOwnAnswers'
  BY OwnDevice, OwnDriver DEF Inv, Runs
<1>3. CallUnderway' /\ AnswersHaveSubject' /\ Locals' /\ Outcome' /\ Reporting'
  BY CallUnderwayStep, SubjectsStep, LocalsStep, OutcomeStep, ReportingStep DEF Inv
<1> QED BY <1>1, <1>2, <1>3 DEF Inv

LEMMA Invariance == Spec => []Inv
BY InitInv, NextInv, PTL DEF Spec

\* Variables of the driver, the wire and the device keep their types through
\* every sequence of calls of controller.py.
THEOREM TypeCorrect == Spec => []TypeOK
<1>1. Inv => TypeOK
  BY DEF Inv
<1> QED BY <1>1, Invariance, PTL

\* A call of controller.py that wrote its command when nothing was owed to an
\* earlier one returns, or raises, an answer to that very command, however the
\* device delays, splits or damages what it sends, and whatever was drained.
THEOREM AnswersCorrect == Spec => []AnswerIsAboutCall
<1>1. Inv => AnswerIsAboutCall
  BY DEF Inv, Outcome, BetweenCalls, AnswerIsAboutCall, Returned
<1> QED BY <1>1, Invariance, PTL

\* set_voltage_result never returns the result of another voltage, nor
\* lua_ping_result anything but PONG:KT002, late answers or not.
THEOREM ResultsMatch == Spec => []OkMatchesRequest
<1>1. Inv => OkMatchesRequest
  BY DEF Inv, Outcome, BetweenCalls, OkMatchesRequest, accepts
<1> QED BY <1>1, Invariance, PTL

\* What the driver holds registered, the device it can talk to reports, however
\* often the KT002 is pulled out and plugged in again: the flag a dead handle
\* leaves behind is gone before another handle is open, even one whose connect
\* failed half way.  So no call waits for lines of a device that was never asked
\* to send them; over the dead handle it raises instead.
THEOREM RegistrationCorrect == Spec => []RegisteredMeansReporting
<1>1. Inv => RegisteredMeansReporting
  BY DEF Inv, Reporting, RegisteredMeansReporting
<1> QED BY <1>1, Invariance, PTL

-----------------------------------------------------------------------------
(* What an exchange leaves behind *)

\* A call waits for its line, and nothing was owed to another one.
Asked == pc = "wait" /\ settled /\ call.api \in WaitsForLine

\* A text frame with the line the call accepts, and the text with its rest.
Finishes(f) == f.kind = "text" /\ accepts(call.cmd, f.line)
RestOf(f, g) == \/ f.part = "head" /\ g.part = "rest of head"
                \/ f.part = "stub" /\ g.part = "rest of stub"

\* A line is cut while it is printed, and an ACK is received while it is
\* waited for.
CutLine == cut # "none" => speech # <<>>
NoAckBefore == pc # "wait" => ack_received = FALSE

\* The wire carries one ACK for the call, and lines: the ACK is owed, or
\* queued, or received.
AckOnce ==
  Asked =>
    /\ \A i \in DOMAIN usb_in : usb_in[i].of = {} \/ usb_in[i].kind \in {"ack", "text"}
    /\ owed # <<>> => Len(owed) = 1 /\ owed[1].kind = "ack" /\ ack_received = FALSE
    /\ \A i \in DOMAIN usb_in :
         usb_in[i].kind = "ack" => owed = <<>> /\ ack_received = FALSE
    /\ \A i, j \in DOMAIN usb_in :
         usb_in[i].kind = "ack" /\ usb_in[j].kind = "ack" => i = j

\* Until the Lua program has read the command it has said nothing.
CommandOnce ==
  Asked /\ todo # <<>> =>
    /\ Len(todo) = 1 /\ todo[1].cmd = call.cmd
    /\ speech = <<>> /\ accepted_line = NoFrame /\ pending_text = NoFrame
    /\ \A i \in DOMAIN usb_in : usb_in[i].kind # "text"

\* The line the call accepts is the last one the program prints: in what it has
\* still to print, on the wire, and in what the call has read.
SaidBy(f) == speech = <<>> \/ (Len(speech) = 1 /\ cut = f.part)
SpeechLast ==
  Asked => \A i \in DOMAIN speech : accepts(call.cmd, speech[i]) => i = Len(speech)
WireLast ==
  Asked =>
    \A i \in DOMAIN usb_in : Finishes(usb_in[i]) =>
      /\ SaidBy(usb_in[i])
      /\ \A j \in DOMAIN usb_in :
           i < j /\ usb_in[j].kind = "text" => RestOf(usb_in[i], usb_in[j])
AcceptedLast ==
  Asked /\ accepted_line # NoFrame =>
    speech = <<>> /\ \A j \in DOMAIN usb_in : usb_in[j].kind # "text"
PendingLast ==
  Asked /\ Finishes(pending_text) =>
    /\ SaidBy(pending_text)
    /\ \A j \in DOMAIN usb_in :
         usb_in[j].kind = "text" => RestOf(pending_text, usb_in[j])

\* OkLeavesNothing, kept while the user reconnects.
Nothing ==
  /\ owed = <<>> /\ todo = <<>>
  /\ speech = <<>> \/ (Len(speech) = 1 /\ cut = "head")
  /\ \A i \in DOMAIN usb_in :
       usb_in[i].of = {} \/ usb_in[i].part = "rest of head"
NothingLeft ==
  BetweenCalls /\ settled /\ outcome.kind = "ok" /\ call.api \in WaitsForLine =>
    Nothing

Exchange == /\ CutLine /\ NoAckBefore /\ AckOnce /\ CommandOnce
            /\ SpeechLast /\ WireLast /\ AcceptedLast /\ PendingLast
            /\ NothingLeft

LEMMA WireGrows ==
  ASSUME usb_in \in Seq(Frame), NEW f, Queue(f)
  PROVE  /\ \A i \in DOMAIN usb_in' :
              \/ i \in DOMAIN usb_in /\ usb_in'[i] = usb_in[i]
              \/ i = Len(usb_in) + 1 /\ usb_in'[i] = f
         /\ \A i, j \in DOMAIN usb_in' :
              i < j => i \in DOMAIN usb_in /\ usb_in'[i] = usb_in[i]
<1>1. \A i \in DOMAIN usb_in' :
        \/ i \in DOMAIN usb_in /\ usb_in'[i] = usb_in[i]
        \/ i = Len(usb_in) + 1 /\ usb_in'[i] = f
  BY DEF Queue
<1>2. DOMAIN usb_in' = 1..(Len(usb_in) + 1) /\ Len(usb_in) \in Nat
  BY DEF Queue
<1>3. \A i, j \in DOMAIN usb_in' : i < j => i # Len(usb_in) + 1
  BY <1>2
<1> QED BY <1>1, <1>3

LEMMA WireShrinks ==
  ASSUME usb_in \in Seq(Frame), usb_in # <<>>, usb_in' = Tail(usb_in)
  PROVE  /\ 1 \in DOMAIN usb_in /\ Received = usb_in[1]
         /\ \A i \in DOMAIN usb_in' :
              /\ i \in Nat /\ 1 < i + 1
              /\ i + 1 \in DOMAIN usb_in /\ usb_in'[i] = usb_in[i + 1]
<1>1. 1 \in DOMAIN usb_in /\ Received = usb_in[1]
  BY FirstOver DEF Received
<1>2. \A i \in DOMAIN usb_in' :
        i + 1 \in DOMAIN usb_in /\ usb_in'[i] = usb_in[i + 1]
  BY TailOver
<1>3. usb_in' \in Seq(Frame)
  BY TailOver
<1>4. \A i \in DOMAIN usb_in' : i \in Nat /\ 1 < i + 1
  BY <1>3
<1> QED BY <1>1, <1>2, <1>4

\* Only the last line of an answer is one that a call accepts.
LEMMA SpeechEnds ==
  ASSUME NEW c \in Command, NEW s \in Speeches(c), NEW i \in DOMAIN s,
         accepts(c, s[i])
  PROVE  i = Len(s)
<1>1. \/ \E l \in Answers(c) : s = <<l>>
      \/ \E l \in Answers(c) : s = <<Say("PD_INITIALIZED", NoVoltage), l>>
      \/ \E l \in Answers(c) : s = <<Say("TRACE_NO_PDO", NoVoltage), l>>
  BY DEF Speeches
<1>2. CASE \E l : s = <<l>>
  BY <1>2
<1>3. CASE \E k, l : s = <<k, l>> /\ ~accepts(c, k)
  <2>1. PICK k, l : s = <<k, l>> /\ ~accepts(c, k)
    BY <1>3
  <2>2. DOMAIN s = 1..2 /\ Len(s) = 2 /\ s[1] = k
    BY <2>1
  <2>3. i = 1 \/ i = 2
    BY <2>2
  <2> QED BY <2>1, <2>2, <2>3
<1>4. /\ ~accepts(c, Say("PD_INITIALIZED", NoVoltage))
      /\ ~accepts(c, Say("TRACE_NO_PDO", NoVoltage))
  BY DEF accepts, Say
<1> QED BY <1>1, <1>2, <1>3, <1>4

\* The frames of the device.
LEMMA FrameFields ==
  /\ \A kind, of : Plain(kind, of).kind = kind /\ Plain(kind, of).of = of
  /\ \A l, p, of : /\ Text(l, p, of).kind = "text" /\ Text(l, p, of).line = l
                   /\ Text(l, p, of).part = p
BY DEF Plain, Text

\* What the steps of the device leave of the call.
LEMMA DeviceKeeps ==
  ASSUME Device
  PROVE  /\ UNCHANGED <<pc, call, ack_received, accepted_line, pending_text, outcome,
                        settled>>
         /\ Asked' = Asked /\ (\A f : Finishes(f)' = Finishes(f))
         /\ BetweenCalls' = BetweenCalls
<1>1. UNCHANGED <<pc, call, ack_received, accepted_line, pending_text, outcome, settled>>
  BY DeviceLeaves DEF driverVars, callVars
<1> QED BY <1>1 DEF Asked, Finishes, BetweenCalls, accepts

LEMMA DeviceAcks ==
  TypeOK /\ AckOnce /\ Device => AckOnce'
<1> SUFFICES ASSUME TypeOK, AckOnce, Device, Asked PROVE AckOnce'
  BY DeviceKeeps DEF AckOnce
<1> USE FrameFields
<1>t. usb_in \in Seq(Frame) /\ owed \in Seq(Frame)
  BY DEF TypeOK
<1>k. ack_received' = ack_received
  BY DeviceKeeps
<1>1. CASE SendOwed
  <2>1. owed # <<>> /\ Queue(Head(owed)) /\ owed' = Tail(owed)
    BY <1>1 DEF SendOwed
  <2>2. Head(owed) = owed[1]
    BY <1>t, <2>1, FirstOver
  <2>3. /\ Len(owed) = 1 /\ owed[1].kind = "ack" /\ ack_received = FALSE
        /\ \A i \in DOMAIN usb_in : usb_in[i].kind # "ack"
    BY <2>1 DEF AckOnce
  <2>4. owed' = <<>>
    BY <1>t, <2>1, <2>3, LastLeavesNone
  <2>5. \A i \in DOMAIN usb_in' :
          \/ i \in DOMAIN usb_in /\ usb_in'[i] = usb_in[i]
          \/ i = Len(usb_in) + 1 /\ usb_in'[i] = owed[1]
    BY <1>t, <2>1, <2>2, WireGrows
  <2> QED BY <1>k, <2>3, <2>4, <2>5 DEF AckOnce
<1>q. ASSUME NEW f, Queue(f), owed' = owed, f.kind # "ack", f.kind = "text" \/ f.of = {}
      PROVE  AckOnce'
  <2>1. \A i \in DOMAIN usb_in' :
          \/ i \in DOMAIN usb_in /\ usb_in'[i] = usb_in[i]
          \/ i = Len(usb_in) + 1 /\ usb_in'[i] = f
    BY <1>t, <1>q, WireGrows
  <2> QED BY <1>k, <1>q, <2>1 DEF AckOnce
<1>2. CASE TakeCommands
  BY <1>2, <1>k DEF TakeCommands, AckOnce
<1>3. CASE PrintPart
  BY <1>3, <1>q DEF PrintPart
<1>4. CASE PrintLine
  <2>1. UNCHANGED usb_in \/ (\E part : Queue(Text(Head(speech), part, job)))
    BY <1>4 DEF PrintLine
  <2>2. owed' = owed
    BY <1>4 DEF PrintLine
  <2>3. CASE UNCHANGED usb_in
    BY <1>k, <2>2, <2>3 DEF AckOnce
  <2> QED BY <1>q, <2>1, <2>2, <2>3
<1>5. CASE Report
  <2>1. PICK kind \in {"report", "bad"} : Queue(Plain(kind, {}))
    BY <1>5 DEF Report
  <2>2. owed' = owed
    BY <1>5 DEF Report, deviceVars
  <2> QED BY <1>q, <2>1, <2>2
<1> QED BY <1>1, <1>2, <1>3, <1>4, <1>5 DEF Device

LEMMA DeviceCommand ==
  TypeOK /\ AckOnce /\ CommandOnce /\ Device => CommandOnce'
<1> SUFFICES ASSUME TypeOK, AckOnce, CommandOnce, Device, Asked, todo' # <<>>
             PROVE  CommandOnce'
  BY DeviceKeeps DEF CommandOnce
<1> USE FrameFields
<1>t. usb_in \in Seq(Frame) /\ owed \in Seq(Frame) /\ todo \in Seq(Request)
  BY DEF TypeOK
<1>1. ~TakeCommands
  <2> SUFFICES ASSUME TakeCommands PROVE FALSE
    OBVIOUS
  <2>1. Len(todo) = 1 /\ todo' = Tail(todo)
    BY DEF TakeCommands, CommandOnce
  <2> QED BY <1>t, <2>1, LastLeavesNone
<1>2. todo' = todo
  BY <1>1 DEF Device, SendOwed, PrintPart, PrintLine, Report, deviceVars
<1>3. /\ Len(todo) = 1 /\ todo[1].cmd = call.cmd
      /\ speech = <<>> /\ accepted_line = NoFrame /\ pending_text = NoFrame
      /\ \A i \in DOMAIN usb_in : usb_in[i].kind # "text"
  BY <1>2 DEF CommandOnce
<1>4. (SendOwed \/ Report) /\ speech' = speech
  BY <1>1, <1>3 DEF Device, PrintPart, PrintLine, SendOwed, Report, deviceVars
<1>5. \E f : Queue(f) /\ f.kind # "text"
  <2>1. CASE SendOwed
    <3>1. owed # <<>> /\ Queue(Head(owed)) /\ Head(owed) = owed[1]
      BY <1>t, <2>1, FirstOver DEF SendOwed
    <3>2. owed[1].kind = "ack"
      BY <3>1 DEF AckOnce
    <3> QED BY <3>1, <3>2
  <2>2. CASE Report
    BY <2>2 DEF Report
  <2> QED BY <1>4, <2>1, <2>2
<1>6. \A i \in DOMAIN usb_in' : usb_in'[i].kind # "text"
  BY <1>t, <1>3, <1>5, WireGrows
<1> QED BY <1>2, <1>3, <1>4, <1>6, DeviceKeeps DEF CommandOnce

\* The device prints on: what is said of the lines holds of one line fewer.
LEMMA DeviceSpeech ==
  TypeOK /\ CallUnderway /\ CommandOnce /\ SpeechLast /\ Device => SpeechLast'
<1> SUFFICES ASSUME TypeOK, CallUnderway, CommandOnce, SpeechLast, Device, Asked
             PROVE  SpeechLast'
  BY DeviceKeeps DEF SpeechLast
<1>t. todo \in Seq(Request) /\ speech \in Seq(Line)
  BY DEF TypeOK
<1>k. call' = call
  BY DeviceKeeps
<1>1. CASE TakeCommands
  <2>1. Len(todo) = 1 /\ todo[1].cmd = call.cmd /\ todo # <<>>
    BY <1>1 DEF TakeCommands, CommandOnce
  <2>2. Head(todo) = todo[1]
    BY <1>t, <2>1, FirstOver
  <2>3. speech' \in Speeches(call.cmd)
    BY <1>1, <2>1, <2>2 DEF TakeCommands
  <2>4. call.cmd \in Command
    BY CommandsAssumption DEF Asked, CallUnderway, SendsCommand
  <2> QED BY <1>k, <2>3, <2>4, SpeechEnds DEF SpeechLast
<1>2. CASE PrintLine
  <2>1. speech # <<>> /\ speech' = Tail(speech)
    BY <1>2 DEF PrintLine
  <2>2. Len(speech') = Len(speech) - 1 /\ Len(speech) \in Nat
    BY <1>t, <2>1
  <2>3. speech' \in Seq(Line)
    BY <1>t, <2>1, TailOver
  <2>4. \A i \in DOMAIN speech' : /\ i + 1 \in DOMAIN speech
                                  /\ speech'[i] = speech[i + 1]
    BY <1>t, <2>1, TailOver
  <2>5. \A i \in DOMAIN speech' : i \in Nat
    BY <2>3
  <2>6. ASSUME NEW i \in DOMAIN speech', accepts(call.cmd, speech'[i])
        PROVE  i = Len(speech')
    <3>1. i + 1 = Len(speech)
      BY <2>4, <2>6 DEF SpeechLast
    <3> QED BY <2>2, <2>5, <3>1
  <2> QED BY <1>k, <2>6 DEF SpeechLast
<1>3. CASE SendOwed \/ PrintPart \/ Report
  BY <1>3, <1>k DEF SendOwed, PrintPart, Report, deviceVars, SpeechLast
<1> QED BY <1>1, <1>2, <1>3 DEF Device

\* What a step of the device puts on the wire: nothing, no text, or the line it
\* has to say next, or a part of it.
LEMMA DeviceSays ==
  ASSUME TypeOK, AckOnce, Device, Asked
  PROVE  \/ /\ \/ UNCHANGED usb_in
               \/ \E f : Queue(f) /\ f.kind # "text"
            /\ UNCHANGED <<speech, cut>>
         \/ TakeCommands
         \/ \E part \in {"head", "stub"} :
              /\ speech # <<>> /\ cut = "none" /\ cut' = part
              /\ Queue(Text(Head(speech), part, job)) /\ UNCHANGED speech
         \/ /\ speech # <<>> /\ speech' = Tail(speech) /\ cut' = "none"
            /\ \/ UNCHANGED usb_in
               \/ \E part : /\ Queue(Text(Head(speech), part, job))
                            /\ cut = "head" => part = "rest of head"
                            /\ cut = "stub" => part = "rest of stub"
<1>t. owed \in Seq(Frame)
  BY DEF TypeOK
<1>1. CASE SendOwed
  <2>1. owed # <<>> /\ Queue(Head(owed)) /\ Head(owed) = owed[1]
    BY <1>1, <1>t, FirstOver DEF SendOwed
  <2>2. owed[1].kind = "ack"
    BY <2>1 DEF AckOnce
  <2> QED BY <1>1, <2>1, <2>2 DEF SendOwed
<1>2. CASE PrintPart
  <2>1. cut' = "head" \/ cut' = "stub"
    BY <1>2 DEF PrintPart
  <2> QED BY <1>2, <2>1 DEF PrintPart
<1>3. CASE PrintLine
  BY <1>3 DEF PrintLine
<1>4. CASE Report
  BY <1>4, FrameFields DEF Report, deviceVars
<1> QED BY <1>1, <1>2, <1>3, <1>4 DEF Device

LEMMA DeviceLines ==
  /\ TypeOK /\ CutLine /\ AckOnce /\ CommandOnce /\ SpeechLast
  /\ WireLast /\ AcceptedLast /\ PendingLast /\ Device
  => WireLast' /\ AcceptedLast' /\ PendingLast'
<1> SUFFICES ASSUME TypeOK, CutLine, AckOnce, CommandOnce, SpeechLast,
                    WireLast, AcceptedLast, PendingLast, Device, Asked
             PROVE  WireLast' /\ AcceptedLast' /\ PendingLast'
  BY DeviceKeeps DEF WireLast, AcceptedLast, PendingLast
<1> USE FrameFields
<1>t. /\ usb_in \in Seq(Frame) /\ speech \in Seq(Line) /\ pending_text \in Frame
      /\ cut \in {"none", "head", "stub"}
  BY DEF TypeOK
<1>k. /\ UNCHANGED <<accepted_line, pending_text>>
      /\ \A f : Finishes(f)' = Finishes(f)
  BY DeviceKeeps
<1>p. /\ pending_text.part # "none"
      /\ \A i \in DOMAIN usb_in : usb_in[i].part # "none"
  <2>1. \A f \in Frame : f.part # "none"
    BY DEF Frame, Parts
  <2>2. \A i \in DOMAIN usb_in : usb_in[i] \in Frame
    BY <1>t
  <2> QED BY <1>t, <2>1, <2>2
<1>s. speech # <<>> => 1 \in DOMAIN speech /\ Head(speech) = speech[1]
  BY <1>t, FirstOver
<1>h. ASSUME speech # <<>>, NEW part, NEW of, Finishes(Text(Head(speech), part, of))
      PROVE  Len(speech) = 1
  <2>1. Text(Head(speech), part, of).line = speech[1]
    BY <1>s, <1>h
  <2>2. accepts(call.cmd, speech[1])
    BY <1>h, <2>1 DEF Finishes
  <2> QED BY <1>s, <1>h, <2>2 DEF SpeechLast
<1>n. ~Finishes(NoFrame)
  BY DEF Finishes, NoFrame
<1>1. ASSUME \/ UNCHANGED usb_in
             \/ \E f : Queue(f) /\ f.kind # "text",
             UNCHANGED <<speech, cut>>
      PROVE  WireLast' /\ AcceptedLast' /\ PendingLast'
  <2>1. \A i \in DOMAIN usb_in' : usb_in'[i].kind = "text" =>
          i \in DOMAIN usb_in /\ usb_in'[i] = usb_in[i]
    BY <1>t, <1>1, WireGrows
  <2>2. \A f : SaidBy(f)' = SaidBy(f)
    BY <1>1 DEF SaidBy
  <2>3. \A f : Finishes(f) => f.kind = "text"
    BY DEF Finishes
  <2> HIDE DEF Finishes, SaidBy
  <2>4. WireLast'
    <3> SUFFICES ASSUME NEW i \in DOMAIN usb_in', Finishes(usb_in'[i])
                 PROVE  /\ SaidBy(usb_in'[i])
                        /\ \A j \in DOMAIN usb_in' : i < j /\ usb_in'[j].kind = "text" =>
                             RestOf(usb_in'[i], usb_in'[j])
      BY ZenonT(30), <1>k, <2>2 DEF WireLast, Finishes, SaidBy, RestOf
    <3>1. i \in DOMAIN usb_in /\ usb_in'[i] = usb_in[i]
      BY <2>1, <2>3
    <3> QED BY <2>1, <3>1 DEF WireLast
  <2>5. AcceptedLast'
    BY <1>1, <1>k, <2>1 DEF AcceptedLast
  <2>6. PendingLast'
    <3>1. ASSUME Finishes(pending_text)
          PROVE  /\ SaidBy(pending_text)
                 /\ \A j \in DOMAIN usb_in' : usb_in'[j].kind = "text" =>
                      RestOf(pending_text, usb_in'[j])
      BY <2>1, <3>1 DEF PendingLast
    <3> QED BY <1>k, <2>2, <3>1 DEF PendingLast, Finishes, SaidBy, RestOf
  <2> QED BY <2>4, <2>5, <2>6
<1>2. CASE TakeCommands
  <2>1. usb_in' = usb_in /\ \A i \in DOMAIN usb_in : usb_in[i].kind # "text"
    BY <1>2 DEF TakeCommands, CommandOnce
  <2>2. accepted_line = NoFrame /\ pending_text = NoFrame
    BY <1>2 DEF TakeCommands, CommandOnce
  <2> QED BY <1>k, <1>n, <2>1, <2>2 DEF WireLast, AcceptedLast, PendingLast, Finishes
<1>3. ASSUME NEW part \in {"head", "stub"},
             speech # <<>>, cut = "none", cut' = part,
             Queue(Text(Head(speech), part, job)), UNCHANGED speech
      PROVE  WireLast' /\ AcceptedLast' /\ PendingLast'
  <2> DEFINE f == Text(Head(speech), part, job)
  <2>1. /\ \A i \in DOMAIN usb_in : ~Finishes(usb_in[i])
        /\ accepted_line = NoFrame /\ ~Finishes(pending_text)
    BY <1>3, <1>p DEF WireLast, AcceptedLast, PendingLast, SaidBy
  <2>2. Finishes(f) => Len(speech) = 1
    BY <1>3, <1>h
  <2>3. \A i \in DOMAIN usb_in' : Finishes(usb_in'[i]) =>
          /\ Len(speech) = 1 /\ usb_in'[i].part = part
          /\ \A j \in DOMAIN usb_in' : ~(i < j)
    BY <1>t, <1>3, <2>1, <2>2, WireGrows
  <2>4. WireLast'
    BY <1>3, <1>k, <2>3 DEF WireLast, Finishes, SaidBy
  <2> QED BY <1>k, <2>1, <2>4 DEF AcceptedLast, PendingLast, Finishes
<1>4. ASSUME speech # <<>>, speech' = Tail(speech),
             \/ UNCHANGED usb_in
             \/ \E part : /\ Queue(Text(Head(speech), part, job))
                          /\ cut = "head" => part = "rest of head"
                          /\ cut = "stub" => part = "rest of stub"
      PROVE  WireLast' /\ AcceptedLast' /\ PendingLast'
  <2>1. Len(speech) = 1 => speech' = <<>>
    BY <1>t, <1>4, LastLeavesNone
  <2>2. /\ \A i \in DOMAIN usb_in :
             Finishes(usb_in[i]) => Len(speech) = 1 /\ cut = usb_in[i].part
        /\ Finishes(pending_text) => Len(speech) = 1 /\ cut = pending_text.part
        /\ accepted_line = NoFrame
    BY <1>4 DEF WireLast, AcceptedLast, PendingLast, SaidBy
  <2>3. CASE UNCHANGED usb_in
    BY ZenonT(30), <1>k, <2>1, <2>2, <2>3
       DEF WireLast, AcceptedLast, PendingLast, SaidBy, Finishes, RestOf
  <2>4. ASSUME NEW part, Queue(Text(Head(speech), part, job)),
               cut = "head" => part = "rest of head",
               cut = "stub" => part = "rest of stub"
        PROVE  WireLast' /\ AcceptedLast' /\ PendingLast'
    <3> DEFINE f == Text(Head(speech), part, job)
    <3>1. Finishes(f) => Len(speech) = 1
      BY <1>4, <1>h
    <3>2. f.part = part
      OBVIOUS
    <3> HIDE DEF f
    <3>3. \A i \in DOMAIN usb_in' :
            \/ i \in DOMAIN usb_in /\ usb_in'[i] = usb_in[i]
            \/ i = Len(usb_in) + 1 /\ usb_in'[i] = f
      BY <1>t, <2>4, WireGrows DEF f
    <3>4. \A i, j \in DOMAIN usb_in' :
            i < j => i \in DOMAIN usb_in /\ usb_in'[i] = usb_in[i]
      BY <1>t, <2>4, WireGrows
    <3>5. \A g : (cut = g.part /\ g.part # "none") => RestOf(g, f)
      BY <1>t, <2>4, <3>2 DEF RestOf
    <3>6. ASSUME NEW i \in DOMAIN usb_in', Finishes(usb_in'[i])
          PROVE  /\ speech' = <<>>
                 /\ \A j \in DOMAIN usb_in' : i < j /\ usb_in'[j].kind = "text" =>
                      RestOf(usb_in'[i], usb_in'[j])
      <4>1. Len(speech) = 1
        BY <2>2, <3>1, <3>3, <3>6
      <4>2. ASSUME NEW j \in DOMAIN usb_in', i < j, usb_in'[j].kind = "text"
            PROVE  RestOf(usb_in'[i], usb_in'[j])
        <5>1. i \in DOMAIN usb_in /\ usb_in'[i] = usb_in[i]
          BY <3>4, <4>2
        <5>2. CASE j \in DOMAIN usb_in /\ usb_in'[j] = usb_in[j]
          BY <3>6, <4>2, <5>1, <5>2 DEF WireLast
        <5>3. CASE usb_in'[j] = f
          BY <1>p, <2>2, <3>5, <3>6, <5>1, <5>3
        <5> QED BY <3>3, <5>2, <5>3
      <4> QED BY <2>1, <4>1, <4>2
    <3>7. WireLast'
      BY <1>k, <3>6 DEF WireLast, SaidBy, Finishes, RestOf
    <3>8. ASSUME Finishes(pending_text)
          PROVE  /\ speech' = <<>>
                 /\ \A j \in DOMAIN usb_in' : usb_in'[j].kind = "text" =>
                      RestOf(pending_text, usb_in'[j])
      BY <1>p, <2>1, <2>2, <3>3, <3>5, <3>8 DEF PendingLast
    <3>9. PendingLast'
      BY <1>k, <3>8 DEF PendingLast, SaidBy, Finishes, RestOf
    <3>10. AcceptedLast'
      BY <1>k, <2>2 DEF AcceptedLast
    <3> QED BY <3>7, <3>9, <3>10
  <2> QED BY <1>4, <2>3, <2>4
<1> QED BY <1>1, <1>2, <1>3, <1>4, DeviceSays

LEMMA CutLineStep ==
  TypeOK /\ AnswersHaveSubject /\ CutLine /\ Runs => CutLine'
<1> SUFFICES ASSUME TypeOK, AnswersHaveSubject, CutLine, Runs PROVE CutLine'
  OBVIOUS
<1>1. CASE Driver
  BY <1>1, DriverLeaves DEF CutLine
<1>2. CASE SendOwed \/ PrintPart \/ PrintLine \/ Report
  BY <1>2 DEF SendOwed, PrintPart, PrintLine, Report, deviceVars, CutLine
<1>3. CASE TakeCommands
  <2>1. cut = "none" /\ cut' = cut
    BY <1>3 DEF TakeCommands, AnswersHaveSubject, CutLine
  <2> QED BY <2>1 DEF CutLine
<1> QED BY <1>1, <1>2, <1>3 DEF Runs, Device

LEMMA DeviceNothing ==
  TypeOK /\ NothingLeft /\ Device => NothingLeft'
<1> SUFFICES ASSUME TypeOK, Nothing, Device PROVE Nothing'
  BY DeviceKeeps DEF NothingLeft
<1> USE FrameFields
<1>t. usb_in \in Seq(Frame) /\ speech \in Seq(Line)
  BY DEF TypeOK
<1> DEFINE Harmless(f) == f.of = {} \/ f.part = "rest of head"
<1>q. ASSUME NEW f, Queue(f), Harmless(f)
      PROVE  \A i \in DOMAIN usb_in' : Harmless(usb_in'[i])
  <2>1. \A i \in DOMAIN usb_in : Harmless(usb_in[i])
    BY DEF Nothing
  <2> HIDE DEF Harmless
  <2> QED BY <1>t, <1>q, <2>1, WireGrows
<1>1. PrintLine \/ Report
  BY DEF Device, SendOwed, TakeCommands, PrintPart, Nothing
<1>2. CASE PrintLine
  <2>1. owed' = <<>> /\ todo' = <<>>
    BY <1>2 DEF PrintLine, Nothing
  <2>2. Len(speech) = 1 /\ cut = "head" /\ speech' = <<>>
    BY <1>t, <1>2, LastLeavesNone DEF PrintLine, Nothing
  <2>3. UNCHANGED usb_in \/ Queue(Text(Head(speech), "rest of head", job))
    BY <1>2, <2>2 DEF PrintLine
  <2>4. Harmless(Text(Head(speech), "rest of head", job))
    BY DEF Text
  <2>5. \A i \in DOMAIN usb_in' : Harmless(usb_in'[i])
    <3>1. CASE UNCHANGED usb_in
      BY <3>1 DEF Nothing
    <3> QED BY <1>q, <2>3, <2>4, <3>1
  <2> QED BY <2>1, <2>2, <2>5 DEF Nothing
<1>3. CASE Report
  <2>1. UNCHANGED <<owed, todo, speech, cut>>
    BY <1>3 DEF Report, deviceVars
  <2>2. \E f : Queue(f) /\ f.of = {}
    BY <1>3 DEF Report
  <2>3. \A i \in DOMAIN usb_in' : Harmless(usb_in'[i])
    BY <1>q, <2>2
  <2> QED BY <2>1, <2>3 DEF Nothing
<1> QED BY <1>1, <1>2, <1>3

\* Every step of the device keeps what is known of the exchange.
LEMMA DeviceExchange == Inv /\ Exchange /\ Device => Exchange'
<1> SUFFICES ASSUME Inv, Exchange, Device PROVE Exchange'
  OBVIOUS
<1>1. CutLine'
  BY CutLineStep DEF Inv, Exchange, Runs
<1>2. NoAckBefore'
  BY DeviceKeeps DEF Exchange, NoAckBefore
<1>3. AckOnce' /\ CommandOnce' /\ SpeechLast'
  BY DeviceAcks, DeviceCommand, DeviceSpeech DEF Inv, Exchange
<1>4. WireLast' /\ AcceptedLast' /\ PendingLast'
  BY DeviceLines DEF Inv, Exchange
<1>5. NothingLeft'
  BY DeviceNothing DEF Inv, Exchange
<1> QED BY <1>1, <1>2, <1>3, <1>4, <1>5 DEF Exchange

\* How the steps of the driver touch an exchange: it begins with a write, is
\* read, or ends.
LEMMA DriverNoAck == TypeOK /\ NoAckBefore /\ Driver => NoAckBefore'
<1> SUFFICES ASSUME TypeOK, NoAckBefore, Driver PROVE NoAckBefore'
  OBVIOUS
<1>e. ASSUME NEW kind, NEW line, NEW of, Ends(kind, line, of) PROVE NoAckBefore'
  BY <1>e DEF Ends, FreshLocals, NoAckBefore
<1>g. ASSUME NEW step, GoesOn(step), pc # "wait" PROVE NoAckBefore'
  BY <1>g DEF GoesOn, callVars, NoAckBefore
<1>1. CASE close
  BY <1>1 DEF close, callVars, NoAckBefore
<1>2. CASE connect \/ StartCall \/ Drained \/ RegisterWrite \/ Write \/ RegisterAck
  BY <1>2, <1>e, <1>g DEF connect, StartCall, Drained, Draining, RegisterWrite, Write,
     RegisterAck, EndsWithout
<1>3. CASE DrainFrame
  BY <1>3 DEF DrainFrame, driverVars, callVars, NoAckBefore
<1>4. CASE ConnectFails \/ ReadDamaged \/ ProtocolAck \/ TimeOut \/ TimeOutWithText
             \/ ReadFails
  BY <1>4, <1>e DEF ConnectFails, ReadDamaged, ProtocolAck, TimeOut, TimeOutWithText,
     ReadFails, EndsWithout
<1>5. CASE ReadOther
  BY <1>5 DEF ReadOther, Continues, callVars, NoAckBefore
<1>6. CASE ReadAck \/ ReadPart \/ ReadLine
  BY <1>6, <1>e DEF ReadAck, ReadPart, ReadLine, Continues, NoAckBefore
<1> QED BY <1>1, <1>2, <1>3, <1>4, <1>5, <1>6 DEF Driver

\* A write with nothing owed to another call puts the exchange on its way.
LEMMA WriteBegins ==
  ASSUME Inv, NoAckBefore, Write, Asked'
  PROVE  /\ owed' = <<Plain("ack", {call.id})>>
         /\ todo' = <<[id |-> call.id, cmd |-> call.cmd]>>
         /\ call' = call /\ speech' = <<>> /\ usb_in' = usb_in
         /\ \A i \in DOMAIN usb_in : usb_in[i].of = {} /\ usb_in[i].kind \in {"report", "bad"}
         /\ accepted_line' = NoFrame /\ pending_text' = NoFrame
         /\ ack_received' = FALSE
<1>1. pc = "write" /\ pc' = "wait" /\ settled' = Settled /\ settled'
        /\ call' = call /\ usb_in' = usb_in /\ speech' = speech
        /\ call.api \in WaitsForLine
  BY DEF Write, Asked
<1>2. GoesOn("wait") /\ Delivered
  BY <1>1 DEF Write, EndsWithout, Ends
<1>3. Settled
  BY <1>1
<1>4. owed = <<>> /\ todo = <<>> /\ job = {}
        /\ \A i \in DOMAIN usb_in : usb_in[i].of = {}
  BY <1>3 DEF Settled
<1>5. \A i \in DOMAIN usb_in : usb_in[i].kind \in {"report", "bad"}
  <2>1. \A i \in DOMAIN usb_in : usb_in[i] \in GoodFrame
    BY DEF Inv, AnswersHaveSubject
  <2> QED BY <1>4, <2>1 DEF GoodFrame
<1>6. speech = <<>>
  BY <1>4 DEF Inv, AnswersHaveSubject
<1>7. call.api # "ping"
  BY <1>1 DEF WaitsForLine
<1>8. /\ owed' = Append(owed, Plain("ack", {call.id}))
      /\ todo' = Append(todo, [id |-> call.id, cmd |-> call.cmd])
  BY <1>2, <1>7 DEF Delivered
<1>9. \A x : Append(<<>>, x) = <<x>>
  OBVIOUS
<1>10. /\ accepted_line' = NoFrame /\ pending_text' = NoFrame
       /\ ack_received' = FALSE
  BY <1>1, <1>2 DEF GoesOn, callVars, Inv, Locals, NoAckBefore
<1> QED BY <1>1, <1>4, <1>5, <1>6, <1>8, <1>9, <1>10

LEMMA WriteExchange ==
  ASSUME Inv, NoAckBefore, Write, Asked'
  PROVE  /\ AckOnce' /\ CommandOnce' /\ SpeechLast'
         /\ WireLast' /\ AcceptedLast' /\ PendingLast'
<1> USE WriteBegins
<1>n. \A i \in DOMAIN usb_in : usb_in[i].of = {} /\ usb_in[i].kind \notin {"ack", "text"}
  OBVIOUS
<1>1. AckOnce'
  <2>1. Len(owed') = 1 /\ owed'[1] = Plain("ack", {call.id})
    OBVIOUS
  <2>2. owed'[1].kind = "ack"
    BY <2>1 DEF Plain
  <2> QED BY <1>n, <2>1, <2>2 DEF AckOnce
<1>2. CommandOnce'
  <2>1. Len(todo') = 1 /\ todo'[1] = [id |-> call.id, cmd |-> call.cmd]
    OBVIOUS
  <2>2. todo'[1].cmd = call.cmd
    BY <2>1
  <2> QED BY <1>n, <2>1, <2>2 DEF CommandOnce
<1>3. SpeechLast'
  BY DEF SpeechLast
<1>4. WireLast'
  BY <1>n DEF WireLast, Finishes
<1>5. AcceptedLast'
  BY DEF AcceptedLast
<1>6. PendingLast'
  BY DEF PendingLast, Finishes, NoFrame, Plain
<1> QED BY <1>1, <1>2, <1>3, <1>4, <1>5, <1>6

\* A call that waits for its line has just written, or has read one frame more.
ReadsOn == /\ Asked /\ Reads /\ Continues
           /\ ReadOther \/ ReadAck \/ ReadPart \/ ReadLine

LEMMA AskedSteps ==
  ASSUME Driver, Asked'
  PROVE  Write \/ ReadsOn
<1>e. ASSUME NEW kind, NEW line, NEW of, Ends(kind, line, of) PROVE FALSE
  BY <1>e DEF Ends, Asked
<1>g. ASSUME NEW step, GoesOn(step), step # "wait" PROVE FALSE
  BY <1>g DEF GoesOn, Asked
<1>1. CASE close
  BY <1>1 DEF close, Asked
<1>2. CASE connect \/ StartCall \/ Drained \/ RegisterWrite \/ RegisterAck
  BY <1>2, <1>e, <1>g DEF connect, StartCall, Drained, Draining, RegisterWrite,
     RegisterAck, EndsWithout
<1>3. CASE DrainFrame
  BY <1>3 DEF DrainFrame, Draining, driverVars, Asked
<1>4. CASE ConnectFails \/ ReadDamaged \/ ProtocolAck \/ TimeOut \/ TimeOutWithText
             \/ ReadFails
  BY <1>4, <1>e DEF ConnectFails, ReadDamaged, ProtocolAck, TimeOut, TimeOutWithText,
     ReadFails, EndsWithout
<1>5. CASE ReadOther \/ ReadAck \/ ReadPart \/ ReadLine
  <2>1. Reads
    BY <1>5 DEF ReadOther, ReadAck, ReadPart, ReadLine
  <2>2. Continues
    BY <1>5, <1>e DEF ReadOther, ReadAck, ReadPart, ReadLine
  <2>3. Asked
    BY <2>1, <2>2 DEF Reads, Continues, Asked
  <2> QED BY <1>5, <2>1, <2>2, <2>3 DEF ReadsOn
<1> QED BY <1>1, <1>2, <1>3, <1>4, <1>5 DEF Driver

LEMMA ReadsOnKeeps ==
  ASSUME TypeOK, ReadsOn
  PROVE  /\ Asked /\ (\A f : Finishes(f)' = Finishes(f))
         /\ UNCHANGED <<call, owed, todo, speech, cut, job>>
         /\ 1 \in DOMAIN usb_in /\ Received = usb_in[1]
         /\ \A i \in DOMAIN usb_in' :
              /\ i \in Nat /\ 1 < i + 1
              /\ i + 1 \in DOMAIN usb_in /\ usb_in'[i] = usb_in[i + 1]
<1>1. UNCHANGED <<call, owed, todo, speech, cut, job>>
  BY DEF ReadsOn, Reads, deviceVars
<1>2. usb_in # <<>> /\ usb_in' = Tail(usb_in)
  BY DEF ReadsOn, Reads
<1>3. /\ 1 \in DOMAIN usb_in /\ Received = usb_in[1]
      /\ \A i \in DOMAIN usb_in' :
           /\ i \in Nat /\ 1 < i + 1
           /\ i + 1 \in DOMAIN usb_in /\ usb_in'[i] = usb_in[i + 1]
  BY <1>2, WireShrinks DEF TypeOK
<1> QED BY <1>1, <1>3 DEF Finishes, accepts, ReadsOn

LEMMA ReadsOnAcks == TypeOK /\ AckOnce /\ ReadsOn => AckOnce'
<1> SUFFICES ASSUME TypeOK, AckOnce, ReadsOn PROVE AckOnce'
  OBVIOUS
<1> USE ReadsOnKeeps
<1>1. \A i \in DOMAIN usb_in' : usb_in'[i].of = {} \/ usb_in'[i].kind \in {"ack", "text"}
  BY DEF AckOnce
<1>2. \A i, j \in DOMAIN usb_in' :
         usb_in'[i].kind = "ack" /\ usb_in'[j].kind = "ack" => i = j
  <2> SUFFICES ASSUME NEW i \in DOMAIN usb_in', NEW j \in DOMAIN usb_in',
                      usb_in'[i].kind = "ack", usb_in'[j].kind = "ack"
               PROVE  i = j
    OBVIOUS
  <2>1. i + 1 = j + 1
    BY DEF AckOnce
  <2> QED BY <2>1
<1>3. CASE ack_received' = ack_received
  <2>1. /\ owed' # <<>> => Len(owed') = 1 /\ owed'[1].kind = "ack"
                           /\ ack_received' = FALSE
    BY <1>3 DEF AckOnce
  <2>2. \A i \in DOMAIN usb_in' :
         usb_in'[i].kind = "ack" => owed' = <<>> /\ ack_received' = FALSE
    BY <1>3 DEF AckOnce
  <2> QED BY <1>1, <1>2, <2>1, <2>2 DEF AckOnce
<1>4. CASE Received.kind = "ack"
  <2>1. owed' = <<>>
    BY <1>4 DEF AckOnce
  <2>2. \A i \in DOMAIN usb_in' : usb_in'[i].kind # "ack"
    <3> SUFFICES ASSUME NEW i \in DOMAIN usb_in', usb_in'[i].kind = "ack" PROVE FALSE
      OBVIOUS
    <3>1. i + 1 = 1
      BY <1>4 DEF AckOnce
    <3> QED BY <3>1
  <2> QED BY <1>1, <1>2, <2>1, <2>2 DEF AckOnce
<1>5. ack_received' = ack_received \/ Received.kind = "ack"
  BY DEF ReadsOn, ReadOther, ReadAck, ReadPart, ReadLine, Continues, Ends, callVars
<1> QED BY <1>3, <1>4, <1>5

LEMMA ReadsOnCommand == TypeOK /\ CommandOnce /\ ReadsOn => CommandOnce'
<1> SUFFICES ASSUME TypeOK, CommandOnce, ReadsOn, todo' # <<>> PROVE CommandOnce'
  BY DEF CommandOnce
<1> USE ReadsOnKeeps
<1>1. /\ Len(todo) = 1 /\ todo[1].cmd = call.cmd
      /\ speech = <<>> /\ accepted_line = NoFrame /\ pending_text = NoFrame
      /\ \A i \in DOMAIN usb_in : usb_in[i].kind # "text"
  BY DEF CommandOnce
<1>2. ReadOther \/ ReadAck
  BY <1>1 DEF ReadsOn, ReadPart, ReadLine
<1>3. accepted_line' = accepted_line /\ pending_text' = pending_text
  BY <1>2 DEF ReadsOn, ReadOther, ReadAck, Continues, Ends, Asked, callVars
<1>4. \A i \in DOMAIN usb_in' : usb_in'[i].kind # "text"
  BY <1>1
<1> QED BY <1>1, <1>3, <1>4 DEF CommandOnce

\* A line that is accepted is one that the frame carries.
LEMMA CompletedIsCarried ==
  ASSUME NEW f, NEW c, accepts(c, Completed(f))
  PROVE  Completed(f) = f.line
<1>1. ~accepts(c, NoLine) /\ ~accepts(c, Say("TRACE_NO_PDO", NoVoltage))
  BY DEF accepts, Say, NoLine
<1>2. Completed(f) \in {f.line, NoLine, Say("TRACE_NO_PDO", NoVoltage)}
  BY DEF Completed
<1> QED BY <1>1, <1>2

\* When an accepted line has been read to its end, nothing follows it.
LEMMA AfterAccepted ==
  ASSUME TypeOK, CommandOnce, WireLast, Asked, Reads, Received.kind = "text",
         Received.part \notin {"head", "stub"},
         accepts(call.cmd, Completed(Received))
  PROVE  /\ speech = <<>> /\ todo = <<>>
         /\ \A i \in DOMAIN usb_in' : usb_in'[i].kind # "text"
<1>1. /\ 1 \in DOMAIN usb_in /\ Received = usb_in[1]
      /\ \A i \in DOMAIN usb_in' :
           /\ i \in Nat /\ 1 < i + 1
           /\ i + 1 \in DOMAIN usb_in /\ usb_in'[i] = usb_in[i + 1]
  BY WireShrinks DEF TypeOK, Reads
<1>2. Finishes(usb_in[1])
  BY <1>1, CompletedIsCarried DEF Finishes
<1>3. todo = <<>>
  BY <1>1 DEF CommandOnce
<1>4. Received.part \in Parts
  <2>1. usb_in[1] \in Frame
    BY <1>1 DEF TypeOK
  <2> QED BY <1>1, <2>1 DEF Frame
<1>5. speech = <<>>
  <2>1. Received.part \notin {"none", "head", "stub"}
    BY <1>4 DEF Parts
  <2>2. cut # usb_in[1].part
    BY <1>1, <2>1 DEF TypeOK
  <2> QED BY <1>1, <1>2, <2>2 DEF WireLast, SaidBy
<1>6. \A i \in DOMAIN usb_in' : usb_in'[i].kind # "text"
  <2> SUFFICES ASSUME NEW i \in DOMAIN usb_in', usb_in'[i].kind = "text" PROVE FALSE
    OBVIOUS
  <2>1. RestOf(usb_in[1], usb_in[i + 1])
    BY <1>1, <1>2 DEF WireLast
  <2> QED BY <1>1, <2>1 DEF RestOf
<1> QED BY <1>3, <1>5, <1>6

LEMMA ReadsOnLines ==
  /\ TypeOK /\ CommandOnce /\ SpeechLast /\ WireLast /\ AcceptedLast /\ PendingLast
  /\ ReadsOn
  => SpeechLast' /\ WireLast' /\ AcceptedLast' /\ PendingLast'
<1> SUFFICES ASSUME TypeOK, CommandOnce, SpeechLast, WireLast, AcceptedLast,
                    PendingLast, ReadsOn
             PROVE  SpeechLast' /\ WireLast' /\ AcceptedLast' /\ PendingLast'
  OBVIOUS
<1> USE ReadsOnKeeps
<1>n. ~Finishes(NoFrame)
  BY DEF Finishes, NoFrame, Plain
<1>1. SpeechLast'
  BY DEF SpeechLast
<1>2. WireLast'
  <2>1. ASSUME NEW i \in DOMAIN usb_in', Finishes(usb_in'[i])
        PROVE  /\ SaidBy(usb_in'[i])
               /\ \A j \in DOMAIN usb_in' : i < j /\ usb_in'[j].kind = "text" =>
                    RestOf(usb_in'[i], usb_in'[j])
    <3>1. SaidBy(usb_in[i + 1])
      BY <2>1 DEF WireLast
    <3>2. ASSUME NEW j \in DOMAIN usb_in', i < j, usb_in'[j].kind = "text"
          PROVE  RestOf(usb_in'[i], usb_in'[j])
      <4>1. i + 1 < j + 1
        BY <3>2
      <4> QED BY <2>1, <3>2, <4>1 DEF WireLast
    <3> QED BY <3>1, <3>2
  <2> QED BY <2>1 DEF WireLast, SaidBy, Finishes, RestOf
<1>k. ASSUME UNCHANGED accepted_line PROVE AcceptedLast'
  BY <1>k DEF AcceptedLast
<1>p. ASSUME pending_text' \in {pending_text, NoFrame} PROVE PendingLast'
  <2>1. CASE pending_text' = NoFrame
    BY <1>n, <2>1 DEF PendingLast
  <2>2. CASE pending_text' = pending_text
    <3>1. ASSUME Finishes(pending_text)
          PROVE  /\ SaidBy(pending_text)
                 /\ \A j \in DOMAIN usb_in' : usb_in'[j].kind = "text" =>
                      RestOf(pending_text, usb_in'[j])
      BY <3>1 DEF PendingLast
    <3> QED BY <2>2, <3>1 DEF PendingLast, SaidBy, Finishes, RestOf
  <2> QED BY <1>p, <2>1, <2>2
<1>3. CASE ReadOther
  BY <1>1, <1>2, <1>3, <1>k, <1>p DEF ReadOther, callVars
<1>4. CASE ReadAck
  <2>1. UNCHANGED <<accepted_line, pending_text>>
    BY <1>4 DEF ReadAck, ReadsOn, Continues, Ends, Asked
  <2> QED BY <1>1, <1>2, <2>1, <1>k, <1>p
<1>5. CASE ReadPart
  <2>1. UNCHANGED accepted_line /\ pending_text' = usb_in[1]
        /\ usb_in[1].kind = "text"
    BY <1>5 DEF ReadPart
  <2>2. ASSUME Finishes(usb_in[1])
        PROVE  /\ SaidBy(usb_in[1])
               /\ \A j \in DOMAIN usb_in' : usb_in'[j].kind = "text" =>
                    RestOf(usb_in[1], usb_in'[j])
    BY <2>2 DEF WireLast
  <2>3. PendingLast'
    BY <2>1, <2>2 DEF PendingLast, SaidBy, Finishes, RestOf
  <2> QED BY <1>1, <1>2, <1>k, <2>1, <2>3
<1>6. CASE ReadLine
  <2>1. pending_text' = NoFrame
    BY <1>6 DEF ReadLine, ReadsOn, Continues, Ends, Asked
  <2>2. CASE UNCHANGED accepted_line
    BY <1>1, <1>2, <1>k, <1>p, <2>1, <2>2
  <2>3. CASE accepts(call.cmd, Completed(Received))
    <3>1. speech = <<>> /\ \A i \in DOMAIN usb_in' : usb_in'[i].kind # "text"
      BY <1>6, <2>3, AfterAccepted DEF ReadLine
    <3>2. AcceptedLast'
      BY <3>1 DEF AcceptedLast
    <3> QED BY <1>1, <1>2, <1>p, <2>1, <3>2
  <2>4. UNCHANGED accepted_line \/ accepts(call.cmd, Completed(Received))
    BY <1>6 DEF ReadLine, ReadsOn, Continues, Ends, Asked
  <2> QED BY <2>2, <2>3, <2>4
<1> QED BY <1>3, <1>4, <1>5, <1>6 DEF ReadsOn

\* A call that returns its line has also taken its ACK.
LEMMA ReturnsLeaveNothing ==
  ASSUME TypeOK, AckOnce, CommandOnce, WireLast, AcceptedLast, PendingLast, Asked,
         \/ ReadAck /\ accepted_line # NoFrame
         \/ ReadLine /\ accepts(call.cmd, Completed(Received)) /\ ack_received
         \/ /\ TimeOutWithText /\ ack_received
            /\ accepts(call.cmd, pending_text.line)
            /\ pending_text.kind = "text"
  PROVE  Nothing'
<1>1. CASE ReadAck /\ accepted_line # NoFrame
  <2>1. /\ 1 \in DOMAIN usb_in /\ Received = usb_in[1] /\ Received.kind = "ack"
        /\ \A i \in DOMAIN usb_in' :
             /\ i \in Nat /\ 1 < i + 1
             /\ i + 1 \in DOMAIN usb_in /\ usb_in'[i] = usb_in[i + 1]
    BY <1>1, WireShrinks DEF TypeOK, ReadAck, Reads
  <2>2. owed = <<>> /\ speech = <<>> /\ todo = <<>>
    BY <1>1, <2>1 DEF AckOnce, AcceptedLast, CommandOnce
  <2>3. \A i \in DOMAIN usb_in' : usb_in'[i].kind # "ack"
    <3> SUFFICES ASSUME NEW i \in DOMAIN usb_in', usb_in'[i].kind = "ack" PROVE FALSE
      OBVIOUS
    <3>1. i + 1 = 1
      BY <2>1 DEF AckOnce
    <3> QED BY <2>1, <3>1
  <2>4. \A i \in DOMAIN usb_in' : usb_in'[i].of = {}
    BY <1>1, <2>1, <2>3 DEF AckOnce, AcceptedLast
  <2>5. UNCHANGED <<owed, todo, speech>>
    BY <1>1 DEF ReadAck, Reads, deviceVars
  <2> QED BY <2>2, <2>4, <2>5 DEF Nothing
<1>2. CASE ReadLine /\ accepts(call.cmd, Completed(Received)) /\ ack_received
  <2>1. /\ speech = <<>> /\ todo = <<>>
        /\ \A i \in DOMAIN usb_in' : usb_in'[i].kind # "text"
    BY <1>2, AfterAccepted DEF ReadLine
  <2>2. owed = <<>> /\ \A i \in DOMAIN usb_in : usb_in[i].kind # "ack"
    BY <1>2 DEF AckOnce
  <2>3. \A i \in DOMAIN usb_in' : i + 1 \in DOMAIN usb_in /\ usb_in'[i] = usb_in[i + 1]
    BY <1>2, WireShrinks DEF TypeOK, ReadLine, Reads
  <2>4. \A i \in DOMAIN usb_in' : usb_in'[i].of = {}
    BY <2>1, <2>2, <2>3 DEF AckOnce
  <2>5. UNCHANGED <<owed, todo, speech>>
    BY <1>2 DEF ReadLine, Reads, deviceVars
  <2> QED BY <2>1, <2>2, <2>4, <2>5 DEF Nothing
<1>3. CASE /\ TimeOutWithText /\ ack_received
           /\ accepts(call.cmd, pending_text.line)
           /\ pending_text.kind = "text"
  <2>1. UNCHANGED <<usb_in, owed, todo, speech, cut>> /\ pending_text.part = "head"
    BY <1>3 DEF TimeOutWithText, KeepsConnection, NoDevice, deviceVars
  <2>2. Finishes(pending_text)
    BY <1>3 DEF Finishes
  <2>3. /\ speech = <<>> \/ (Len(speech) = 1 /\ cut = "head")
        /\ \A j \in DOMAIN usb_in : usb_in[j].kind = "text" =>
             usb_in[j].part = "rest of head"
    BY <2>1, <2>2 DEF PendingLast, SaidBy, RestOf
  <2>4. owed = <<>> /\ \A i \in DOMAIN usb_in : usb_in[i].kind # "ack"
    BY <1>3 DEF AckOnce
  <2>5. \A i \in DOMAIN usb_in :
          usb_in[i].of = {} \/ usb_in[i].part = "rest of head"
    BY <2>3, <2>4 DEF AckOnce
  <2>6. todo = <<>>
    <3>1. pending_text # NoFrame
      BY <1>3 DEF NoFrame, Plain
    <3> QED BY <3>1 DEF CommandOnce
  <2> QED BY <2>1, <2>3, <2>4, <2>5, <2>6 DEF Nothing
<1> QED BY <1>1, <1>2, <1>3

LEMMA DriverNothing == Inv /\ Exchange /\ Driver => NothingLeft'
<1> SUFFICES ASSUME Inv, Exchange, Driver PROVE NothingLeft'
  OBVIOUS
<1>w. ASSUME NEW kind, EndsWithout(kind), kind # "ok" PROVE NothingLeft'
  BY <1>w DEF EndsWithout, Ends, NothingLeft
<1>b. ASSUME pc' \notin {"idle", "connect"} PROVE NothingLeft'
  BY <1>b DEF NothingLeft, BetweenCalls
<1>a. ASSUME call'.api \notin WaitsForLine PROVE NothingLeft'
  BY <1>a DEF NothingLeft
<1>k. ASSUME BetweenCalls, UNCHANGED <<outcome, call, settled, owed, todo, speech, cut>>,
             UNCHANGED usb_in \/ Shortened
      PROVE  NothingLeft'
  <2> SUFFICES ASSUME Nothing PROVE Nothing'
    BY <1>k DEF NothingLeft, Exchange
  <2>1. \A i \in DOMAIN usb_in :
          usb_in[i].of = {} \/ usb_in[i].part = "rest of head"
    BY DEF Nothing
  <2>2. \A i \in DOMAIN usb_in' :
          usb_in'[i].of = {} \/ usb_in'[i].part = "rest of head"
    <3>1. CASE UNCHANGED usb_in
      BY <2>1, <3>1
    <3>2. CASE Shortened
      <4>1. usb_in \in Seq(Frame)
        BY DEF Inv, TypeOK
      <4>2. \A i \in DOMAIN usb_in' : \E j \in DOMAIN usb_in : usb_in'[i] = usb_in[j]
        BY <3>2, <4>1, ShortenedOver
      <4> QED BY <2>1, <4>2
    <3> QED BY <1>k, <3>1, <3>2
  <2> QED BY <1>k, <2>2 DEF Nothing
<1>u. /\ UNCHANGED <<speech, cut>>
      /\ UNCHANGED usb_in \/ Shortened
      /\ UNCHANGED <<owed, todo>> \/ RegisterWrite \/ Write
  BY DriverLeaves
<1>1. CASE close \/ connect \/ DrainFrame \/ Drained
  <2>1. BetweenCalls \/ pc' \notin {"idle", "connect"}
    BY <1>1 DEF close, connect, DrainFrame, Drained, Draining, GoesOn, BetweenCalls,
       driverVars
  <2>2. UNCHANGED <<outcome, call, settled, owed, todo>>
    BY <1>1 DEF close, connect, DrainFrame, Drained, GoesOn, driverVars, NoDevice,
       deviceVars
  <2> QED BY <1>b, <1>k, <1>u, <2>1, <2>2
<1>2. CASE ConnectFails \/ ReadDamaged \/ TimeOut \/ ReadFails
  BY <1>2, <1>w DEF ConnectFails, ReadDamaged, TimeOut, ReadFails
<1>3. CASE StartCall \/ RegisterWrite \/ Write
  <2>1. \/ EndsWithout("usb error")
        \/ GoesOn("register drain") \/ GoesOn("drain")
        \/ GoesOn("register wait") \/ GoesOn("wait")
    BY <1>3 DEF StartCall, RegisterWrite, Write
  <2> QED BY <2>1, <1>b, <1>w DEF GoesOn
<1>4. CASE ReadOther \/ ReadPart
  BY <1>4, <1>b DEF ReadOther, ReadPart, Continues
<1>5. CASE RegisterAck
  <2>1. CASE call.api = "register_lua_miso"
    <3>1. call'.api \notin WaitsForLine
      BY <1>5, <2>1 DEF RegisterAck, Reads, WaitsForLine
    <3> QED BY <1>a, <3>1
  <2>2. CASE GoesOn("drain")
    BY <2>2, <1>b DEF GoesOn
  <2> QED BY <1>5, <2>1, <2>2 DEF RegisterAck
<1>6. CASE ProtocolAck
  <2>1. call'.api \notin WaitsForLine
    BY <1>6 DEF ProtocolAck, Reads
  <2> QED BY <1>a, <2>1
<1>r. ASSUME Asked => Nothing', pc = "wait", call.api \in WaitsForLine,
             UNCHANGED <<call, settled>>
      PROVE  NothingLeft'
  BY <1>r DEF NothingLeft, Asked
<1>l. /\ Asked /\ ReadAck /\ accepted_line # NoFrame => Nothing'
      /\ Asked /\ ReadLine /\ accepts(call.cmd, Completed(Received)) /\ ack_received
           => Nothing'
      /\ Asked /\ TimeOutWithText /\ ack_received /\ pending_text.kind = "text"
           /\ accepts(call.cmd, pending_text.line) => Nothing'
  BY ReturnsLeaveNothing DEF Inv, Exchange
<1>7. CASE ReadAck
  <2>1. pc = "wait" /\ call.api \in WaitsForLine /\ UNCHANGED <<call, settled>>
    BY <1>7 DEF ReadAck, Reads
  <2>2. CASE Continues
    BY <1>b, <2>1, <2>2 DEF Continues
  <2> QED BY <1>7, <1>l, <1>r, <2>1, <2>2 DEF ReadAck
<1>8. CASE ReadLine
  <2>1. pc = "wait" /\ call.api \in WaitsForLine /\ UNCHANGED <<call, settled>>
    BY <1>8 DEF ReadLine, Reads
  <2>2. CASE Continues
    BY <1>b, <2>1, <2>2 DEF Continues
  <2>3. CASE Ends("lua error", Completed(Received), Received.of)
    BY <2>3 DEF Ends, NothingLeft
  <2>4. CASE accepts(call.cmd, Completed(Received)) /\ ack_received
    BY <1>8, <1>l, <1>r, <2>1, <2>4
  <2> QED BY <1>8, <2>2, <2>3, <2>4 DEF ReadLine
<1>9. CASE TimeOutWithText
  <2>1. pc = "wait" /\ pending_text.part = "head" /\ UNCHANGED <<call, settled>>
    BY <1>9 DEF TimeOutWithText, KeepsConnection
  <2>2. pending_text.kind = "text" /\ call.api \in WaitsForLine
    <3>1. pending_text # NoFrame
      BY <2>1 DEF NoFrame, Plain
    <3> QED BY <3>1 DEF Inv, Locals
  <2>3. CASE EndsWithout("timeout")
    BY <1>w, <2>3
  <2>4. CASE Ends("lua error", pending_text.line, pending_text.of)
    BY <2>4 DEF Ends, NothingLeft
  <2>5. CASE accepts(call.cmd, pending_text.line) /\ ack_received
    BY <1>9, <1>l, <1>r, <2>1, <2>2, <2>5
  <2> QED BY <1>9, <2>3, <2>4, <2>5 DEF TimeOutWithText
<1> QED
  BY <1>1, <1>2, <1>3, <1>4, <1>5, <1>6, <1>7, <1>8, <1>9 DEF Driver

LEMMA DriverExchange == Inv /\ Exchange /\ Driver => Exchange'
<1> SUFFICES ASSUME Inv, Exchange, Driver PROVE Exchange'
  OBVIOUS
<1>1. CutLine' /\ NoAckBefore'
  BY CutLineStep, DriverNoAck DEF Inv, Exchange, Runs
<1>2. NothingLeft'
  BY DriverNothing
<1>3. /\ AckOnce' /\ CommandOnce' /\ SpeechLast'
      /\ WireLast' /\ AcceptedLast' /\ PendingLast'
  <2>1. CASE ~Asked'
    BY <2>1 DEF AckOnce, CommandOnce, SpeechLast, WireLast, AcceptedLast, PendingLast
  <2>2. CASE Asked' /\ Write
    BY <2>2, WriteExchange DEF Exchange
  <2>3. CASE ReadsOn
    BY <2>3, ReadsOnAcks, ReadsOnCommand, ReadsOnLines DEF Inv, Exchange
  <2> QED BY <2>1, <2>2, <2>3, AskedSteps
<1> QED BY <1>1, <1>2, <1>3 DEF Exchange

\* A device that starts anew owes no call anything.
LEMMA ReplugExchange == Exchange /\ Replug => Exchange'
<1> SUFFICES ASSUME Exchange, Replug PROVE Exchange'
  OBVIOUS
<1>1. /\ usb_in' = <<>> /\ owed' = <<>> /\ todo' = <<>> /\ speech' = <<>>
      /\ cut' = "none" /\ UNCHANGED <<pc, ack_received>>
  BY DEF Replug, driverVars, callVars
<1>2. DOMAIN <<>> = {}
  OBVIOUS
<1>3. CutLine' /\ NoAckBefore'
  BY <1>1 DEF Exchange, CutLine, NoAckBefore
<1>4. AckOnce' /\ CommandOnce' /\ SpeechLast' /\ WireLast' /\ AcceptedLast'
  BY <1>1, <1>2 DEF AckOnce, CommandOnce, SpeechLast, WireLast, AcceptedLast
<1>5. PendingLast' /\ NothingLeft'
  BY <1>1, <1>2 DEF PendingLast, NothingLeft, Nothing, SaidBy
<1> QED BY <1>3, <1>4, <1>5 DEF Exchange

LEMMA ExchangeInvariance == Spec => []Exchange
<1>1. Init => Exchange
  <2>1. Init => speech = <<>> /\ cut = "none" /\ ack_received = FALSE
                /\ pc = "idle" /\ settled = FALSE
    BY DEF Init
  <2> QED
    BY <2>1 DEF Exchange, CutLine, NoAckBefore, AckOnce, CommandOnce, SpeechLast,
       WireLast, AcceptedLast, PendingLast, NothingLeft, Asked
<1>2. Inv /\ Exchange /\ [Next]_vars => Exchange'
  <2> SUFFICES ASSUME Inv, Exchange, [Next]_vars PROVE Exchange'
    OBVIOUS
  <2>1. CASE Device
    BY <2>1, DeviceExchange
  <2>2. CASE Driver
    BY <2>2, DriverExchange
  <2>3. CASE UNCHANGED vars
    <3>1. /\ UNCHANGED <<pc, call, ack_received, accepted_line, pending_text, outcome>>
          /\ UNCHANGED <<usb_in, owed, todo, speech, cut, settled>>
      BY <2>3 DEF vars, driverVars, callVars, deviceVars
    <3>2. CutLine' /\ NoAckBefore' /\ AckOnce' /\ CommandOnce'
      BY <3>1 DEF Exchange, CutLine, NoAckBefore, AckOnce, CommandOnce, Asked
    <3>3. SpeechLast' /\ AcceptedLast'
      BY <3>1 DEF Exchange, SpeechLast, AcceptedLast, Asked, accepts
    <3>a. Asked' => Asked
      BY <3>1 DEF Asked
    <3>b. \A f : accepts(call'.cmd, f.line) => accepts(call.cmd, f.line)
      BY <3>1
    <3>c. (speech' = <<>> <=> speech = <<>>) /\ Len(speech') = Len(speech)
          /\ cut' = cut
      BY <3>1
    <3>d. usb_in' = usb_in /\ pending_text' = pending_text
      BY <3>1
    <3>4. WireLast'
      <4> SUFFICES ASSUME Asked, NEW i \in DOMAIN usb_in, Finishes(usb_in[i])
                   PROVE  /\ SaidBy(usb_in[i])'
                          /\ \A j \in DOMAIN usb_in :
                               i < j /\ usb_in[j].kind = "text" =>
                                 RestOf(usb_in[i], usb_in[j])
        BY <3>a, <3>b, <3>d DEF WireLast, Finishes, RestOf, SaidBy
      <4> QED BY <3>c, <3>d DEF Exchange, WireLast, SaidBy
    <3>5. PendingLast'
      <4> SUFFICES ASSUME Asked, Finishes(pending_text)
                   PROVE  /\ SaidBy(pending_text)'
                          /\ \A j \in DOMAIN usb_in :
                               usb_in[j].kind = "text" =>
                                 RestOf(pending_text, usb_in[j])
        BY <3>a, <3>b, <3>d DEF PendingLast, Finishes, RestOf
      <4> QED BY <3>c, <3>d DEF Exchange, PendingLast, SaidBy
    <3>6. NothingLeft'
      BY <3>1 DEF Exchange, NothingLeft, Nothing, BetweenCalls
    <3> QED BY <3>2, <3>3, <3>4, <3>5, <3>6 DEF Exchange
  <2> QED BY <2>1, <2>2, <2>3, ReplugExchange DEF Next
<1> QED BY <1>1, <1>2, Invariance, PTL DEF Spec

\* A call that returned its line, with nothing owed to an earlier one when its
\* command was written, leaves no ACK and no line that the next call could take
\* for its own, however late, split or among reports they come: the loop of
\* _send_command_wait_line takes both, and the accepted line is the last.
THEOREM NothingOwed == Spec => []OkLeavesNothing
<1>1. Exchange => OkLeavesNothing
  BY DEF Exchange, NothingLeft, Nothing, BetweenCalls, OkLeavesNothing
<1> QED BY <1>1, ExchangeInvariance, PTL
=============================================================================
