------------------------ MODULE KT002Service_proofs ------------------------
(***************************************************************************)
(* KT002Controller implements KT002Service: under Phase as refinement      *)
(* mapping every step of driver and device is one of the service, or       *)
(* nothing the user of a KT002Controller could see.                        *)
(***************************************************************************)
EXTENDS KT002Controller_proofs

-----------------------------------------------------------------------------
(* The set-up of a call *)

\* Calls are numbered, and one that waits for a line has had the text reports
\* registered before it goes on to its own request.
Prepared ==
  /\ call.id = calls
  /\ pc \in {"drain", "write", "wait"} /\ call.api \in WaitsForLine =>
       lua_miso_registered

LEMMA InitPrepared == Init => Prepared
BY DEF Init, Prepared

\* A step that ends the call, or leaves it where it is.
LEMMA SamePrepared ==
  ASSUME Prepared, calls' = calls, call' = call,
         pc' \in {"drain", "write", "wait"} =>
           \/ pc \in {"drain", "write", "wait"} /\ lua_miso_registered' = lua_miso_registered
           \/ lua_miso_registered' = TRUE
  PROVE  Prepared'
BY DEF Prepared

LEMMA PreparedStep == TypeOK /\ CallUnderway /\ Prepared /\ Next => Prepared'
<1> SUFFICES ASSUME TypeOK, CallUnderway, Prepared, Next PROVE Prepared'
  OBVIOUS
<1>1. CASE Device \/ Replug
  BY <1>1, DeviceLeaves, SamePrepared DEF Replug, driverVars
<1>2. CASE close \/ connect \/ ConnectFails
  BY <1>2, SamePrepared DEF close, connect, ConnectFails, GoesOn, EndsWithout, Ends
<1>3. CASE StartCall
  <2>1. PICK api \in Apis, cmd \in Commands :
          /\ call' = [id |-> calls + 1, api |-> api,
                      cmd |-> IF api \in SendsCommand THEN cmd ELSE NoCommand]
          /\ CASE ~connected -> EndsWithout("usb error")
               [] connected /\ (\/ api = "register_lua_miso"
                                \/ api \in WaitsForLine /\ ~lua_miso_registered)
                    -> GoesOn("register drain")
               [] OTHER -> GoesOn("drain")
    BY <1>3 DEF StartCall
  <2>2. /\ call'.id = calls' /\ call'.api = api
        /\ lua_miso_registered' = lua_miso_registered
    BY <1>3, <2>1 DEF StartCall
  <2>3. CASE ~connected
    BY <2>1, <2>2, <2>3 DEF Prepared, EndsWithout, Ends
  <2>4. CASE connected /\ (\/ api = "register_lua_miso"
                           \/ api \in WaitsForLine /\ ~lua_miso_registered)
    BY <2>1, <2>2, <2>4 DEF Prepared, GoesOn
  <2>5. CASE connected /\ ~(\/ api = "register_lua_miso"
                            \/ api \in WaitsForLine /\ ~lua_miso_registered)
    <3>1. api \in WaitsForLine => lua_miso_registered' = TRUE
      BY <2>2, <2>5 DEF TypeOK
    <3> QED
      BY <2>2, <3>1 DEF Prepared
  <2> QED
    BY <2>3, <2>4, <2>5
<1>4. CASE DrainFrame
  BY <1>4, SamePrepared DEF DrainFrame, driverVars
<1>5. CASE Drained
  <2>1. /\ calls' = calls /\ call' = call
        /\ lua_miso_registered' = (lua_miso_registered /\ pc # "connect")
    BY <1>5 DEF Drained
  <2>2. lua_miso_registered \in BOOLEAN
    BY DEF TypeOK
  <2>3. pc = "drain" \/ pc' \notin {"drain", "write", "wait"}
    BY <1>5 DEF Drained, GoesOn, Draining
  <2> QED
    BY <2>1, <2>2, <2>3, SamePrepared
<1>6. CASE RegisterWrite \/ Write
  BY <1>6, SamePrepared DEF RegisterWrite, Write, GoesOn, EndsWithout, Ends
<1>7. CASE RegisterAck
  BY <1>7, SamePrepared DEF RegisterAck, Reads
<1>8. CASE ReadDamaged \/ ReadOther \/ ProtocolAck \/ ReadAck \/ ReadPart \/ ReadLine
  <2>1. calls' = calls /\ call' = call /\ lua_miso_registered' = lua_miso_registered
    BY <1>8 DEF ReadDamaged, ReadOther, ProtocolAck, ReadAck, ReadPart, ReadLine, Reads
  <2>2. pc' = "idle" \/ pc' = pc
    BY <1>8 DEF ReadDamaged, ReadOther, ProtocolAck, ReadAck, ReadPart, ReadLine,
                EndsWithout, Ends, Continues
  <2> QED
    BY <2>1, <2>2, SamePrepared
<1>9. CASE TimeOut \/ TimeOutWithText \/ ReadFails
  BY <1>9, SamePrepared DEF TimeOut, TimeOutWithText, ReadFails, KeepsConnection,
                            EndsWithout, Ends
<1> QED
  BY <1>1, <1>2, <1>3, <1>4, <1>5, <1>6, <1>7, <1>8, <1>9 DEF Next, Driver

LEMMA PreparedInvariance == Spec => []Prepared
<1>1. Inv /\ Prepared /\ [Next]_vars => Prepared'
  <2>1. ASSUME Prepared, UNCHANGED vars PROVE Prepared'
    BY <2>1 DEF Prepared, vars, driverVars
  <2> QED
    BY <2>1, PreparedStep DEF Inv
<1> QED
  BY <1>1, InitPrepared, Invariance, PTL DEF Spec

-----------------------------------------------------------------------------
(* Results *)

\* The service has its own words for the lines.
LEMMA ServiceWords ==
  /\ Service!NoLine = NoLine /\ Service!NoCommand = NoCommand
  /\ Service!WaitsForLine = WaitsForLine
  /\ \A cmd, line : Service!Fulfils(cmd, line) <=> accepts(cmd, line)
  /\ \A line : Service!Complains(line) <=> raises(line)
<1>1. Service!NoLine = NoLine /\ Service!NoCommand = NoCommand
  BY DEF Service!NoLine, NoLine, Service!NoCommand, NoCommand, Service!Say, Say,
         Service!NoVoltage, NoVoltage
<1>2. Service!WaitsForLine = WaitsForLine
  BY DEF Service!WaitsForLine, WaitsForLine
<1>3. \A cmd, line : Service!Fulfils(cmd, line) <=> accepts(cmd, line)
  BY DEF Service!Fulfils, accepts
<1>4. \A line : Service!Complains(line) <=> raises(line)
  BY DEF Service!Complains, raises, Service!SourceErrors, SourceErrors,
         Service!LuaErrors, LuaErrors
<1> QED
  BY <1>1, <1>2, <1>3, <1>4

\* A call that ends without a line raises.
LEMMA EndsRaise ==
  ASSUME NEW kind, EndsWithout(kind)
  PROVE  pc' = "idle" /\ \A kinds : kind \in kinds => outcome' \in Service!Raised(kinds)
BY ServiceWords DEF EndsWithout, Ends, Service!Raised

\* What a call ended with a line is an answer to, by what that line is.
LEMMA LineAnswers ==
  ASSUME call.api \in WaitsForLine, NEW kind, NEW line, NEW of,
         Ends(kind, line, of), settled => of = {call.id},
         \/ kind = "lua error" /\ raises(line)
         \/ kind = "ok" /\ accepts(call.cmd, line)
         \/ kind = "truncated" /\ accepts(call.cmd, line)
              /\ call.api = "send_command_wait_result"
         \/ kind = "type error" /\ accepts(call.cmd, line) /\ call.cmd.op = "PD"
              /\ call.api = "send_command_result"
         \/ kind = "timeout" /\ accepts(call.cmd, line) /\ call.cmd.op # "PD"
              /\ call.api = "send_command_result"
  PROVE  pc' = "idle" /\ Service!Answer(outcome')
<1> DEFINE o == outcome'
<1>1. pc' = "idle" /\ o.kind = kind /\ o.line = line /\ o.of = of
  BY DEF Ends
<1>2. call.api \in Service!WaitsForLine
  BY ServiceWords
<1>3. Service!Complains(line) <=> raises(line)
  BY ServiceWords
<1>4. Service!Fulfils(call.cmd, line) <=> accepts(call.cmd, line)
  BY ServiceWords
<1> HIDE DEF o
<1>5. Service!Answer(o)
  BY <1>1, <1>2, <1>3, <1>4 DEF Service!Answer
<1> QED
  BY <1>1, <1>5 DEF o

\* A protocol answer is the answer of a call that waits for no line.
LEMMA FrameAnswers ==
  ASSUME call.api \notin WaitsForLine, NEW of, Ends("ok", NoLine, of),
         settled => of = {call.id}
  PROVE  pc' = "idle" /\ Service!Answer(outcome')
<1> DEFINE o == outcome'
<1>1. pc' = "idle" /\ o.kind = "ok" /\ o.line = NoLine /\ o.of = of
  BY DEF Ends
<1>2. call.api \notin Service!WaitsForLine /\ Service!NoLine = NoLine
  BY ServiceWords
<1> HIDE DEF o
<1>3. Service!Answer(o)
  BY <1>1, <1>2 DEF Service!Answer
<1> QED
  BY <1>1, <1>3 DEF o

\* In a call that wrote its request when nothing was owed to an earlier one,
\* every frame that is about a call is about this one.
LEMMA FrameIsOwn ==
  ASSUME Inv, Reads, Received.kind \in {"ack", "setup ack", "pong", "text"}, settled
  PROVE  Received.of = {call.id}
<1>1. usb_in # <<>> /\ usb_in \in Seq(GoodFrame) /\ usb_in \in Seq(OwnFrame(call.id))
  BY DEF Reads, Inv, AnswersHaveSubject, OnlyOwnAnswers
<1>2. Received \in GoodFrame /\ Received \in OwnFrame(call.id)
  BY <1>1, TailOver DEF Received
<1> QED
  BY <1>2 DEF GoodFrame, OwnFrame

\* So is what the call has kept of a line.
LEMMA KeptIsOwn ==
  ASSUME Inv, settled
  PROVE  /\ accepted_line # NoFrame => accepted_line.of = {call.id}
         /\ pending_text # NoFrame => pending_text.of = {call.id}
BY DEF Inv, Locals, OnlyOwnAnswers, OwnFrame, GoodFrame

-----------------------------------------------------------------------------
(* The steps *)

\* What the user of the service sees of a step that leaves this alone.
LEMMA Unseen ==
  ASSUME UNCHANGED <<connected, lua_miso_registered, call, settled, outcome>>,
         Phase' = Phase
  PROVE  UNCHANGED Service!vars
BY DEF Service!vars

LEMMA PhaseOf ==
  /\ pc = "idle" => Phase = "idle"
  /\ pc = "connect" => Phase = "connecting"
  /\ pc = "wait" => Phase = "asked"
  /\ pc \in {"register drain", "register write", "register wait", "drain", "write"}
       => Phase = "preparing"
BY DEF Phase

LEMMA NextPhaseOf ==
  /\ pc' = "idle" => Phase' = "idle"
  /\ pc' = "connect" => Phase' = "connecting"
  /\ pc' = "wait" => Phase' = "asked"
  /\ pc' \in {"register drain", "register write", "register wait", "drain", "write"}
       => Phase' = "preparing"
BY DEF Phase

LEMMA UserRefines ==
  ASSUME Inv, Prepared, close \/ connect \/ ConnectFails \/ StartCall
  PROVE  Service!Next
<1>1. CASE close
  BY <1>1, PhaseOf, NextPhaseOf DEF close, Service!Next, Service!Close, callVars
<1>2. CASE connect
  BY <1>2, PhaseOf, NextPhaseOf DEF connect, GoesOn, Service!Next, Service!Connect
<1>3. CASE ConnectFails
  <2>1. /\ pc = "connect" /\ pc' = "idle" /\ connected' \in BOOLEAN
        /\ outcome' \in Service!Raised({"usb error"})
        /\ UNCHANGED <<lua_miso_registered, call, settled>>
    BY <1>3, EndsRaise DEF ConnectFails
  <2> QED
    BY <2>1, PhaseOf, NextPhaseOf DEF Service!Next, Service!ConnectEnds
<1>4. CASE StartCall
  <2>1. /\ pc = "idle" /\ settled' = FALSE
        /\ UNCHANGED <<connected, lua_miso_registered>>
    BY <1>4 DEF StartCall
  <2>2. \E api \in Apis, cmd \in Commands \cup {Service!NoCommand} :
          call' = [id |-> call.id + 1, api |-> api, cmd |-> cmd]
    BY <1>4, ServiceWords DEF StartCall, Prepared
  <2>3. CASE connected
    <3>1. GoesOn("register drain") \/ GoesOn("drain")
      BY <1>4, <2>3 DEF StartCall
    <3>2. Phase = "idle" /\ Phase' = "preparing" /\ outcome' = outcome
      BY <2>1, <3>1, PhaseOf, NextPhaseOf DEF GoesOn
    <3> QED
      BY <2>1, <2>2, <2>3, <3>2 DEF Service!Next, Service!Begin
  <2>4. CASE ~connected
    <3>1. EndsWithout("usb error")
      BY <1>4, <2>4 DEF StartCall
    <3>2. /\ Phase = "idle" /\ Phase' = "idle"
          /\ outcome' \in Service!Raised({"usb error"})
      BY <2>1, <3>1, EndsRaise, PhaseOf, NextPhaseOf
    <3> QED
      BY <2>1, <2>2, <2>4, <3>2 DEF Service!Next, Service!Begin
  <2> QED
    BY <2>3, <2>4
<1> QED
  BY <1>1, <1>2, <1>3, <1>4

\* The steps of connect, drains and writes.
LEMMA WriteRefines ==
  ASSUME Inv, Prepared, DrainFrame \/ Drained \/ RegisterWrite \/ Write
  PROVE  [Service!Next]_(Service!vars)
<1>1. CASE DrainFrame
  <2>1. Phase' = Phase /\ UNCHANGED <<connected, lua_miso_registered, call, settled, outcome>>
    BY <1>1 DEF DrainFrame, driverVars, Phase
  <2> QED
    BY <2>1, Unseen
<1>2. CASE Drained
  <2>0. UNCHANGED lua_miso_registered
    <3>1. lua_miso_registered \in BOOLEAN /\ (pc = "connect" => ~lua_miso_registered)
      BY DEF Inv, TypeOK, Reporting
    <3>2. lua_miso_registered' = (lua_miso_registered /\ pc # "connect")
      BY <1>2 DEF Drained
    <3> QED
      BY <3>1, <3>2
  <2>1. /\ pc \in Draining
        /\ UNCHANGED <<lua_miso_registered, call, settled, outcome>>
        /\ connected' = (connected \/ pc = "connect")
    BY <1>2, <2>0 DEF Drained, GoesOn
  <2>2. CASE pc = "connect"
    <3>1. pc' = "idle"
      BY <1>2, <2>2 DEF Drained, GoesOn
    <3> QED
      BY <2>1, <2>2, <3>1, PhaseOf, NextPhaseOf DEF Service!Next, Service!ConnectEnds
  <2>3. CASE pc # "connect"
    <3>1. pc \in {"register drain", "drain"} /\ pc' \in {"register write", "write"}
      BY <1>2, <2>1, <2>3 DEF Drained, GoesOn, Draining
    <3>2. Phase = "preparing" /\ Phase' = "preparing"
      BY <3>1, PhaseOf, NextPhaseOf
    <3>3. connected' = connected
      BY <2>1, <2>3 DEF Inv, TypeOK
    <3> QED
      BY <2>1, <3>2, <3>3, Unseen
  <2> QED
    BY <2>2, <2>3
<1>3. CASE RegisterWrite
  <2>1. /\ pc = "register write"
        /\ UNCHANGED <<connected, lua_miso_registered, call, settled>>
    BY <1>3 DEF RegisterWrite
  <2>2. CASE GoesOn("register wait")
    <3>1. Phase' = Phase /\ outcome' = outcome
      BY <2>1, <2>2, PhaseOf, NextPhaseOf DEF GoesOn
    <3> QED
      BY <2>1, <3>1, Unseen
  <2>3. CASE EndsWithout("usb error")
    <3>1. /\ pc' = "idle"
          /\ outcome' \in Service!Raised({"usb error", "protocol error", "timeout"})
      BY <2>3, EndsRaise
    <3> QED
      BY <2>1, <3>1, PhaseOf, NextPhaseOf DEF Service!Next, Service!Fail, Service!KeepsCall
  <2> QED
    BY <1>3, <2>2, <2>3 DEF RegisterWrite
<1>4. CASE Write
  <2>1. /\ pc = "write" /\ settled' \in BOOLEAN
        /\ UNCHANGED <<connected, lua_miso_registered, call>>
    BY <1>4 DEF Write, Settled
  <2>2. /\ call.api # "register_lua_miso"
        /\ call.api \in Service!WaitsForLine => lua_miso_registered
    BY <2>1, ServiceWords DEF Inv, CallUnderway, Prepared
  <2>3. CASE GoesOn("wait")
    <3>1. Phase = "preparing" /\ Phase' = "asked" /\ outcome' = outcome
      BY <2>1, <2>3, PhaseOf, NextPhaseOf DEF GoesOn
    <3> QED
      BY <2>1, <2>2, <3>1 DEF Service!Next, Service!Ask, Service!KeepsCall
  <2>4. CASE EndsWithout("usb error")
    <3>1. /\ Phase = "preparing" /\ Phase' = "idle"
          /\ outcome' \in Service!Raised({"usb error"})
      BY <2>1, <2>4, EndsRaise, PhaseOf, NextPhaseOf
    <3> QED
      BY <2>1, <2>2, <3>1 DEF Service!Next, Service!Ask, Service!KeepsCall
  <2> QED
    BY <1>4, <2>3, <2>4 DEF Write
<1> QED
  BY <1>1, <1>2, <1>3, <1>4

\* A call that ends with what it was waiting for.
LEMMA Concludes ==
  ASSUME pc = "wait", pc' = "idle", Service!Answer(outcome'),
         UNCHANGED <<connected, lua_miso_registered, call, settled>>
  PROVE  Service!Next
BY PhaseOf, NextPhaseOf DEF Service!Next, Service!Conclude, Service!KeepsCall

\* A call that raises.
LEMMA Fails ==
  ASSUME pc \in {"register drain", "drain", "register wait", "wait"},
         NEW kind \in {"usb error", "protocol error", "timeout"}, EndsWithout(kind),
         UNCHANGED <<connected, lua_miso_registered, call, settled>>
  PROVE  Service!Next
<1>1. /\ pc' = "idle"
      /\ outcome' \in Service!Raised({"usb error", "protocol error", "timeout"})
  BY EndsRaise
<1> QED
  BY <1>1, PhaseOf, NextPhaseOf DEF Service!Next, Service!Fail, Service!KeepsCall

\* A call that goes on waiting.
LEMMA WaitsOn ==
  ASSUME Continues, UNCHANGED <<connected, lua_miso_registered, call, settled>>
  PROVE  UNCHANGED Service!vars
<1>1. Phase' = Phase
  BY DEF Continues, Phase
<1> QED
  BY <1>1, Unseen DEF Continues

\* The frames that settle the set-up, or a call that waits for no line.
LEMMA AnswerRefines ==
  ASSUME Inv, RegisterAck \/ ProtocolAck
  PROVE  Service!Next
<1>1. CASE RegisterAck
  <2>1. /\ pc = "register wait" /\ Reads /\ Received.kind = "setup ack"
        /\ lua_miso_registered' = TRUE /\ UNCHANGED <<connected, call, settled>>
    BY <1>1 DEF RegisterAck, Reads
  <2>2. CASE call.api = "register_lua_miso"
    <3>1. Ends("ok", NoLine, Received.of)
      BY <1>1, <2>2 DEF RegisterAck
    <3>2. call.api \notin WaitsForLine
      BY <2>2 DEF WaitsForLine
    <3>3. settled => Received.of = {call.id}
      BY <2>1, FrameIsOwn
    <3>4. pc' = "idle" /\ Service!Answer(outcome')
      BY <3>1, <3>2, <3>3, FrameAnswers
    <3>5. Phase = "preparing" /\ Phase' = "idle"
      BY <2>1, <3>4, PhaseOf, NextPhaseOf
    <3> QED
      BY <2>1, <2>2, <3>4, <3>5 DEF Service!Next, Service!Register, Service!KeepsCall
  <2>3. CASE call.api # "register_lua_miso"
    <3>1. pc' = "drain" /\ outcome' = outcome
      BY <1>1, <2>3 DEF RegisterAck, GoesOn
    <3>2. Phase = "preparing" /\ Phase' = "preparing"
      BY <2>1, <3>1, PhaseOf, NextPhaseOf
    <3> QED
      BY <2>1, <2>3, <3>1, <3>2 DEF Service!Next, Service!Register, Service!KeepsCall
  <2> QED
    BY <2>2, <2>3
<1>2. CASE ProtocolAck
  <2>1. /\ pc = "wait" /\ call.api \notin WaitsForLine /\ Reads
        /\ Received.kind \in {"ack", "pong", "text"} /\ Ends("ok", NoLine, Received.of)
        /\ UNCHANGED <<connected, lua_miso_registered, call, settled>>
    BY <1>2 DEF ProtocolAck, Awaited, Reads
  <2>2. settled => Received.of = {call.id}
    BY <2>1, FrameIsOwn
  <2>3. pc' = "idle" /\ Service!Answer(outcome')
    BY <2>1, <2>2, FrameAnswers
  <2> QED
    BY <2>1, <2>3, Concludes
<1> QED
  BY <1>1, <1>2

\* The loop of _send_command_wait_line.
LEMMA LineRefines ==
  ASSUME Inv, ReadAck \/ ReadLine
  PROVE  [Service!Next]_(Service!vars)
<1>0. /\ pc = "wait" /\ call.api \in WaitsForLine /\ Reads
      /\ Received.kind \in {"ack", "text"}
      /\ UNCHANGED <<connected, lua_miso_registered, call, settled>>
  BY DEF ReadAck, ReadLine, Reads
<1>1. settled => Received.of = {call.id}
  BY <1>0, FrameIsOwn
<1>2. CASE ReadAck
  <2>1. CASE accepted_line # NoFrame
    <3>1. Ends("ok", accepted_line.line, accepted_line.of)
      BY <1>2, <2>1 DEF ReadAck
    <3>2. accepts(call.cmd, accepted_line.line)
      BY <2>1 DEF Inv, Locals
    <3>3. settled => accepted_line.of = {call.id}
      BY <2>1, KeptIsOwn
    <3>4. pc' = "idle" /\ Service!Answer(outcome')
      BY <1>0, <3>1, <3>2, <3>3, LineAnswers
    <3> QED
      BY <1>0, <3>4, Concludes
  <2>2. CASE accepted_line = NoFrame
    BY <1>0, <1>2, <2>2, WaitsOn DEF ReadAck
  <2> QED
    BY <2>1, <2>2
<1>3. CASE ReadLine
  <2> DEFINE line == Completed(Received)
  <2>1. \/ raises(line) /\ Ends("lua error", line, Received.of)
        \/ accepts(call.cmd, line) /\ Ends("ok", line, Received.of)
        \/ Continues
    BY <1>3 DEF ReadLine
  <2> HIDE DEF line
  <2>2. CASE raises(line) /\ Ends("lua error", line, Received.of)
    <3>1. pc' = "idle" /\ Service!Answer(outcome')
      BY <1>0, <1>1, <2>2, LineAnswers
    <3> QED
      BY <1>0, <3>1, Concludes
  <2>3. CASE accepts(call.cmd, line) /\ Ends("ok", line, Received.of)
    <3>1. pc' = "idle" /\ Service!Answer(outcome')
      BY <1>0, <1>1, <2>3, LineAnswers
    <3> QED
      BY <1>0, <3>1, Concludes
  <2>4. CASE Continues
    BY <1>0, <2>4, WaitsOn
  <2> QED
    BY <2>1, <2>2, <2>3, <2>4
<1> QED
  BY <1>2, <1>3

\* The deadline passes with a text read and no newline behind it.
LEMMA LateRefines ==
  ASSUME Inv, TimeOutWithText
  PROVE  Service!Next
<1>1. /\ pc = "wait" /\ pending_text.part = "head"
      /\ UNCHANGED <<connected, lua_miso_registered, call, settled>>
  BY DEF TimeOutWithText, KeepsConnection
<1>2. pending_text # NoFrame
  BY <1>1 DEF NoFrame, Plain
<1>3. call.api \in WaitsForLine
  BY <1>2 DEF Inv, Locals
<1>4. settled => pending_text.of = {call.id}
  BY <1>2, KeptIsOwn
<1> DEFINE line == pending_text.line
           of == pending_text.of
<1>5. \/ raises(line) /\ Ends("lua error", line, of)
      \/ accepts(call.cmd, line) /\ Ends("ok", line, of)
      \/ accepts(call.cmd, line) /\ Ends(ShortText, line, of)
      \/ EndsWithout("timeout")
  BY DEF TimeOutWithText
<1>6. ASSUME accepts(call.cmd, line), Ends(ShortText, line, of)
      PROVE  Service!Next
  <2>1. CASE call.api = "send_command_wait_result"
    <3>0. ShortText = "truncated"
      BY <2>1 DEF ShortText
    <3>1. Ends("truncated", line, of)
      BY <1>6, <3>0
    <3>2. pc' = "idle" /\ Service!Answer(outcome')
      BY <1>3, <1>4, <1>6, <2>1, <3>1, LineAnswers
    <3> QED
      BY <1>1, <3>2, Concludes
  <2>2. CASE call.api = "send_command_result" /\ call.cmd.op = "PD"
    <3>0. ShortText = "type error"
      BY <2>2 DEF ShortText
    <3>1. Ends("type error", line, of)
      BY <1>6, <3>0
    <3>2. pc' = "idle" /\ Service!Answer(outcome')
      BY <1>3, <1>4, <1>6, <2>2, <3>1, LineAnswers
    <3> QED
      BY <1>1, <3>2, Concludes
  <2>3. CASE call.api = "send_command_result" /\ call.cmd.op # "PD"
    <3>0. ShortText = "timeout"
      BY <2>3 DEF ShortText
    <3>1. Ends("timeout", line, of)
      BY <1>6, <3>0
    <3>2. pc' = "idle" /\ Service!Answer(outcome')
      BY <1>3, <1>4, <1>6, <2>3, <3>1, LineAnswers
    <3> QED
      BY <1>1, <3>2, Concludes
  <2> QED
    BY <1>3, <2>1, <2>2, <2>3 DEF WaitsForLine
<1> QED
  BY <1>1, <1>3, <1>4, <1>5, <1>6, LineAnswers, Concludes, Fails

LEMMA DriverRefines ==
  ASSUME Inv, Prepared, Driver
  PROVE  [Service!Next]_(Service!vars)
<1>1. CASE close \/ connect \/ ConnectFails \/ StartCall
  BY <1>1, UserRefines
<1>2. CASE DrainFrame \/ Drained \/ RegisterWrite \/ Write
  BY <1>2, WriteRefines
<1>3. CASE RegisterAck \/ ProtocolAck
  BY <1>3, AnswerRefines
<1>4. CASE ReadAck \/ ReadLine
  BY <1>4, LineRefines
<1>5. CASE ReadDamaged
  BY <1>5, Fails DEF ReadDamaged, Reads
<1>6. CASE ReadOther \/ ReadPart
  BY <1>6, WaitsOn DEF ReadOther, ReadPart, Reads
<1>7. CASE TimeOut \/ ReadFails
  BY <1>7, Fails DEF TimeOut, ReadFails, KeepsConnection
<1>8. CASE TimeOutWithText
  BY <1>8, LateRefines
<1> QED
  BY <1>1, <1>2, <1>3, <1>4, <1>5, <1>6, <1>7, <1>8 DEF Driver

\* controller.py under any device keeps to the service: no request goes out
\* before the set-up it needs, none twice, none after its call, and every call
\* has one result, of the kinds its method documents and about this very call
\* if nothing was owed to another one.
THEOREM ImplementsKT002Service == Spec => KeepsToService
<1>1. Init => Service!Init
  BY ServiceWords, PhaseOf DEF Init, Service!Init
<1>2. Inv /\ Prepared /\ [Next]_vars => [Service!Next]_(Service!vars)
  <2> SUFFICES ASSUME Inv, Prepared, [Next]_vars
               PROVE  [Service!Next]_(Service!vars)
    OBVIOUS
  <2>1. CASE Driver
    BY <2>1, DriverRefines
  <2>2. ASSUME UNCHANGED <<driverVars, settled, calls>>
        PROVE  UNCHANGED Service!vars
    <3>1. Phase' = Phase
      BY <2>2 DEF driverVars, Phase
    <3> QED
      BY <2>2, <3>1, Unseen DEF driverVars
  <2>3. CASE Device \/ Replug
    BY <2>2, <2>3, DeviceLeaves DEF Replug
  <2>4. CASE UNCHANGED vars
    BY <2>2, <2>4 DEF vars
  <2> QED
    BY <2>1, <2>3, <2>4 DEF Next
<1> QED
  BY <1>1, <1>2, Invariance, PreparedInvariance, PTL DEF Spec, KeepsToService, Service!Spec
=============================================================================
