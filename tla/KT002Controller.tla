-------------------------- MODULE KT002Controller --------------------------
(***************************************************************************)
(* drivers/kt002/controller.py: calls made on a KT002Controller, the bulk  *)
(* IN queue they read, and a device that answers when it pleases.          *)
(*                                                                         *)
(* Every public method holds the controller's lock from its first drain to *)
(* its return, so calls follow one another and one call is in progress at  *)
(* a time.  One action per USB transfer.  A chunk carries one frame: what  *)
(* a longer chunk holds beyond the frame a call returns on is dropped, as  *)
(* the drain of the next call drops it here.                               *)
(*                                                                         *)
(* Not in src/, modelled from what the driver expects of them: the Shizuku *)
(* firmware, and the Lua program as LuaService describes it.               *)
(*                                                                         *)
(* An operator said to be a mutant is no part of the model: it is the      *)
(* definition after it with a slip of the code, to see a property fail.    *)
(***************************************************************************)
EXTENDS LuaLines, Sequences, FiniteSets

CONSTANTS Commands,       \* the commands calls are made with
          Apis,           \* the methods used, see Api
          Kinds,          \* bound: the conclusive lines the device uses
          Splits,         \* does the device cut lines in two?
          MaxCalls,       \* bound: calls made
          MaxReports,     \* bound: reports the device sends unasked
          MaxReplugs      \* bound: times the device is pulled out

\* The methods by what they wait for: ping a Shizuku ping, send_command the
\* protocol ACK of a command, send_command_wait_result a line of text,
\* set_voltage_result and lua_ping_result a line and its parse.
Api == {"register_lua_miso", "ping", "send_command",
        "send_command_wait_result", "send_command_result"}
WaitsForLine == {"send_command_wait_result", "send_command_result"}
SendsCommand == WaitsForLine \cup {"send_command"}

ASSUME CommandsAssumption == Commands \subseteq Command
ASSUME ApisAssumption == Apis \subseteq Api
ASSUME BoundsAssumption ==
  MaxCalls \in Nat /\ MaxReports \in Nat /\ MaxReplugs \in Nat

Ids == 1..MaxCalls

\* Frames.  A text frame carries a printed line or a part of one: a "head"
\* reaches far enough to be recognised, a "stub" does not, each is followed by
\* its rest, which has the newline.  of names the calls the frame is about.
Parts == {"whole", "head", "stub", "rest of head", "rest of stub"}
Frame == [kind : {"ack", "setup ack", "pong", "text", "report", "bad"},
          line : Line, part : Parts, of : SUBSET Ids]
Plain(kind, of) == [kind |-> kind, line |-> NoLine, part |-> "whole", of |-> of]
Text(line, part, of) ==
  [kind |-> "text", line |-> line, part |-> part, of |-> of]
NoFrame == Plain("report", {})

Request == [id : Ids, cmd : Commands]

VARIABLES
  \* the driver
  connected, lua_miso_registered,
  pc, call,
  ack_received,
  accepted_line,   \* the text frame whose line was accepted, or NoFrame
  pending_text,    \* the text frame without newline read last, or NoFrame
  outcome,         \* how the last call ended
  \* the wire
  usb_in,          \* frames queued on the bulk IN endpoint
  \* the device
  putchar,         \* Lua text reports are switched on
  owed,            \* protocol answers it has still to send
  todo,            \* Lua_MOSI commands the Lua program has not read
  job,             \* the calls whose command it works on
  speech,          \* the lines it has still to print for them
  cut,             \* the part of Head(speech) already printed
  handle,          \* of the driver: "dead" once its device has been pulled out
  \* history and bounds
  settled,         \* nothing was owed to an earlier call at the write
  calls, reports, replugs

callVars   == <<ack_received, accepted_line, pending_text>>
driverVars == <<connected, lua_miso_registered, pc, call, callVars, outcome>>
plugVars   == <<handle, replugs>>
deviceVars == <<putchar, owed, todo, job, speech, cut, plugVars>>
vars == <<driverVars, usb_in, deviceVars, settled, calls, reports>>

Draining == {"connect", "register drain", "drain"}
Steps == Draining \cup {"idle", "register write", "register wait",
                        "write", "wait"}
Outcomes == {"none", "ok", "truncated", "lua error", "type error", "timeout",
             "usb error", "protocol error"}
Call == [id : Ids \cup {0}, api : Api, cmd : Commands \cup {NoCommand}]

TypeOK ==
  /\ connected \in BOOLEAN /\ lua_miso_registered \in BOOLEAN
  /\ pc \in Steps /\ call \in Call
  /\ ack_received \in BOOLEAN
  /\ accepted_line \in Frame /\ pending_text \in Frame
  /\ outcome \in [kind : Outcomes, line : Line, of : SUBSET Ids]
  /\ usb_in \in Seq(Frame)
  /\ putchar \in BOOLEAN
  /\ owed \in Seq(Frame) /\ todo \in Seq(Request)
  /\ job \in SUBSET Ids /\ speech \in Seq(Line)
  /\ cut \in {"none", "head", "stub"}
  /\ settled \in BOOLEAN
  /\ calls \in 0..MaxCalls /\ reports \in 0..MaxReports
  /\ handle \in {"live", "dead"} /\ replugs \in 0..MaxReplugs

Init ==
  /\ connected = TRUE /\ lua_miso_registered = FALSE
  /\ pc = "idle"
  /\ call = [id |-> 0, api |-> "ping", cmd |-> NoCommand]
  /\ ack_received = FALSE
  /\ accepted_line = NoFrame /\ pending_text = NoFrame
  /\ outcome = [kind |-> "none", line |-> NoLine, of |-> {}]
  /\ usb_in = <<>>
  /\ putchar = FALSE /\ owed = <<>> /\ todo = <<>>
  /\ job = {} /\ speech = <<>> /\ cut = "none"
  /\ handle = "live"
  /\ settled = FALSE /\ calls = 0 /\ reports = 0 /\ replugs = 0

-----------------------------------------------------------------------------
(* The device *)

Queue(frame) == usb_in' = Append(usb_in, frame)

\* The firmware answers pings, set-ups and Lua_MOSI writes in order.
SendOwed ==
  /\ owed # <<>>
  /\ Queue(Head(owed)) /\ owed' = Tail(owed)
  /\ putchar' = (putchar \/ Head(owed).kind = "setup ack")
  /\ UNCHANGED <<driverVars, todo, job, speech, cut, plugVars, settled, calls,
                 reports>>

\* The conclusive line of LuaService!Answer.  The driver passes the measured
\* voltage on unread, so one value stands for all.
Answers(c) == {l \in Replies(c) : /\ l.kind \in Kinds
                                  /\ l.kind = "OK_PD" => l.measured = c.v}

\* What the Lua program prints for a command: a conclusive line and what may
\* come before it.
Speeches(c) ==
  LET after(first, kinds) ==
        {<<Say(first, NoVoltage), l>> : l \in {a \in Answers(c) : a.kind \in kinds}}
  IN {<<l>> : l \in {a \in Answers(c) : a.kind # "ERROR_LUA_NO_PDO"}}
       \cup after("PD_INITIALIZED", {"OK_PD", "PDO_NOT_FOUND"})
       \cup after("TRACE_NO_PDO", {"ERROR_LUA_NO_PDO"})

\* It reads one command, or all that have come when they came together.
TakeCommands ==
  /\ job = {} /\ todo # <<>>
  /\ \/ /\ job' = {Head(todo).id} /\ todo' = Tail(todo)
        /\ speech' \in Speeches(Head(todo).cmd)
     \/ /\ Len(todo) > 1
        /\ job' = {todo[i].id : i \in DOMAIN todo} /\ todo' = <<>>
        /\ speech' \in Speeches(Jumble)
  /\ UNCHANGED <<driverVars, usb_in, putchar, owed, cut, plugVars, settled,
                 calls, reports>>

\* A line goes out in one report or in two.
PrintPart ==
  /\ Splits /\ speech # <<>> /\ cut = "none" /\ putchar
  /\ cut' \in {"head", "stub"}
  /\ Queue(Text(Head(speech), cut', job))
  /\ UNCHANGED <<driverVars, putchar, owed, todo, job, speech, plugVars,
                 settled, calls, reports>>

PrintLine ==
  /\ speech # <<>>
  /\ LET part == CASE cut = "none" -> "whole"
                   [] cut = "head" -> "rest of head"
                   [] cut = "stub" -> "rest of stub"
     IN IF putchar THEN Queue(Text(Head(speech), part, job))
                   ELSE UNCHANGED usb_in
  /\ cut' = "none"
  /\ speech' = Tail(speech)
  /\ job' = IF Len(speech) = 1 THEN {} ELSE job
  /\ UNCHANGED <<driverVars, putchar, owed, todo, plugVars, settled, calls,
                 reports>>

\* Periodic reports, one of them damaged perhaps.
Report ==
  /\ reports < MaxReports /\ handle = "live"
  /\ \E kind \in {"report", "bad"} : Queue(Plain(kind, {}))
  /\ reports' = reports + 1
  /\ UNCHANGED <<driverVars, deviceVars, settled, calls>>

Device == SendOwed \/ TakeCommands \/ PrintPart \/ PrintLine \/ Report

\* The KT002 is pulled out and plugged in again, or resets: it starts anew, with
\* text reports switched off, and is another device to USB.  The driver is not
\* told; what it holds is the handle of the old one.
Replug ==
  /\ replugs < MaxReplugs /\ replugs' = replugs + 1
  /\ handle' = "dead" /\ putchar' = FALSE /\ usb_in' = <<>>
  /\ owed' = <<>> /\ todo' = <<>>
  /\ job' = {} /\ speech' = <<>> /\ cut' = "none"
  /\ UNCHANGED <<driverVars, settled, calls, reports>>

-----------------------------------------------------------------------------
(* parser.py: what a line does to the call that reads it *)

\* raise_for_lua_error.
raises(line) ==
  line.kind \in {"PDO_NOT_FOUND", "REQUEST_FAILED", "UNKNOWN_COMMAND", "BUSY",
                 "SCREEN_OPEN_FAILED", "TRACE_NO_PDO"} \cup SourceErrors \cup LuaErrors

\* Mutant: any voltage will do.
acceptsAnyVoltage(cmd, line) ==
  \/ cmd.op = "PD" /\ line.kind = "OK_PD"
  \/ cmd.op = "PING" /\ line.kind = "PONG"

\* The accept functions of set_voltage_result, lua_ping_result and their
\* wait_result counterparts.
accepts(cmd, line) ==
  \/ cmd.op = "PD" /\ line.kind = "OK_PD" /\ line.v = cmd.v
  \/ cmd.op = "PING" /\ line.kind = "PONG"

\* The line a text frame completes, given the text pending before it; NoLine
\* if nothing in it is recognised.  The rest of a line whose first part went
\* to a drain still says "No specified PDO." if the cut came before that.
Completed(frame) ==
  LET l == frame.line
      marked == l.kind \in {"TRACE_NO_PDO", "ERROR_LUA_NO_PDO"}
      joined == \/ frame.part = "whole"
                \/ frame.part = "rest of head" /\ pending_text = Text(l, "head", frame.of)
                \/ frame.part = "rest of stub" /\ pending_text = Text(l, "stub", frame.of)
  IN CASE joined -> l
       [] ~joined /\ frame.part = "rest of stub" /\ marked -> Say("TRACE_NO_PDO", NoVoltage)
       [] OTHER -> NoLine

-----------------------------------------------------------------------------
(* The driver *)

NoDevice == UNCHANGED <<usb_in, deviceVars, reports>>

\* Mutant: they are attributes that nobody resets.
KeptLocals == UNCHANGED callVars

\* The local variables of _send_command_wait_line.
FreshLocals == /\ ack_received' = FALSE
               /\ accepted_line' = NoFrame /\ pending_text' = NoFrame

\* The call returns or raises, or goes on to its next step.
Ends(kind, line, of) ==
  /\ pc' = "idle"
  /\ outcome' = [kind |-> kind, line |-> line, of |-> of]
  /\ FreshLocals
EndsWithout(kind) == Ends(kind, NoLine, {})
GoesOn(step) == pc' = step /\ UNCHANGED <<outcome, callVars>>
Continues == UNCHANGED <<pc, outcome>>

\* Mutant: closing forgets the handle and not what was set up over it.
closeKeepsSetUp ==
  /\ pc = "idle" /\ connected
  /\ connected' = FALSE
  /\ UNCHANGED <<lua_miso_registered, pc, call, callVars, outcome, settled, calls>>
  /\ NoDevice

close ==
  /\ pc = "idle" /\ connected
  /\ connected' = FALSE /\ lua_miso_registered' = FALSE
  /\ UNCHANGED <<pc, call, callVars, outcome, settled, calls>> /\ NoDevice

\* An open connection is kept, dead or not, but its set-up forgotten.  A new
\* one is to the device that is there now.
connect ==
  /\ pc = "idle" /\ calls < MaxCalls
  /\ IF connected
     THEN GoesOn("idle") /\ lua_miso_registered' = FALSE /\ UNCHANGED handle
     ELSE GoesOn("connect") /\ handle' = "live" /\ UNCHANGED lua_miso_registered
  /\ UNCHANGED <<connected, call, usb_in, putchar, owed, todo, job, speech, cut,
                 settled, calls, reports, replugs>>

\* No device, no claim, or an error in the drain: after the last the
\* interface stays claimed.
ConnectFails ==
  /\ pc = "connect"
  /\ EndsWithout("usb error") /\ connected' \in BOOLEAN
  /\ UNCHANGED <<lua_miso_registered, call, settled, calls>> /\ NoDevice

\* Mutant: the set-up is left to the user.
StartCallNoSetUp ==
  /\ pc = "idle" /\ calls < MaxCalls
  /\ calls' = calls + 1 /\ settled' = FALSE
  /\ \E api \in Apis, cmd \in Commands :
       /\ call' = [id |-> calls + 1, api |-> api,
                   cmd |-> IF api \in SendsCommand THEN cmd ELSE NoCommand]
       /\ CASE ~connected -> EndsWithout("usb error")
            [] connected /\ api = "register_lua_miso" -> GoesOn("register drain")
            [] OTHER -> GoesOn("drain")
  /\ UNCHANGED <<connected, lua_miso_registered>> /\ NoDevice

\* A call begins with its drain, that of its own set-up first if the
\* connection has none.  Without a connection it raises and does nothing.
StartCall ==
  /\ pc = "idle" /\ calls < MaxCalls
  /\ calls' = calls + 1 /\ settled' = FALSE
  /\ \E api \in Apis, cmd \in Commands :
       /\ call' = [id |-> calls + 1, api |-> api,
                   cmd |-> IF api \in SendsCommand THEN cmd ELSE NoCommand]
       /\ CASE ~connected -> EndsWithout("usb error")
            [] connected /\ (\/ api = "register_lua_miso"
                             \/ api \in WaitsForLine /\ ~lua_miso_registered)
                 -> GoesOn("register drain")
            [] OTHER -> GoesOn("drain")
  /\ UNCHANGED <<connected, lua_miso_registered>> /\ NoDevice

\* drain_input reads until a read times out, which those of a dead handle do not.
DrainFrame ==
  /\ pc \in Draining /\ usb_in # <<>>
  /\ usb_in' = Tail(usb_in)
  /\ UNCHANGED <<driverVars, deviceVars, settled, calls, reports>>

Drained ==
  /\ pc \in Draining /\ usb_in = <<>> /\ handle = "live"
  /\ GoesOn(CASE pc = "connect" -> "idle"
              [] pc = "register drain" -> "register write"
              [] pc = "drain" -> "write")
  /\ connected' = (connected \/ pc = "connect")
  /\ lua_miso_registered' = (lua_miso_registered /\ pc # "connect")
  /\ UNCHANGED <<call, settled, calls>> /\ NoDevice

\* A write reaches the device; one that raises may have reached it too, unless
\* the device is gone.
RegisterWrite ==
  /\ pc = "register write"
  /\ \/ /\ handle = "live" /\ owed' = Append(owed, Plain("setup ack", {call.id}))
        /\ GoesOn("register wait") \/ EndsWithout("usb error")
     \/ EndsWithout("usb error") /\ UNCHANGED owed
  /\ UNCHANGED <<connected, lua_miso_registered, call, usb_in, putchar, todo,
                 job, speech, cut, plugVars, settled, calls, reports>>

\* Nothing an earlier call asked for is still to come.
Settled == /\ owed = <<>> /\ todo = <<>> /\ job = {}
           /\ \A i \in DOMAIN usb_in : usb_in[i].of = {}

\* What the device does with the packet of the call.
Delivered ==
  IF call.api = "ping"
  THEN owed' = Append(owed, Plain("pong", {call.id})) /\ UNCHANGED todo
  ELSE /\ owed' = Append(owed, Plain("ack", {call.id}))
       /\ todo' = Append(todo, [id |-> call.id, cmd |-> call.cmd])

Write ==
  /\ pc = "write"
  /\ \/ /\ handle = "live" /\ Delivered
        /\ GoesOn("wait") \/ EndsWithout("usb error")
     \/ EndsWithout("usb error") /\ UNCHANGED <<owed, todo>>
  /\ settled' = Settled
  /\ UNCHANGED <<connected, lua_miso_registered, call, usb_in, putchar, job,
                 speech, cut, plugVars, calls, reports>>

\* One read of _read_frames_until, and the frame it returns.
Reads ==
  /\ usb_in # <<>> /\ usb_in' = Tail(usb_in)
  /\ UNCHANGED <<connected, call, deviceVars, settled, calls, reports>>
Received == Head(usb_in)

\* A damaged frame raises, whatever is waited for.  It takes with it the sound
\* frames before it in its chunk, which nobody has looked at.
ReadDamaged ==
  /\ pc \in {"register wait", "wait"}
  /\ \E n \in DOMAIN usb_in :
       /\ usb_in[n].kind = "bad" /\ \A k \in 1..(n - 1) : usb_in[k].kind # "bad"
       /\ usb_in' = SubSeq(usb_in, n + 1, Len(usb_in))
  /\ EndsWithout("protocol error")
  /\ UNCHANGED <<connected, lua_miso_registered, call, deviceVars, settled, calls,
                 reports>>

Awaited ==
  CASE pc = "register wait"            -> {"setup ack"}
    [] call.api = "ping"               -> {"pong"}
    [] call.api = "send_command"       -> {"ack"}
    [] OTHER                           -> {"ack", "text"}

\* Other frames are passed over.
ReadOther ==
  /\ pc \in {"register wait", "wait"} /\ Reads
  /\ Received.kind \notin Awaited \cup {"bad"}
  /\ Continues /\ UNCHANGED <<callVars, lua_miso_registered>>

\* register_lua_miso, called by the user or by a call that needs it.
RegisterAck ==
  /\ pc = "register wait" /\ Reads /\ Received.kind = "setup ack"
  /\ lua_miso_registered' = TRUE
  /\ IF call.api = "register_lua_miso"
     THEN Ends("ok", NoLine, Received.of) ELSE GoesOn("drain")

\* _write_and_wait_ack, for ping and send_command.
ProtocolAck ==
  /\ pc = "wait" /\ call.api \notin WaitsForLine /\ Reads
  /\ Received.kind \in Awaited
  /\ Ends("ok", NoLine, Received.of)
  /\ UNCHANGED lua_miso_registered

\* Mutant: returns the reply instead of its text.
ReadAckReturnsReply ==
  /\ pc = "wait" /\ call.api \in WaitsForLine /\ Reads
  /\ Received.kind = "ack"
  /\ IF accepted_line # NoFrame
     THEN Ends("ok", accepted_line, accepted_line.of)
     ELSE /\ ack_received' = TRUE
          /\ Continues /\ UNCHANGED <<accepted_line, pending_text>>
  /\ UNCHANGED lua_miso_registered

\* The loop of _send_command_wait_line.
ReadAck ==
  /\ pc = "wait" /\ call.api \in WaitsForLine /\ Reads
  /\ Received.kind = "ack"
  /\ IF accepted_line # NoFrame
     THEN Ends("ok", accepted_line.line, accepted_line.of)
     ELSE /\ ack_received' = TRUE
          /\ Continues /\ UNCHANGED <<accepted_line, pending_text>>
  /\ UNCHANGED lua_miso_registered

ReadPart ==
  /\ pc = "wait" /\ call.api \in WaitsForLine /\ Reads
  /\ Received.kind = "text" /\ Received.part \in {"head", "stub"}
  /\ pending_text' = Received
  /\ Continues /\ UNCHANGED <<ack_received, accepted_line, lua_miso_registered>>

\* Mutant: does not wait for the ACK.
ReadLineReturnsAtOnce ==
  LET line == Completed(Received) IN
  /\ pc = "wait" /\ call.api \in WaitsForLine /\ Reads
  /\ Received.kind = "text" /\ Received.part \notin {"head", "stub"}
  /\ \/ /\ raises(line)
        /\ Ends("lua error", line, Received.of)
     \/ /\ accepts(call.cmd, line)
        /\ Ends("ok", line, Received.of)
     \/ /\ ~raises(line) /\ ~accepts(call.cmd, line)
        /\ pending_text' = NoFrame
        /\ Continues /\ UNCHANGED <<ack_received, accepted_line>>
  /\ UNCHANGED lua_miso_registered

ReadLine ==
  LET line == Completed(Received) IN
  /\ pc = "wait" /\ call.api \in WaitsForLine /\ Reads
  /\ Received.kind = "text" /\ Received.part \notin {"head", "stub"}
  /\ \/ /\ raises(line)
        /\ Ends("lua error", line, Received.of)
     \/ /\ accepts(call.cmd, line) /\ ack_received
        /\ Ends("ok", line, Received.of)
     \/ /\ accepts(call.cmd, line) /\ ~ack_received
        /\ accepted_line' = Text(line, "whole", Received.of)
        /\ pending_text' = NoFrame
        /\ Continues /\ UNCHANGED ack_received
     \/ /\ ~raises(line) /\ ~accepts(call.cmd, line)
        /\ pending_text' = NoFrame
        /\ Continues /\ UNCHANGED <<ack_received, accepted_line>>
  /\ UNCHANGED lua_miso_registered

KeepsConnection == UNCHANGED <<connected, lua_miso_registered, call, settled,
                               calls>> /\ NoDevice

\* Mutant: the deadline is set when the ACK comes.
TimeOutAfterAck ==
  /\ pc \in {"register wait", "wait"} /\ pending_text.part # "head"
  /\ ack_received
  /\ EndsWithout("timeout")
  /\ KeepsConnection

\* The deadline passes.  A text whose newline has not come is then taken for a
\* line: an error text raises, an accepted one is returned or parsed.  It may
\* be all of the line or stop short of its end.
TimeOut ==
  /\ pc \in {"register wait", "wait"} /\ pending_text.part # "head"
  /\ EndsWithout("timeout")
  /\ KeepsConnection

\* Mutant: the text is returned, whatever the method was to make of it.
ShortTextReturned == "truncated"

\* An accepted text that stops short: send_command_wait_result returns it,
\* parse_lua_result does not make a KT002PDOResult of it, and it is not PONG.
ShortText == IF call.api = "send_command_wait_result" THEN "truncated"
             ELSE IF call.cmd.op = "PD" THEN "type error" ELSE "timeout"

TimeOutWithText ==
  LET line == pending_text.line IN
  /\ pc = "wait" /\ pending_text.part = "head"
  /\ \/ raises(line) /\ Ends("lua error", line, pending_text.of)
     \/ /\ accepts(call.cmd, line) /\ ack_received
        /\ \/ Ends("ok", line, pending_text.of)
           \/ Ends(ShortText, line, pending_text.of)
     \/ /\ ~raises(line) /\ ~(accepts(call.cmd, line) /\ ack_received)
        /\ EndsWithout("timeout")
  /\ KeepsConnection

\* A USB error other than a time-out, while draining or waiting.
ReadFails ==
  /\ pc \in {"register drain", "drain", "register wait", "wait"}
  /\ EndsWithout("usb error")
  /\ KeepsConnection

Driver ==
  \/ close \/ connect \/ ConnectFails \/ StartCall
  \/ DrainFrame \/ Drained
  \/ RegisterWrite \/ Write
  \/ ReadDamaged \/ ReadOther \/ RegisterAck \/ ProtocolAck
  \/ ReadAck \/ ReadPart \/ ReadLine
  \/ TimeOut \/ TimeOutWithText \/ ReadFails

\* A read of a dead handle fails at once.
DeadRead == handle = "dead" /\ (ConnectFails \/ ReadFails)

Next == Driver \/ Device \/ Replug

\* The process runs on and deadlines pass.  The device owes no fairness: it
\* need not answer, but can send only MaxReports frames nobody asked for.
Fairness == /\ WF_vars(DrainFrame \/ Drained \/ DeadRead)
            /\ WF_vars(RegisterWrite \/ Write)
            /\ WF_vars(TimeOut \/ TimeOutWithText)

Spec == Init /\ [][Next]_vars /\ Fairness

-----------------------------------------------------------------------------
(* What a call promises *)

Returned == pc = "idle" /\ outcome.kind \in {"ok", "lua error"}

\* If nothing was owed to an earlier call when the command was written, what
\* the call returns or raises is about this very command, and about it alone.
AnswerIsAboutCall ==
  Returned /\ settled => outcome.of = {call.id}

\* A structured voltage or ping result is the one asked for, even where it is
\* the answer to an earlier command.
OkMatchesRequest ==
  pc = "idle" /\ outcome.kind = "ok" /\ call.api \in WaitsForLine =>
    CASE call.cmd.op = "PD" -> /\ outcome.line.kind = "OK_PD"
                               /\ outcome.line.v = call.cmd.v
      [] call.cmd.op = "PING" -> outcome.line.kind = "PONG"
      [] OTHER -> FALSE

\* After a call that returned its line, the device owes nothing that could
\* be taken for an answer by the next one: no ACK and no line but the newline
\* of the one returned.  (A call that raised may leave both.)
OkLeavesNothing ==
  pc = "idle" /\ settled /\ outcome.kind = "ok" /\ call.api \in WaitsForLine =>
    /\ owed = <<>> /\ todo = <<>>
    /\ speech = <<>> \/ (Len(speech) = 1 /\ cut = "head")
    /\ \A i \in DOMAIN usb_in :
         usb_in[i].of = {} \/ usb_in[i].part = "rest of head"

\* What the driver believes registered, the device it can talk to reports.
\* lua_miso_registered outlives a device pulled out, but only beside the dead
\* handle, over which every call raises: no later handle inherits it, not that
\* of a connect that failed half way, so no call waits for lines that a device
\* plugged in again was never asked to send.
RegisteredMeansReporting == lua_miso_registered /\ handle = "live" => putchar

\* A call keeps to what KT002Service says of calls: the set-up before the
\* request, the request once, one result that its method may have.
Phase == CASE pc = "idle" -> "idle"
           [] pc = "connect" -> "connecting"
           [] pc = "wait" -> "asked"
           [] OTHER -> "preparing"
Service == INSTANCE KT002Service
  WITH phase <- Phase, registered <- lua_miso_registered
KeepsToService == Service!Spec

\* Every call ends, if the device leaves a pause for the drain.
CallsEnd == pc # "idle" ~> pc = "idle"
=============================================================================
