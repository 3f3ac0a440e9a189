------------------------- MODULE KT002System_proofs -------------------------
(***************************************************************************)
(* What holds of the driver and the Lua program together, for every set of *)
(* chargers, commands and methods and any number of calls.                 *)
(*                                                                         *)
(* LuaController_proofs is used as it is, for each step of the system is a *)
(* step of the Lua program or leaves it alone.  So is what                 *)
(* KT002Controller_proofs shows of the driver's own steps.                 *)
(***************************************************************************)
EXTENDS KT002System, LuaController_proofs

Host == INSTANCE KT002Controller_proofs WITH
  pc <- dpc, job <- working \cup unread, speech <- <<>>, cut <- "none", reports <- 0,
  handle <- "live", replugs <- 0,
  Kinds <- {}, Splits <- FALSE, MaxReports <- 0, MaxReplugs <- 0

-----------------------------------------------------------------------------
(* The invariant *)

\* Until the source grants it, a command is granted nothing.
Ungranted == {"boot", "exited", "process", "open", "attached", "wait",
              "wait again", "read", "search", "raised", "report"}
NothingGrantedYet == pc \in Ungranted => granted = NoVoltage

\* The sink sees the source its list came from; a request it refuses to make
\* is for a source that is no more.
CacheSeen == pd_initialized /\ ~replugged => capsReceived
RefusedAfterReplug == pc \in {"raised", "report"} /\ pd_initialized => replugged

Power == NothingGrantedYet /\ CacheSeen /\ RefusedAfterReplug

\* The script ended itself before it took a command, and never takes one.
Exited == pc = "exited" /\ granted = NoVoltage

\* Lines come whole, and no ACK is one.
WholeTexts ==
  /\ pending_text = Driver!NoFrame
  /\ \A i \in DOMAIN usb_in : usb_in[i].part = "whole"
  /\ \A i \in DOMAIN owed : owed[i].kind # "text" /\ owed[i].part = "whole"

\* The calls a text and a command are for, and the lines that are for none:
\* BUSY is one only if callbacks run in one another.
ForNone == {"READY", "SCREEN_OPEN_FAILED"} \cup IF Reentrant THEN {"BUSY"} ELSE {}
OutsideWork == {"BUSY", "SCREEN_OPEN_FAILED"}
WhoseTexts == tcp # <<>> => unread # {}
WhoseCommand == command_busy => working # {}
WhoseLines ==
  /\ \A i \in DOMAIN out : out[i].kind \notin ForNone =>
                             out[i].kind # "BUSY" /\ working # {}
  /\ \A i \in DOMAIN usb_in :
       usb_in[i].kind = "text" /\ usb_in[i].of = {} => usb_in[i].line.kind \in ForNone

\* That the screen did not open is said by a script that has ended itself.
ExitSaid ==
  \/ Exited
  \/ /\ \A i \in DOMAIN out : out[i].kind # "SCREEN_OPEN_FAILED"
     /\ \A i \in DOMAIN usb_in :
          usb_in[i].kind = "text" => usb_in[i].line.kind # "SCREEN_OPEN_FAILED"

Wire == WholeTexts /\ WhoseTexts /\ WhoseCommand /\ WhoseLines

\* A call waits for its line, and nothing was owed to another one: its command
\* is the only one on the way to the script and in it.
Asked == dpc = "wait" /\ settled /\ call.api \in Driver!WaitsForLine
OnlyCommand ==
  Asked =>
    /\ todo # <<>> => /\ Len(todo) = 1 /\ todo[1].cmd = call.cmd
                      /\ tcp = <<>> /\ ~command_busy
    /\ tcp # <<>> => tcp = <<call.cmd>> /\ ~command_busy
    /\ command_busy => command = call.cmd

\* What a line the call ends with says of the power side.  A BUSY of callbacks
\* run in one another says nothing.
EndsCall(l) == \/ Driver!accepts(call.cmd, l)
               \/ Driver!raises(l) /\ ~Reentrant
IsTrue(l) ==
  /\ Driver!accepts(call.cmd, l) /\ call.cmd.op = "PD" =>
       granted = call.cmd.v /\ (contract = call.cmd.v \/ disturbed)
  /\ Driver!raises(l) => granted = NoVoltage
  /\ parse_lua_result(l, call.cmd) = "KT002PDONotFoundError" /\ ~replugged =>
       source # NoSource /\ ~Advertises(source, call.cmd.v)
  /\ parse_lua_result(l, call.cmd) = "KT002PDSourceError" => ~pd_initialized

\* It is true, and the script has no command left that would change it.
Settles(l) ==
  \/ todo = <<>> /\ tcp = <<>> /\ pc \in {"report", "show", "idle"} /\ IsTrue(l)
  \/ l.kind = "SCREEN_OPEN_FAILED" /\ Exited
LinesTrue ==
  Asked =>
    /\ \A i \in DOMAIN out : EndsCall(out[i]) => Settles(out[i])
    /\ \A i \in DOMAIN usb_in :
         usb_in[i].kind = "text" /\ EndsCall(usb_in[i].line) => Settles(usb_in[i].line)
    /\ accepted_line # Driver!NoFrame => Settles(accepted_line.line)

\* What the last call returned or raised, kept while the user reconnects.
BetweenCalls == dpc \in {"idle", "connect"}
OutcomeTrue ==
  BetweenCalls /\ settled =>
    /\ outcome.kind = "ok" /\ call.api \in Driver!WaitsForLine =>
         Driver!accepts(call.cmd, outcome.line) /\ Settles(outcome.line)
    /\ outcome.kind = "lua error" /\ ~Reentrant =>
         Driver!raises(outcome.line) /\ Settles(outcome.line)

SystemInv ==
  /\ Inv /\ Power
  /\ Driver!TypeOK /\ unread \in SUBSET Driver!Ids
  /\ Host!CallUnderway /\ Host!Locals
  /\ Wire /\ ExitSaid /\ OnlyCommand /\ LinesTrue /\ OutcomeTrue

-----------------------------------------------------------------------------
(* The parts *)

\* KT002System and KT002Controller_proofs have each a copy of the driver: the
\* two are the same.
LEMMA SameDriver ==
  /\ Driver!Driver <=> Host!Driver
  /\ Driver!SendOwed <=> Host!SendOwed
  /\ Driver!TypeOK <=> Host!TypeOK
BY DEF
    Driver!accepts, Host!accepts, Driver!Api, Host!Api, Driver!Awaited,
    Host!Awaited, Driver!Call, Host!Call, Driver!callVars, Host!callVars,
    Driver!close, Host!close, Driver!Completed, Host!Completed,
    Driver!connect, Host!connect, Driver!ConnectFails, Host!ConnectFails,
    Driver!Continues, Host!Continues, Driver!Delivered, Host!Delivered,
    Driver!plugVars, Host!plugVars, Driver!deviceVars, Host!deviceVars, Driver!Drained, Host!Drained,
    Driver!DrainFrame, Host!DrainFrame, Driver!Draining, Host!Draining,
    Driver!Driver, Host!Driver, Driver!driverVars, Host!driverVars,
    Driver!Ends, Host!Ends, Driver!EndsWithout, Host!EndsWithout,
    Driver!Frame, Host!Frame, Driver!FreshLocals, Host!FreshLocals,
    Driver!GoesOn, Host!GoesOn, Driver!Ids, Host!Ids, Driver!KeepsConnection,
    Host!KeepsConnection, Driver!Line, Host!Line, Driver!LuaErrors,
    Host!LuaErrors, Driver!LuaTraces, Host!LuaTraces, Driver!NoCommand,
    Host!NoCommand, Driver!NoDevice, Host!NoDevice, Driver!NoFrame,
    Host!NoFrame, Driver!NoLine, Host!NoLine, Driver!NoVoltage,
    Host!NoVoltage, Driver!Outcomes, Host!Outcomes, Driver!Parts, Host!Parts,
    Driver!Plain, Host!Plain, Driver!ProtocolAck, Host!ProtocolAck,
    Driver!Queue, Host!Queue, Driver!raises, Host!raises, Driver!ReadAck,
    Host!ReadAck, Driver!ReadDamaged, Host!ReadDamaged, Driver!ReadFails,
    Host!ReadFails, Driver!ReadLine, Host!ReadLine, Driver!ReadOther,
    Host!ReadOther, Driver!ReadPart, Host!ReadPart, Driver!Reads, Host!Reads,
    Driver!Received, Host!Received, Driver!RegisterAck, Host!RegisterAck,
    Driver!RegisterWrite, Host!RegisterWrite, Driver!Request, Host!Request,
    Driver!Say, Host!Say, Driver!SendOwed, Host!SendOwed, Driver!SendsCommand,
    Host!SendsCommand, Driver!Settled, Host!Settled, Driver!ShortText,
    Host!ShortText, Driver!SourceErrors, Host!SourceErrors, Driver!StartCall,
    Host!StartCall, Driver!Steps, Host!Steps, Driver!Text, Host!Text,
    Driver!TimeOut, Host!TimeOut, Driver!TimeOutWithText,
    Host!TimeOutWithText, Driver!TypeOK, Host!TypeOK, Driver!VoltageOrNone,
    Host!VoltageOrNone, Driver!Voltages, Host!Voltages, Driver!WaitsForLine,
    Host!WaitsForLine, Driver!Write, Host!Write

LEMMA SameWords ==
  /\ Host!NoFrame = Driver!NoFrame
  /\ Host!WaitsForLine = Driver!WaitsForLine
  /\ Host!SendsCommand = Driver!SendsCommand
  /\ Host!Ids = Driver!Ids
  /\ \A c, l : Host!accepts(c, l) <=> Driver!accepts(c, l)
  /\ Host!Command = Command /\ Driver!Line = Line /\ Host!Api = Driver!Api
BY DEF Host!NoFrame, Driver!NoFrame, Host!Plain, Driver!Plain, Host!NoLine,
   Driver!NoLine, Host!Say, Driver!Say, Host!NoVoltage, Driver!NoVoltage,
   Host!WaitsForLine, Driver!WaitsForLine, Host!SendsCommand,
   Driver!SendsCommand, Host!Ids, Driver!Ids, Host!accepts, Driver!accepts,
   Host!Command, Command, Host!Voltages, Voltages, NoVoltage,
   Driver!Line, Line, Driver!SourceErrors, SourceErrors,
   Driver!LuaErrors, LuaErrors, Driver!LuaTraces, LuaTraces,
   Driver!VoltageOrNone, VoltageOrNone, Driver!Voltages,
   Host!Api, Driver!Api

\* What KT002Controller_proofs assumes of its constants.
LEMMA HostAssumptions ==
  /\ Commands \subseteq Host!Command
  /\ Apis \subseteq Host!Api
  /\ MaxCalls \in Nat /\ 0 \in Nat
BY SameWords, CommandsAssumption, MethodsAssumption, CallsAreDelivered

\* A step of the driver or of its firmware keeps what was shown of the driver.
HostInv == Driver!TypeOK /\ Host!CallUnderway /\ Host!Locals
LEMMA HostStep ==
  HostInv /\ (Driver!Driver \/ Driver!SendOwed) => HostInv'
<1> SUFFICES ASSUME HostInv, Driver!Driver \/ Driver!SendOwed PROVE HostInv'
  OBVIOUS
<1>1. Host!TypeOK /\ Host!CallUnderway /\ Host!Locals
  BY SameDriver DEF HostInv
<1>2. Host!Driver \/ Host!Device
  BY SameDriver DEF Host!Device
<1>3. Host!TypeOK'
  BY <1>1, <1>2, HostAssumptions, Host!DriverTypes, Host!DeviceTypes
<1>4. Host!CallUnderway' /\ Host!Locals'
  BY <1>1, <1>2, HostAssumptions, Host!CallUnderwayStep, Host!LocalsStep
     DEF Host!Runs
<1>5. Driver!TypeOK'
  BY <1>3 DEF Host!TypeOK, Driver!TypeOK,
    Driver!Line, Host!Line, Driver!VoltageOrNone, Host!VoltageOrNone,
    Driver!NoVoltage, Host!NoVoltage, Driver!Voltages, Host!Voltages,
    Driver!LuaTraces, Host!LuaTraces, Driver!LuaErrors, Host!LuaErrors,
    Driver!SourceErrors, Host!SourceErrors, Driver!Ids, Host!Ids,
    Driver!Request, Host!Request, Driver!Frame, Host!Frame, Driver!Parts,
    Host!Parts, Driver!Outcomes, Host!Outcomes, Driver!Call, Host!Call,
    Driver!NoCommand, Host!NoCommand, Driver!Api, Host!Api, Driver!Steps,
    Host!Steps, Driver!Draining, Host!Draining
<1> QED BY <1>4, <1>5 DEF HostInv

-----------------------------------------------------------------------------
(* The Lua program in the system *)

\* Each step of the system is a step of the Lua program or leaves it alone.
LEMMA LuaStep ==
  ASSUME Driver!TypeOK, [SystemNext]_systemVars
  PROVE  [Next]_vars
<1>1. CASE DriverRuns \/ FirmwareAnswers \/ UNCHANGED systemVars
  BY <1>1 DEF DriverRuns, FirmwareAnswers, systemVars
<1>2. CASE DeliverText
  <2>1. todo \in Seq(Driver!Request) /\ todo # <<>>
    BY <1>2 DEF DeliverText, Driver!TypeOK
  <2>2. Head(todo) \in Driver!Request
    BY <2>1
  <2>3. Head(todo).cmd \in Commands
    BY <2>2 DEF Driver!Request
  <2> QED BY <1>2, <2>3 DEF DeliverText, Next, Environment
<1>3. CASE ReportLine
  BY <1>3 DEF ReportLine, Next, Environment
<1>4. CASE Takes
  BY <1>4 DEF Takes, Next, Script, Callback
<1>5. CASE Works \/ Finishes
  BY <1>5 DEF Works, Finishes, Next, Script
<1>6. CASE PowerSide
  BY <1>6 DEF PowerSide, Next, Script, Environment
<1> QED BY <1>1, <1>2, <1>3, <1>4, <1>5, <1>6 DEF SystemNext

LEMMA PowerInit == Init => Power
BY DEF Init, Power, NothingGrantedYet, Ungranted, CacheSeen, RefusedAfterReplug

LEMMA NoSinkCallLeaves ==
  ASSUME NoSinkCall
  PROVE  /\ source' = source /\ capsReceived' = capsReceived
         /\ contract' = contract /\ pd_initialized' = pd_initialized
         /\ source_caps' = source_caps /\ granted' = granted
         /\ disturbed' = disturbed /\ replugged' = replugged
         /\ tcp' = tcp /\ command' = command /\ command_busy' = command_busy
BY DEF NoSinkCall, InCommand, sourceVars

LEMMA PowerKept ==
  ASSUME Power, granted' = granted, capsReceived' = capsReceived,
         pd_initialized' = pd_initialized, replugged' = replugged,
         pc' \in Ungranted => pc \in Ungranted,
         pc' \in {"raised", "report"} => pc \in {"raised", "report"}
  PROVE  Power'
BY DEF Power, NothingGrantedYet, CacheSeen, RefusedAfterReplug

LEMMA PowerStep == Inv /\ Power /\ [Next]_vars => Power'
<1> SUFFICES ASSUME Inv, Power, [Next]_vars PROVE Power'
  OBVIOUS
<1>i. /\ pc \in {"open", "attached", "wait", "wait again", "read"} => ~pd_initialized
      /\ pc \in {"search", "settle"} => pd_initialized
      /\ pd_initialized /\ ~replugged => source_caps = Capabilities[source]
      /\ command_busy <=> pc \notin {"boot", "exited", "idle"}
  BY DEF Inv, Meaning, RequestsOnly, CacheCurrent, BusyWhileRunning
<1>1. CASE (\E c \in Chargers : Attach(c)) \/ Detach
  <2>1. /\ granted' = granted /\ pd_initialized' = pd_initialized /\ pc' = pc
        /\ replugged' = TRUE
    BY <1>1 DEF Attach, Detach, scriptVars
  <2> QED
    BY <2>1 DEF Power, NothingGrantedYet, CacheSeen, RefusedAfterReplug
<1>2. CASE AdvertiseCapabilities
  <2>1. /\ granted' = granted /\ pd_initialized' = pd_initialized /\ pc' = pc
        /\ replugged' = replugged /\ capsReceived' = TRUE
    BY <1>2 DEF AdvertiseCapabilities, scriptVars, historyVars
  <2> QED
    BY <2>1 DEF Power, NothingGrantedYet, CacheSeen, RefusedAfterReplug
<1>3. CASE \/ (\E c \in Commands : Send(c)) \/ ReadLine
           \/ ReceiveWhileBusy \/ ReceiveNothing \/ UNCHANGED vars
  <2>1. UNCHANGED <<sourceVars, scriptVars, historyVars>>
    BY <1>3 DEF Send, ReadLine, ReceiveWhileBusy, ReceiveNothing, vars
  <2>2. /\ granted' = granted /\ capsReceived' = capsReceived
        /\ pd_initialized' = pd_initialized /\ replugged' = replugged /\ pc' = pc
    BY <2>1 DEF sourceVars, scriptVars, historyVars
  <2> QED BY <2>2, PowerKept
<1>4. CASE Startup \/ Finish
  <2>1. /\ granted' = granted /\ capsReceived' = capsReceived
        /\ pd_initialized' = pd_initialized /\ replugged' = replugged
    BY <1>4 DEF Startup, Finish, sourceVars, historyVars
  <2>2. pc' = "idle" \/ (pc = "boot" /\ pc' = "exited")
    BY <1>4 DEF Startup, Finish
  <2> QED BY <2>1, <2>2, PowerKept DEF Ungranted
<1>5. CASE ReceiveCommand
  <2>1. /\ granted' = NoVoltage /\ capsReceived' = capsReceived /\ pc' = "process"
        /\ pd_initialized' = pd_initialized /\ replugged' = replugged
    BY <1>5 DEF ReceiveCommand, sourceVars
  <2> QED
    BY <2>1 DEF Power, NothingGrantedYet, CacheSeen, RefusedAfterReplug
<1>6. CASE process_command \/ CheckSourceAttached \/ GiveUpWaiting
           \/ CapabilitiesSeen \/ NotFound \/ MeasureAndReply
  <2>1. NoSinkCall
    BY <1>6 DEF process_command, CheckSourceAttached, GiveUpWaiting,
       CapabilitiesSeen, NotFound, MeasureAndReply
  <2>2. pc' \in Ungranted => pc \in Ungranted
    BY <1>6 DEF process_command, CheckSourceAttached, GiveUpWaiting,
       CapabilitiesSeen, NotFound, MeasureAndReply, Conclude, Ungranted
  <2>3. pc' \notin {"raised", "report"}
    <3>1. CASE process_command
      <4>1. GoTo("search") \/ GoTo("open") \/ Conclude(Say("PONG", NoVoltage))
              \/ Conclude(Say("UNKNOWN_COMMAND", NoVoltage))
        BY <3>1 DEF process_command
      <4> QED BY <4>1 DEF GoTo, Conclude
    <3>2. CASE CheckSourceAttached \/ GiveUpWaiting
                 \/ CapabilitiesSeen \/ NotFound \/ MeasureAndReply
      BY <3>2 DEF CheckSourceAttached, GiveUpWaiting, CapabilitiesSeen,
         NotFound, MeasureAndReply, GoTo, Conclude
    <3> QED BY <1>6, <3>1, <3>2
  <2> QED BY <2>1, <2>2, <2>3, NoSinkCallLeaves, PowerKept
<1>7. CASE OpenFastCharge \/ HardReset
  <2>1. /\ granted' = granted /\ pd_initialized' = pd_initialized
        /\ replugged' = replugged
        /\ pc \in {"open", "wait"} /\ pc' \in {"show", "attached", "wait again"}
    BY <1>7 DEF OpenFastCharge, HardReset, GoTo, Conclude
  <2> QED
    BY <1>i, <2>1 DEF Power, NothingGrantedYet, CacheSeen, RefusedAfterReplug,
       Ungranted
<1>8. CASE ReadCapabilities
  <2>1. /\ granted' = granted /\ pc = "read" /\ pc' = "search"
    BY <1>8 DEF ReadCapabilities
  <2>2. capsReceived'
    BY <1>8 DEF ReadCapabilities, sourceVars
  <2> QED
    BY <2>1, <2>2 DEF Power, NothingGrantedYet, CacheSeen, RefusedAfterReplug,
       Ungranted
<1>9. CASE ReadNoCapability \/ ReadInterrupted
  <2>1. /\ granted' = granted /\ pd_initialized' = pd_initialized
        /\ pc = "read" /\ pc' \in {"show", "raised"}
    BY <1>9 DEF ReadNoCapability, ReadInterrupted, InCommand, GoTo, Conclude
  <2> QED
    BY <1>i, <2>1 DEF Power, NothingGrantedYet, CacheSeen, RefusedAfterReplug,
       Ungranted
<1>10. ASSUME NEW i \in DOMAIN source_caps, RequestGranted(i) PROVE Power'
  <2>1. /\ pd_initialized' = pd_initialized /\ replugged' = replugged
        /\ capsReceived' = capsReceived /\ pc' = "settle"
    BY <1>10 DEF RequestGranted, GoTo
  <2> QED
    BY <2>1 DEF Power, NothingGrantedYet, CacheSeen, RefusedAfterReplug,
       Ungranted
<1>11. ASSUME NEW i \in DOMAIN source_caps, RequestFailed(i) PROVE Power'
  <2>1. NoSinkCall /\ pc' = "show"
    BY <1>11 DEF RequestFailed, Conclude
  <2> QED BY <2>1, NoSinkCallLeaves, PowerKept DEF Ungranted
<1>12. ASSUME NEW i \in DOMAIN source_caps, RequestRaises(i) PROVE Power'
  <2>1. /\ pc = "search" /\ pc' = "raised" /\ NoSinkCall
        /\ i \in Matches(command.v) /\ ~Offered(i, command.v)
    BY <1>12 DEF RequestRaises, Request, GoTo
  <2>2. replugged
    BY <1>i, <2>1 DEF Power, CacheSeen, Matches, Offered
  <2> QED
    BY <2>1, <2>2, NoSinkCallLeaves
       DEF Power, NothingGrantedYet, CacheSeen, RefusedAfterReplug, Ungranted
<1>13. CASE PrintTrace \/ ReportLuaError
  <2>1. /\ NoSinkCall /\ pc \in {"raised", "report"}
        /\ pc' \in {"report", "show"}
    BY <1>13 DEF PrintTrace, ReportLuaError, Conclude
  <2> QED BY <2>1, NoSinkCallLeaves, PowerKept DEF Ungranted
<1> QED
  BY <1>1, <1>2, <1>3, <1>4, <1>5, <1>6, <1>7, <1>8, <1>9, <1>10, <1>11,
     <1>12, <1>13 DEF Next, Script, WorkOnCommand, Callback, Environment

-----------------------------------------------------------------------------
(* What lines say *)

LEMMA Parsed ==
  ASSUME NEW l, NEW c
  PROVE  /\ parse_lua_result(l, c) = "KT002PDONotFoundError" =>
              \/ l.kind = "PDO_NOT_FOUND"
              \/ l.kind \in {"TRACE_NO_PDO", "ERROR_LUA_NO_PDO"} /\ c.op = "PD"
         /\ parse_lua_result(l, c) = "KT002PDSourceError" => l.kind \in SourceErrors
BY DEF parse_lua_result

\* Truth is a matter of the source and the grant.
LEMMA TruthKept ==
  ASSUME NEW l, IsTrue(l), granted' = granted, pd_initialized' = pd_initialized,
         call' = call,
         \/ /\ source' = source /\ contract' = contract
            /\ disturbed' = disturbed /\ replugged' = replugged
         \/ disturbed' = TRUE /\ replugged' = TRUE
  PROVE  IsTrue(l)'
<1> DEFINE C(c) == Driver!accepts(c, l)
           P(c) == parse_lua_result(l, c)
<1>1. C(call.cmd)' = C(call.cmd) /\ P(call.cmd)' = P(call.cmd)
  OBVIOUS
<1> HIDE DEF C, P
<1> QED BY <1>1 DEF IsTrue, C, P

\* A line that ends the call for a command without a grant: it is true when
\* its class is.
LEMMA TrueWithoutGrant ==
  ASSUME NEW l, l.kind \notin {"OK_PD", "PONG"}, granted' = NoVoltage,
         l.kind = "PDO_NOT_FOUND" =>
           (~replugged => source # NoSource /\ ~Advertises(source, call.cmd.v))',
         l.kind \in {"TRACE_NO_PDO", "ERROR_LUA_NO_PDO"} => replugged',
         l.kind \in SourceErrors => ~pd_initialized'
  PROVE  IsTrue(l)'
<1>1. ~Driver!accepts(call.cmd, l)'
  BY DEF Driver!accepts
<1>2. (parse_lua_result(l, call.cmd) = "KT002PDONotFoundError" => 
        l.kind = "PDO_NOT_FOUND" \/ l.kind \in {"TRACE_NO_PDO", "ERROR_LUA_NO_PDO"})'
  BY Parsed
<1>3. (parse_lua_result(l, call.cmd) = "KT002PDSourceError" => l.kind \in SourceErrors)'
  BY Parsed
<1> QED BY <1>1, <1>2, <1>3 DEF IsTrue

\* The line of a script that ended itself is as true as it can be.
LEMMA ExitIsTrue ==
  ASSUME NEW l, l.kind = "SCREEN_OPEN_FAILED", Exited
  PROVE  IsTrue(l)
<1>1. ~Driver!accepts(call.cmd, l)
  BY DEF Driver!accepts
<1>2. /\ parse_lua_result(l, call.cmd) # "KT002PDONotFoundError"
      /\ parse_lua_result(l, call.cmd) # "KT002PDSourceError"
  BY Parsed DEF SourceErrors
<1> QED BY <1>1, <1>2 DEF IsTrue, Exited

LEMMA SettledIsTrue ==
  ASSUME NEW l, Settles(l)
  PROVE  IsTrue(l)
BY ExitIsTrue DEF Settles

\* Such a script does nothing any more.
LEMMA ExitedStays ==
  ASSUME Inv, Exited, [SystemNext]_systemVars
  PROVE  Exited'
<1>b. pc = "exited" /\ ~command_busy
  BY DEF Inv, Meaning, BusyWhileRunning, Exited
<1>1. CASE DriverRuns \/ FirmwareAnswers \/ UNCHANGED systemVars
  BY <1>1 DEF Exited, DriverRuns, FirmwareAnswers, systemVars, vars, scriptVars,
     historyVars
<1>2. CASE DeliverText \/ ReportLine
  BY <1>2 DEF Exited, DeliverText, Send, ReportLine, ReadLine, scriptVars, historyVars
<1>3. ~Takes
  BY <1>b DEF Takes, ReceiveCommand, ReceiveNothing, ReceiveWhileBusy, CallbackDue
<1>4. ~Works
  BY <1>b DEF Works, WorkOnCommand, process_command, OpenFastCharge,
     CheckSourceAttached, CapabilitiesSeen, HardReset, GiveUpWaiting,
     ReadCapabilities, ReadNoCapability, ReadInterrupted, NotFound, Request,
     RequestGranted, RequestFailed, RequestRaises, MeasureAndReply, PrintTrace,
     ReportLuaError
<1>5. ~Finishes
  BY <1>b DEF Finishes, Finish
<1>6. CASE PowerSide
  BY <1>b, <1>6 DEF Exited, PowerSide, Startup, Attach, Detach,
     AdvertiseCapabilities, scriptVars, historyVars
<1> QED BY <1>1, <1>2, <1>3, <1>4, <1>5, <1>6 DEF SystemNext

\* Once a line has settled the call nothing but the plug is touched.
LEMMA SettlesKept ==
  ASSUME Inv, [SystemNext]_systemVars, ~DriverRuns, NEW l, Settles(l)
  PROVE  Settles(l)'
<1>x. CASE l.kind = "SCREEN_OPEN_FAILED" /\ Exited
  BY <1>x, ExitedStays DEF Settles
<1> SUFFICES ASSUME ~(l.kind = "SCREEN_OPEN_FAILED" /\ Exited)
             PROVE  Settles(l)'
  BY <1>x
<1>s. /\ todo = <<>> /\ tcp = <<>> /\ pc \in {"report", "show", "idle"} /\ IsTrue(l)
  BY DEF Settles
<1>1. CASE \/ FirmwareAnswers \/ UNCHANGED systemVars \/ ReportLine
           \/ (Takes /\ ~ReceiveCommand) \/ (Works /\ ReportLuaError) \/ Finishes
           \/ (PowerSide /\ AdvertiseCapabilities)
  <2>1. call' = call /\ todo' = todo
    BY <1>1 DEF FirmwareAnswers, Driver!SendOwed, Driver!driverVars, systemVars,
       ReportLine, Takes, Works, Finishes, PowerSide, NoHost, driverSide, firmware
  <2>2. /\ granted' = granted /\ pd_initialized' = pd_initialized
        /\ source' = source /\ contract' = contract
        /\ disturbed' = disturbed /\ replugged' = replugged /\ tcp' = tcp
    <3>1. CASE \/ FirmwareAnswers \/ UNCHANGED systemVars
      BY <3>1 DEF FirmwareAnswers, systemVars, vars, sourceVars, channelVars,
         scriptVars, historyVars
    <3>2. CASE ReportLine
      BY <3>2 DEF ReportLine, ReadLine, sourceVars, scriptVars, historyVars
    <3>3. CASE Takes /\ ~ReceiveCommand
      BY <3>3 DEF Takes, ReceiveWhileBusy, ReceiveNothing, sourceVars,
         scriptVars, historyVars
    <3>4. CASE Works /\ ReportLuaError
      BY <3>4, NoSinkCallLeaves DEF ReportLuaError
    <3>5. CASE Finishes
      BY <3>5 DEF Finishes, Finish, sourceVars, channelVars, historyVars
    <3>6. CASE PowerSide /\ AdvertiseCapabilities
      BY <3>6 DEF AdvertiseCapabilities, channelVars, scriptVars, historyVars
    <3> QED BY <1>1, <3>1, <3>2, <3>3, <3>4, <3>5, <3>6
  <2>3. pc' = pc \/ pc' \in {"show", "idle"}
    BY <1>1 DEF FirmwareAnswers, systemVars, vars, scriptVars, ReportLine,
       ReadLine, Takes, ReceiveWhileBusy, ReceiveNothing, ReportLuaError,
       Conclude, Finishes, Finish, AdvertiseCapabilities
  <2> QED BY <1>s, <2>1, <2>2, <2>3, TruthKept DEF Settles
<1>2. CASE PowerSide /\ ~AdvertiseCapabilities
  <2>1. ~Startup
    BY <1>s DEF Startup
  <2>2. (\E c \in Chargers : Attach(c)) \/ Detach
    BY <1>2, <2>1 DEF PowerSide
  <2>3. /\ granted' = granted /\ pd_initialized' = pd_initialized /\ pc' = pc
        /\ disturbed' = TRUE /\ replugged' = TRUE /\ tcp' = tcp
    BY <2>2 DEF Attach, Detach, channelVars, scriptVars
  <2>4. call' = call /\ todo' = todo
    BY <1>2 DEF PowerSide, NoHost, driverSide, firmware
  <2> QED BY <1>s, <2>3, <2>4, TruthKept DEF Settles
<1>3. ~DeliverText /\ ~(Takes /\ ReceiveCommand)
  BY <1>s DEF DeliverText, ReceiveCommand
<1>4. WorkOnCommand => ReportLuaError
  BY <1>s DEF WorkOnCommand, process_command, OpenFastCharge,
     CheckSourceAttached, CapabilitiesSeen, HardReset, GiveUpWaiting,
     ReadCapabilities, ReadNoCapability, ReadInterrupted, NotFound, Request,
     RequestGranted, RequestFailed, RequestRaises, MeasureAndReply, PrintTrace
<1>5. Works => ReportLuaError
  BY <1>4 DEF Works
<1> QED BY <1>1, <1>2, <1>3, <1>5 DEF SystemNext

\* What the script says while it works on the call's command, and the lines
\* that settle the call.
LEMMA WorkSays ==
  ASSUME Inv, Power, OnlyCommand, Asked, WorkOnCommand, call' = call, todo' = todo
  PROVE  \/ out' = out
         \/ \E l : out' = Append(out, l) /\ (EndsCall(l)' => Settles(l)')
<1>b. command_busy /\ pc \in Steps \ {"boot", "exited", "idle"}
  BY DEF Inv, TypeOK, Meaning, BusyWhileRunning, WorkOnCommand, process_command,
     OpenFastCharge, CheckSourceAttached, CapabilitiesSeen, HardReset,
     GiveUpWaiting, ReadCapabilities, ReadNoCapability, ReadInterrupted,
     NotFound, Request, RequestGranted, RequestFailed, RequestRaises,
     MeasureAndReply, PrintTrace, ReportLuaError
<1>o. todo = <<>> /\ tcp = <<>> /\ command = call.cmd
  BY <1>b DEF OnlyCommand
<1>i. /\ pc # "process" /\ pc # "show" => command.op = "PD"
      /\ pc \in {"open", "attached", "wait", "wait again", "read"} => ~pd_initialized
      /\ pc \in {"search", "settle"} => pd_initialized
      /\ pd_initialized /\ ~replugged =>
           source # NoSource /\ source_caps = Capabilities[source]
      /\ pc = "settle" =>
           granted = command.v /\ (contract = command.v \/ disturbed)
      /\ pc \in Ungranted => granted = NoVoltage
      /\ pc \in {"raised", "report"} /\ pd_initialized => replugged
  BY <1>b DEF Inv, Meaning, RequestsOnly, CacheCurrent, GrantStands, Power,
     NothingGrantedYet, RefusedAfterReplug
<1>s. ASSUME NEW l, tcp' = tcp, pc' \in {"report", "show"}, IsTrue(l)'
      PROVE  Settles(l)'
  BY <1>o, <1>s DEF Settles
<1>1. CASE process_command
  <2>1. NoSinkCall /\ pc = "process"
    BY <1>1 DEF process_command
  <2>2. CASE GoTo("search") \/ GoTo("open")
    BY <2>2 DEF GoTo
  <2>3. CASE Conclude(Say("PONG", NoVoltage)) /\ command.op = "PING"
    <3>1. IsTrue(Say("PONG", NoVoltage))'
      <4>1. Say("PONG", NoVoltage).kind = "PONG"
        BY DEF Say
      <4>2. ~Driver!raises(Say("PONG", NoVoltage))
        BY <4>1 DEF Driver!raises, Driver!SourceErrors, Driver!LuaErrors
      <4>3. call'.cmd.op # "PD"
        BY <1>o, <2>3
      <4>4. /\ parse_lua_result(Say("PONG", NoVoltage), call'.cmd) # "KT002PDONotFoundError"
            /\ parse_lua_result(Say("PONG", NoVoltage), call'.cmd) # "KT002PDSourceError"
        BY <4>1, Parsed DEF SourceErrors
      <4> QED BY <4>2, <4>3, <4>4 DEF IsTrue
    <3> QED BY <1>s, <2>1, <2>3, <3>1, NoSinkCallLeaves DEF Conclude, send_reply
  <2>4. CASE Conclude(Say("UNKNOWN_COMMAND", NoVoltage))
    <3>1. Say("UNKNOWN_COMMAND", NoVoltage).kind = "UNKNOWN_COMMAND"
      BY DEF Say
    <3>2. granted' = NoVoltage
      BY <1>i, <2>1, NoSinkCallLeaves DEF Ungranted
    <3>3. IsTrue(Say("UNKNOWN_COMMAND", NoVoltage))'
      BY <3>1, <3>2, TrueWithoutGrant DEF SourceErrors
    <3> QED BY <1>s, <2>1, <2>4, <3>3, NoSinkCallLeaves DEF Conclude, send_reply
  <2> QED BY <1>1, <2>2, <2>3, <2>4, <1>b DEF process_command, Inv, Meaning, RequestsOnly, Command
<1>2. CASE OpenFastCharge \/ CheckSourceAttached \/ GiveUpWaiting \/ ReadNoCapability
  <2>1. \/ GoTo("attached") \/ GoTo("wait")
        \/ \E k \in SourceErrors : Conclude(Say(k, NoVoltage))
    BY <1>2 DEF OpenFastCharge, CheckSourceAttached, GiveUpWaiting,
       ReadNoCapability, SourceErrors
  <2>2. /\ pc \in {"open", "attached", "wait again", "read"}
        /\ granted' = granted /\ pd_initialized' = pd_initialized /\ tcp' = tcp
    BY <1>2, NoSinkCallLeaves DEF OpenFastCharge, CheckSourceAttached,
       GiveUpWaiting, ReadNoCapability, InCommand
  <2>3. ASSUME NEW k \in SourceErrors, Conclude(Say(k, NoVoltage))
        PROVE  IsTrue(Say(k, NoVoltage))'
    <3>1. Say(k, NoVoltage).kind = k
      BY DEF Say
    <3>2. granted' = NoVoltage /\ ~pd_initialized'
      BY <1>i, <2>2 DEF Ungranted
    <3>3. k \notin {"OK_PD", "PONG", "PDO_NOT_FOUND", "TRACE_NO_PDO", "ERROR_LUA_NO_PDO"}
      BY DEF SourceErrors
    <3> QED BY <3>1, <3>2, <3>3, TrueWithoutGrant
  <2> QED BY <1>s, <2>1, <2>2, <2>3 DEF GoTo, Conclude, send_reply
<1>3. CASE CapabilitiesSeen \/ HardReset \/ ReadInterrupted
  BY <1>3 DEF CapabilitiesSeen, HardReset, ReadInterrupted, GoTo
<1>4. CASE ReadCapabilities
  <2>1. ~EndsCall(Say("PD_INITIALIZED", NoVoltage))'
    BY DEF EndsCall, Say, Driver!accepts, Driver!raises, Driver!SourceErrors,
       Driver!LuaErrors
  <2> QED BY <1>4, <2>1 DEF ReadCapabilities, send_reply
<1>5. CASE NotFound
  <2>1. /\ NoSinkCall /\ pc = "search" /\ Matches(command.v) = {}
        /\ Conclude(Say("PDO_NOT_FOUND", command.v))
    BY <1>5 DEF NotFound
  <2>2. PICK l : l = Say("PDO_NOT_FOUND", command.v)
    OBVIOUS
  <2>3. l.kind = "PDO_NOT_FOUND"
    BY <2>2 DEF Say
  <2>4. granted' = NoVoltage
    BY <1>i, <2>1, NoSinkCallLeaves DEF Ungranted
  <2>5. ~replugged => source # NoSource /\ ~Advertises(source, call.cmd.v)
    BY <1>i, <1>o, <2>1 DEF Matches, Advertises
  <2>6. (~replugged => source # NoSource /\ ~Advertises(source, call.cmd.v))'
    BY <2>1, <2>5, NoSinkCallLeaves DEF Advertises
  <2>7. IsTrue(l)'
    BY <2>3, <2>4, <2>6, TrueWithoutGrant DEF SourceErrors
  <2> QED BY <1>s, <2>1, <2>2, <2>7, NoSinkCallLeaves DEF Conclude, send_reply
<1>6. ASSUME NEW i \in DOMAIN source_caps, RequestGranted(i) \/ RequestRaises(i)
      PROVE  out' = out
  BY <1>6 DEF RequestGranted, RequestRaises, GoTo
<1>7. ASSUME NEW i \in DOMAIN source_caps, RequestFailed(i)
      PROVE  \E l : out' = Append(out, l) /\ (EndsCall(l)' => Settles(l)')
  <2>1. /\ NoSinkCall /\ pc = "search" /\ Conclude(Say("REQUEST_FAILED", command.v))
    BY <1>7 DEF RequestFailed, Request
  <2>2. PICK l : l = Say("REQUEST_FAILED", command.v)
    OBVIOUS
  <2>3. l.kind = "REQUEST_FAILED"
    BY <2>2 DEF Say
  <2>4. granted' = NoVoltage
    BY <1>i, <2>1, NoSinkCallLeaves DEF Ungranted
  <2>5. IsTrue(l)'
    BY <2>3, <2>4, TrueWithoutGrant DEF SourceErrors
  <2> QED BY <1>s, <2>1, <2>2, <2>5, NoSinkCallLeaves DEF Conclude, send_reply
<1>8. CASE MeasureAndReply
  <2>1. /\ NoSinkCall /\ pc = "settle" /\ Conclude(SayMeasured(command.v, contract))
    BY <1>8 DEF MeasureAndReply
  <2>2. PICK l : l = SayMeasured(command.v, contract)
    OBVIOUS
  <2>3. l.kind = "OK_PD" /\ l.v = command.v
    BY <2>2 DEF SayMeasured
  <2>4. ~Driver!raises(l)
    BY <2>3 DEF Driver!raises, Driver!SourceErrors, Driver!LuaErrors
  <2>5. /\ parse_lua_result(l, call'.cmd) # "KT002PDONotFoundError"
        /\ parse_lua_result(l, call'.cmd) # "KT002PDSourceError"
    BY <2>3, Parsed DEF SourceErrors
  <2>6. granted' = call'.cmd.v /\ (contract' = call'.cmd.v \/ disturbed')
    BY <1>i, <1>o, <2>1, NoSinkCallLeaves
  <2>7. IsTrue(l)'
    BY <2>4, <2>5, <2>6 DEF IsTrue
  <2> QED BY <1>s, <2>1, <2>2, <2>7, NoSinkCallLeaves DEF Conclude, send_reply
<1>9. CASE PrintTrace \/ ReportLuaError
  <2>1. /\ NoSinkCall /\ pc \in {"raised", "report"} /\ pc' \in {"report", "show"}
    BY <1>9 DEF PrintTrace, ReportLuaError, Conclude
  <2>2. PICK l : /\ out' = Append(out, l)
                 /\ \/ l.kind \in {"TRACE_NO_PDO", "ERROR_LUA_NO_PDO"} /\ pd_initialized
                    \/ l.kind \in {"TRACE", "ERROR_LUA"}
    BY <1>9 DEF PrintTrace, ReportLuaError, Conclude, send_reply, Say, RaisedByRequest
  <2>3. granted' = NoVoltage
    BY <1>i, <2>1, NoSinkCallLeaves DEF Ungranted
  <2>4. l.kind \in {"TRACE_NO_PDO", "ERROR_LUA_NO_PDO"} => replugged'
    BY <1>i, <2>1, <2>2, NoSinkCallLeaves
  <2>5. IsTrue(l)'
    BY <2>2, <2>3, <2>4, TrueWithoutGrant DEF SourceErrors
  <2> QED BY <1>s, <2>1, <2>2, <2>5, NoSinkCallLeaves
<1> QED
  BY <1>1, <1>2, <1>3, <1>4, <1>5, <1>6, <1>7, <1>8, <1>9 DEF WorkOnCommand

-----------------------------------------------------------------------------
(* Types, and the driver's own invariant *)

LEMMA SequenceEnds ==
  ASSUME NEW S, NEW q \in Seq(S), q # <<>>
  PROVE  /\ Head(q) \in S /\ Tail(q) \in Seq(S)
         /\ 1 \in DOMAIN q /\ Head(q) = q[1]
         /\ \A i \in DOMAIN Tail(q) : i + 1 \in DOMAIN q /\ Tail(q)[i] = q[i + 1]
OBVIOUS

LEMMA SequenceSuffix ==
  ASSUME NEW S, NEW q \in Seq(S), NEW n \in DOMAIN q
  PROVE  \A i \in DOMAIN SubSeq(q, n + 1, Len(q)) :
           i + n \in DOMAIN q /\ SubSeq(q, n + 1, Len(q))[i] = q[i + n]
OBVIOUS

LEMMA AppendKeeps ==
  ASSUME NEW S, NEW q \in Seq(S), NEW x \in S
  PROVE  Append(q, x) \in Seq(S)
OBVIOUS

LEMMA AppendIs ==
  ASSUME NEW S, NEW q \in Seq(S), NEW x, NEW i \in DOMAIN Append(q, x)
  PROVE  (i \in DOMAIN q /\ Append(q, x)[i] = q[i]) \/ Append(q, x)[i] = x
OBVIOUS

\* What the driver keeps to itself.
LEMMA OthersKeepHost ==
  ASSUME HostInv, UNCHANGED <<driverSide, putchar, owed>>,
         usb_in' \in Seq(Driver!Frame), todo' \in Seq(Driver!Request),
         working' \cup unread' \in SUBSET Driver!Ids
  PROVE  HostInv'
<1>1. /\ connected' = connected /\ lua_miso_registered' = lua_miso_registered
      /\ dpc' = dpc /\ call' = call /\ ack_received' = ack_received
      /\ accepted_line' = accepted_line /\ pending_text' = pending_text
      /\ outcome' = outcome /\ settled' = settled /\ calls' = calls
      /\ putchar' = putchar /\ owed' = owed
  BY DEF driverSide
<1>2. Driver!TypeOK'
  BY <1>1 DEF HostInv, Driver!TypeOK
<1>3. Host!CallUnderway'
  BY <1>1 DEF HostInv, Host!CallUnderway
<1>4. Host!Locals'
  BY <1>1 DEF HostInv, Host!Locals, Host!accepts
<1> QED BY <1>2, <1>3, <1>4 DEF HostInv

LEMMA TypesStep ==
  ASSUME Inv, HostInv, unread \in SUBSET Driver!Ids, [SystemNext]_systemVars
  PROVE  HostInv' /\ unread' \in SUBSET Driver!Ids
<1>t. /\ usb_in \in Seq(Driver!Frame) /\ todo \in Seq(Driver!Request)
      /\ working \cup unread \in SUBSET Driver!Ids
      /\ out \in Seq(Line)
  BY DEF HostInv, Driver!TypeOK, Inv, TypeOK
<1>1. CASE DriverRuns \/ FirmwareAnswers
  <2>1. HostInv'
    BY <1>1, HostStep DEF DriverRuns, FirmwareAnswers
  <2> QED BY <1>1, <2>1 DEF DriverRuns, FirmwareAnswers
<1>2. CASE DeliverText
  <2>1. Head(todo) \in Driver!Request /\ todo' \in Seq(Driver!Request)
    BY <1>t, <1>2, SequenceEnds DEF DeliverText
  <2>2. Head(todo).id \in Driver!Ids
    BY <2>1 DEF Driver!Request
  <2>3. unread' \in SUBSET Driver!Ids /\ working' \cup unread' \in SUBSET Driver!Ids
    BY <1>t, <1>2, <2>2 DEF DeliverText
  <2>4. UNCHANGED <<driverSide, putchar, owed>> /\ usb_in' \in Seq(Driver!Frame)
    BY <1>t, <1>2 DEF DeliverText
  <2> QED BY <2>1, <2>3, <2>4, OthersKeepHost
<1>3. CASE ReportLine
  <2>1. Head(out) \in Line
    BY <1>t, <1>3, SequenceEnds DEF ReportLine, ReadLine
  <2>2. PICK about \in SUBSET Driver!Ids :
          usb_in' = IF putchar THEN Append(usb_in, Driver!Text(Head(out), "whole", about))
                               ELSE usb_in
    BY <1>3, <1>t DEF ReportLine
  <2>3. Driver!Text(Head(out), "whole", about) \in Driver!Frame
    BY <2>1, SameWords DEF Driver!Text, Driver!Frame, Driver!Parts
  <2>4. Append(usb_in, Driver!Text(Head(out), "whole", about)) \in Seq(Driver!Frame)
    BY <1>t, <2>3, AppendKeeps
  <2>5. usb_in' \in Seq(Driver!Frame)
    BY <1>t, <2>2, <2>4
  <2>6. /\ UNCHANGED <<driverSide, putchar, owed>>
        /\ todo' = todo /\ working' = working /\ unread' = unread
    BY <1>3 DEF ReportLine, firmware
  <2> QED BY <1>t, <2>5, <2>6, OthersKeepHost
<1>4. CASE Takes \/ Works \/ Finishes \/ PowerSide \/ UNCHANGED systemVars
  <2>1. /\ UNCHANGED <<driverSide, putchar, owed>>
        /\ todo' = todo /\ usb_in' = usb_in
    BY <1>4 DEF Takes, Works, Finishes, PowerSide, NoHost, firmware, systemVars
  <2>2. /\ unread' \in {unread, {}} /\ working' \in {working, unread, {}}
    BY <1>4 DEF Takes, Works, Finishes, PowerSide, systemVars
  <2> QED BY <1>t, <2>1, <2>2, OthersKeepHost
<1> QED BY <1>1, <1>2, <1>3, <1>4 DEF SystemNext

LEMMA TypesInit == SystemInit => HostInv /\ unread \in SUBSET Driver!Ids
<1> SUFFICES ASSUME SystemInit PROVE HostInv /\ unread \in SUBSET Driver!Ids
  OBVIOUS
<1>1. Host!Init
  BY DEF SystemInit, Driver!Init, Host!Init, Driver!NoFrame, Host!NoFrame,
     Driver!Plain, Host!Plain, Driver!NoLine, Host!NoLine, Driver!Say, Host!Say,
     Driver!NoVoltage, Host!NoVoltage, Driver!NoCommand, Host!NoCommand
<1>2. Host!TypeOK
  BY <1>1, HostAssumptions, Host!InitTypes
<1>3. Host!CallUnderway /\ Host!Locals
  BY <1>1 DEF Host!Init, Host!CallUnderway, Host!Locals, Host!SendsCommand, Host!WaitsForLine
<1>4. Driver!TypeOK
  BY <1>2, SameDriver
<1> QED BY <1>3, <1>4 DEF HostInv, SystemInit

-----------------------------------------------------------------------------
(* What lies on the way *)

\* Frames are taken from the wire one by one, or with a damaged one.
Shortened ==
  \/ usb_in # <<>> /\ usb_in' = Tail(usb_in)
  \/ \E n \in DOMAIN usb_in : usb_in' = SubSeq(usb_in, n + 1, Len(usb_in))

\* What the driver does to the wire and to its own variables.
LEMMA DriverWire ==
  ASSUME Driver!Driver
  PROVE  /\ usb_in' = usb_in \/ Shortened
         /\ owed' = owed \/ \E kind \in {"ack", "pong", "setup ack"} :
                              owed' = Append(owed, Driver!Plain(kind, {call.id}))
         /\ \/ pending_text' \in {pending_text, Driver!NoFrame}
            \/ /\ usb_in # <<>> /\ pending_text' = Head(usb_in)
               /\ Head(usb_in).part \in {"head", "stub"}
<1> USE DEF Shortened, Driver!NoDevice, Driver!deviceVars, Driver!GoesOn, Driver!callVars,
            Driver!EndsWithout, Driver!Ends, Driver!FreshLocals
<1>1. CASE Driver!close \/ Driver!connect \/ Driver!ConnectFails
  BY <1>1 DEF Driver!close, Driver!connect, Driver!ConnectFails
<1>2. CASE Driver!StartCall
  <2>1. Driver!EndsWithout("usb error") \/ Driver!GoesOn("register drain")
          \/ Driver!GoesOn("drain")
    BY <1>2 DEF Driver!StartCall
  <2> QED BY <1>2, <2>1 DEF Driver!StartCall
<1>3. CASE Driver!DrainFrame \/ Driver!Drained
  <2>1. CASE Driver!DrainFrame
    BY <2>1 DEF Driver!DrainFrame, Driver!driverVars
  <2>2. CASE Driver!Drained
    BY <2>2 DEF Driver!Drained
  <2> QED BY <1>3, <2>1, <2>2
<1>4. CASE Driver!RegisterWrite
  BY <1>4 DEF Driver!RegisterWrite
<1>5. CASE Driver!Write
  BY <1>5 DEF Driver!Write, Driver!Delivered
<1>d. CASE Driver!ReadDamaged
  BY <1>d DEF Driver!ReadDamaged, Shortened
<1>6. CASE \/ Driver!ReadOther \/ Driver!RegisterAck
           \/ Driver!ProtocolAck \/ Driver!ReadAck
  BY <1>6 DEF Driver!ReadOther, Driver!RegisterAck,
     Driver!ProtocolAck, Driver!ReadAck, Driver!Reads, Driver!Continues
<1>7. CASE Driver!ReadPart
  BY <1>7 DEF Driver!ReadPart, Driver!Reads, Driver!Received
<1>8. CASE Driver!ReadLine
  BY <1>8 DEF Driver!ReadLine, Driver!Reads
<1>9. CASE Driver!TimeOut \/ Driver!TimeOutWithText \/ Driver!ReadFails
  BY <1>9 DEF Driver!TimeOut, Driver!TimeOutWithText, Driver!ReadFails,
     Driver!KeepsConnection
<1> QED
  BY <1>1, <1>2, <1>3, <1>4, <1>5, <1>d, <1>6, <1>7, <1>8, <1>9 DEF Driver!Driver

\* What is true of each frame queued stays so when one is read.
LEMMA ReadKeeps ==
  ASSUME HostInv, usb_in' = usb_in \/ Shortened,
         NEW i \in DOMAIN usb_in'
  PROVE  \E j \in DOMAIN usb_in : usb_in'[i] = usb_in[j]
<1>t. usb_in \in Seq(Driver!Frame)
  BY DEF HostInv, Driver!TypeOK
<1>1. CASE usb_in' = usb_in
  BY <1>1
<1>2. CASE usb_in # <<>> /\ usb_in' = Tail(usb_in)
  <2>1. i \in DOMAIN Tail(usb_in) /\ usb_in'[i] = Tail(usb_in)[i]
    BY <1>2
  <2>2. i + 1 \in DOMAIN usb_in /\ Tail(usb_in)[i] = usb_in[i + 1]
    BY <1>t, <1>2, <2>1, SequenceEnds
  <2> QED BY <2>1, <2>2
<1>3. CASE \E n \in DOMAIN usb_in : usb_in' = SubSeq(usb_in, n + 1, Len(usb_in))
  <2>1. PICK n \in DOMAIN usb_in : usb_in' = SubSeq(usb_in, n + 1, Len(usb_in))
    BY <1>3
  <2>2. i \in DOMAIN SubSeq(usb_in, n + 1, Len(usb_in))
    BY <2>1
  <2>3. i + n \in DOMAIN usb_in /\ usb_in'[i] = usb_in[i + n]
    BY <1>t, <2>1, <2>2, SequenceSuffix
  <2> QED BY <2>3
<1> QED BY <1>1, <1>2, <1>3 DEF Shortened

\* How the script starts.
LEMMA StartSays ==
  ASSUME Power, Startup
  PROVE  \E l : /\ out' = Append(out, l) /\ l.kind \in ForNone
                /\ l.kind = "SCREEN_OPEN_FAILED" => Exited'
<1>1. pc = "boot" /\ granted = NoVoltage /\ granted' = granted
  BY DEF Startup, Power, NothingGrantedYet, Ungranted, historyVars
<1>2. CASE pc' = "idle" /\ send_reply(Say("READY", NoVoltage))
  <2>1. /\ Say("READY", NoVoltage).kind \in ForNone
        /\ Say("READY", NoVoltage).kind # "SCREEN_OPEN_FAILED"
    BY DEF ForNone, Say
  <2> QED BY <1>2, <2>1 DEF send_reply
<1>3. CASE pc' = "exited" /\ send_reply(Say("SCREEN_OPEN_FAILED", NoVoltage))
  <2>1. Say("SCREEN_OPEN_FAILED", NoVoltage).kind \in ForNone
    BY DEF ForNone, Say
  <2>2. Exited'
    BY <1>1, <1>3 DEF Exited
  <2> QED BY <1>3, <2>1, <2>2 DEF send_reply
<1> QED BY <1>2, <1>3 DEF Startup

\* The script says BUSY only from a callback, and that it ends only at its start.
LEMMA WorkNotBusy ==
  ASSUME WorkOnCommand
  PROVE  out' = out \/ \E l : out' = Append(out, l) /\ l.kind \notin OutsideWork
<1>c. ASSUME NEW l, Conclude(l), l.kind \notin OutsideWork
      PROVE  \E m : out' = Append(out, m) /\ m.kind \notin OutsideWork
  BY <1>c DEF Conclude, send_reply
<1>g. ASSUME NEW step, GoTo(step) PROVE out' = out
  BY <1>g DEF GoTo
<1>1. CASE process_command
  <2>1. GoTo("search") \/ GoTo("open") \/ Conclude(Say("PONG", NoVoltage))
          \/ Conclude(Say("UNKNOWN_COMMAND", NoVoltage))
    BY <1>1 DEF process_command
  <2> QED BY <1>c, <1>g, <2>1 DEF Say, OutsideWork
<1>2. CASE OpenFastCharge \/ CheckSourceAttached \/ CapabilitiesSeen \/ HardReset
           \/ GiveUpWaiting \/ ReadNoCapability \/ ReadInterrupted \/ NotFound
  BY <1>2, <1>c, <1>g DEF OpenFastCharge, CheckSourceAttached, CapabilitiesSeen,
     HardReset, GiveUpWaiting, ReadNoCapability, ReadInterrupted, NotFound, Say,
     OutsideWork
<1>3. CASE ReadCapabilities \/ PrintTrace
  BY <1>3 DEF ReadCapabilities, PrintTrace, send_reply, Say, OutsideWork
<1>4. ASSUME NEW i \in DOMAIN source_caps,
             RequestGranted(i) \/ RequestFailed(i) \/ RequestRaises(i)
      PROVE  out' = out \/ \E l : out' = Append(out, l) /\ l.kind \notin OutsideWork
  BY <1>4, <1>c, <1>g DEF RequestGranted, RequestFailed, RequestRaises, Say,
     OutsideWork
<1>5. CASE MeasureAndReply \/ ReportLuaError
  BY <1>5, <1>c DEF MeasureAndReply, ReportLuaError, Say, SayMeasured, OutsideWork
<1> QED BY <1>1, <1>2, <1>3, <1>4, <1>5 DEF WorkOnCommand

LEMMA WireStep ==
  ASSUME Inv, Power, HostInv, Wire, [SystemNext]_systemVars
  PROVE  Wire'
<1>t. /\ usb_in \in Seq(Driver!Frame) /\ owed \in Seq(Driver!Frame)
      /\ todo \in Seq(Driver!Request) /\ out \in Seq(Line)
  BY DEF HostInv, Driver!TypeOK, Inv, TypeOK
<1>w. /\ pending_text = Driver!NoFrame
      /\ \A i \in DOMAIN usb_in : usb_in[i].part = "whole"
      /\ \A i \in DOMAIN owed : owed[i].kind # "text" /\ owed[i].part = "whole"
      /\ tcp # <<>> => unread # {}
      /\ command_busy => working # {}
      /\ \A i \in DOMAIN out : out[i].kind \notin ForNone =>
                                 out[i].kind # "BUSY" /\ working # {}
      /\ \A i \in DOMAIN usb_in :
           usb_in[i].kind = "text" /\ usb_in[i].of = {} => usb_in[i].line.kind \in ForNone
  BY DEF Wire, WholeTexts, WhoseTexts, WhoseCommand, WhoseLines
<1>1. CASE DriverRuns
  <2>1. /\ UNCHANGED <<vars, unread, working>> /\ Driver!Driver
    BY <1>1 DEF DriverRuns
  <2>2. \A i \in DOMAIN usb_in' : \E j \in DOMAIN usb_in : usb_in'[i] = usb_in[j]
    BY <2>1, DriverWire, ReadKeeps
  <2>3. pending_text' = Driver!NoFrame
    <3>1. usb_in # <<>> => Head(usb_in).part = "whole"
      BY <1>t, <1>w, SequenceEnds
    <3> QED BY <1>w, <2>1, <3>1, DriverWire
  <2>4. \A i \in DOMAIN owed' : owed'[i].kind # "text" /\ owed'[i].part = "whole"
    <3>1. CASE owed' = owed
      BY <1>w, <3>1
    <3>2. ASSUME NEW kind \in {"ack", "pong", "setup ack"},
                 owed' = Append(owed, Driver!Plain(kind, {call.id})),
                 NEW i \in DOMAIN owed'
          PROVE  owed'[i].kind # "text" /\ owed'[i].part = "whole"
      <4>1. (i \in DOMAIN owed /\ owed'[i] = owed[i])
              \/ owed'[i] = Driver!Plain(kind, {call.id})
        BY <1>t, <3>2, AppendIs
      <4>2. /\ Driver!Plain(kind, {call.id}).kind = kind
            /\ Driver!Plain(kind, {call.id}).part = "whole"
        BY DEF Driver!Plain
      <4>3. kind # "text"
        BY <3>2
      <4> QED BY <1>w, <4>1, <4>2, <4>3
    <3> QED BY <2>1, <3>1, <3>2, DriverWire
  <2>5. /\ tcp' = tcp /\ command_busy' = command_busy /\ out' = out
        /\ working' = working /\ unread' = unread
    BY <2>1 DEF vars, channelVars, scriptVars
  <2>6. WholeTexts'
    BY <1>w, <2>2, <2>3, <2>4 DEF WholeTexts, Driver!NoFrame
  <2>7. WhoseTexts' /\ WhoseCommand'
    BY <1>w, <2>5 DEF WhoseTexts, WhoseCommand
  <2>8. WhoseLines'
    BY <1>w, <2>2, <2>5 DEF WhoseLines
  <2> QED BY <2>6, <2>7, <2>8 DEF Wire
<1>2. CASE FirmwareAnswers
  <2>1. /\ UNCHANGED <<vars, unread, working>> /\ owed # <<>>
        /\ usb_in' = Append(usb_in, Head(owed)) /\ owed' = Tail(owed)
        /\ pending_text' = pending_text
    BY <1>2 DEF FirmwareAnswers, Driver!SendOwed, Driver!Queue,
       Driver!driverVars, Driver!callVars
  <2>2. /\ Head(owed).kind # "text" /\ Head(owed).part = "whole"
        /\ \A i \in DOMAIN owed' : owed'[i].kind # "text" /\ owed'[i].part = "whole"
    BY <1>t, <1>w, <2>1, SequenceEnds
  <2>3. \A i \in DOMAIN usb_in' :
          (i \in DOMAIN usb_in /\ usb_in'[i] = usb_in[i]) \/ usb_in'[i] = Head(owed)
    BY <1>t, <2>1, AppendIs
  <2>4. /\ tcp' = tcp /\ command_busy' = command_busy /\ out' = out
        /\ working' = working /\ unread' = unread
    BY <2>1 DEF vars, channelVars, scriptVars
  <2>5. WholeTexts'
    BY <1>w, <2>1, <2>2, <2>3 DEF WholeTexts, Driver!NoFrame
  <2>6. WhoseTexts' /\ WhoseCommand'
    BY <1>w, <2>4 DEF WhoseTexts, WhoseCommand
  <2>7. WhoseLines'
    BY <1>w, <2>2, <2>3, <2>4 DEF WhoseLines
  <2> QED BY <2>5, <2>6, <2>7 DEF Wire
<1>3. CASE ReportLine
  <2>1. /\ out # <<>> /\ out' = Tail(out)
        /\ tcp' = tcp /\ command_busy' = command_busy
        /\ working' = working /\ unread' = unread
        /\ owed' = owed /\ pending_text' = pending_text
    BY <1>3 DEF ReportLine, ReadLine, scriptVars, driverSide, firmware
  <2>2. PICK f : /\ usb_in' = usb_in \/ usb_in' = Append(usb_in, f)
                 /\ f.part = "whole" /\ f.line = Head(out)
                 /\ f.of = IF Head(out).kind = "BUSY" THEN unread ELSE working
    <3> DEFINE about == IF Head(out).kind = "BUSY" THEN unread ELSE working
               f == Driver!Text(Head(out), "whole", about)
    <3>1. usb_in' = usb_in \/ usb_in' = Append(usb_in, f)
      BY <1>3 DEF ReportLine
    <3>2. f.part = "whole" /\ f.line = Head(out) /\ f.of = about
      BY DEF Driver!Text
    <3> HIDE DEF f
    <3> QED BY <3>1, <3>2
  <2>3. f.of = {} => f.line.kind \in ForNone
    <3>1. Head(out).kind \notin ForNone => Head(out).kind # "BUSY" /\ working # {}
      BY <1>t, <1>w, <2>1, SequenceEnds
    <3> QED BY <2>2, <3>1
  <2>4. \A i \in DOMAIN usb_in' :
          (i \in DOMAIN usb_in /\ usb_in'[i] = usb_in[i]) \/ usb_in'[i] = f
    <3>1. CASE usb_in' = usb_in
      BY <3>1
    <3>2. CASE usb_in' = Append(usb_in, f)
      BY <1>t, <3>2, AppendIs
    <3> QED BY <2>2, <3>1, <3>2
  <2>5. \A i \in DOMAIN out' : \E j \in DOMAIN out : out'[i] = out[j]
    BY <1>t, <2>1, SequenceEnds
  <2>6. WholeTexts'
    BY <1>w, <2>1, <2>2, <2>4 DEF WholeTexts, Driver!NoFrame
  <2>7. WhoseTexts' /\ WhoseCommand'
    BY <1>w, <2>1 DEF WhoseTexts, WhoseCommand
  <2>8. WhoseLines'
    <3>1. \A i \in DOMAIN out' : out'[i].kind \notin ForNone =>
                                   out'[i].kind # "BUSY" /\ working' # {}
      BY <1>w, <2>1, <2>5
    <3>2. \A i \in DOMAIN usb_in' :
            usb_in'[i].kind = "text" /\ usb_in'[i].of = {} => usb_in'[i].line.kind \in ForNone
      BY <1>w, <2>3, <2>4
    <3> QED BY <3>1, <3>2 DEF WhoseLines
  <2> QED BY <2>6, <2>7, <2>8 DEF Wire
<1>4. CASE DeliverText \/ Takes \/ Works \/ Finishes \/ PowerSide \/ UNCHANGED systemVars
  <2>1. /\ usb_in' = usb_in /\ owed' = owed /\ pending_text' = pending_text
    BY <1>4 DEF DeliverText, Takes, Works, Finishes, PowerSide, NoHost,
       driverSide, firmware, systemVars
  <2>2. WholeTexts'
    BY <1>w, <2>1 DEF WholeTexts, Driver!NoFrame
  <2>3. WhoseTexts' /\ WhoseCommand'
        /\ \A i \in DOMAIN out' : out'[i].kind \notin ForNone =>
                                     out'[i].kind # "BUSY" /\ working' # {}
    <3>1. CASE DeliverText
      <4>1. /\ unread' # {} /\ working' = working
            /\ out' = out /\ command_busy' = command_busy
        BY <3>1 DEF DeliverText, Send, scriptVars
      <4> QED BY <1>w, <4>1 DEF WhoseTexts, WhoseCommand
    <3>2. CASE Takes /\ ReceiveCommand
      <4>1. /\ out = <<>> /\ out' = out /\ tcp # <<>> /\ tcp' = <<>>
            /\ working' = unread
        BY <3>2 DEF Takes, Quiet, ReceiveCommand, ReceiveNothing,
           ReceiveWhileBusy
      <4> QED BY <1>w, <4>1 DEF WhoseTexts, WhoseCommand
    <3>3. CASE Takes /\ ReceiveNothing /\ ~ReceiveCommand
      <4>1. /\ tcp' = tcp /\ command_busy' = command_busy /\ out' = out
            /\ working' = working /\ unread' = unread
        BY <3>3 DEF Takes, ReceiveNothing, scriptVars
      <4> QED BY <1>w, <4>1 DEF WhoseTexts, WhoseCommand
    <3>4. CASE Takes /\ ReceiveWhileBusy /\ ~ReceiveCommand
      <4>1. /\ tcp' = tcp /\ command_busy' = command_busy /\ command_busy
            /\ working' = working /\ unread' = unread
            /\ out' = Append(out, Say("BUSY", NoVoltage)) /\ CallbackDue
        BY <3>4 DEF Takes, ReceiveWhileBusy, scriptVars, send_reply
      <4>2. Reentrant
        BY <4>1 DEF CallbackDue, Inv, Meaning, BusyWhileRunning
      <4>3. Say("BUSY", NoVoltage).kind \in ForNone
        BY <4>2 DEF ForNone, Say
      <4>4. \A i \in DOMAIN out' :
              (i \in DOMAIN out /\ out'[i] = out[i]) \/ out'[i] = Say("BUSY", NoVoltage)
        BY <1>t, <4>1, AppendIs
      <4>5. \A i \in DOMAIN out' : out'[i].kind \notin ForNone =>
                                     out'[i].kind # "BUSY" /\ working' # {}
        BY <1>w, <4>1, <4>3, <4>4
      <4> QED BY <1>w, <4>1, <4>5 DEF WhoseTexts, WhoseCommand
    <3>5. CASE Works
      <4>1. command_busy
        BY <3>5 DEF Works, Inv, TypeOK, Meaning, BusyWhileRunning,
           WorkOnCommand, process_command, OpenFastCharge,
           CheckSourceAttached, CapabilitiesSeen, HardReset, GiveUpWaiting,
           ReadCapabilities, ReadNoCapability, ReadInterrupted, NotFound,
           Request, RequestGranted, RequestFailed, RequestRaises,
           MeasureAndReply, PrintTrace, ReportLuaError
      <4>2. tcp' = tcp /\ command_busy' = command_busy
        BY <3>5 DEF Works, WorkOnCommand, process_command, OpenFastCharge,
           CheckSourceAttached, CapabilitiesSeen, HardReset, GiveUpWaiting,
           ReadCapabilities, ReadNoCapability, ReadInterrupted, NotFound,
           RequestGranted, RequestFailed, RequestRaises, MeasureAndReply,
           PrintTrace, ReportLuaError, NoSinkCall, InCommand
      <4>3. working' = working /\ unread' = unread /\ WorkOnCommand
        BY <3>5 DEF Works
      <4>4. \A i \in DOMAIN out' :
              (i \in DOMAIN out /\ out'[i] = out[i]) \/ out'[i].kind # "BUSY"
        <5>1. CASE out' = out
          BY <5>1
        <5>2. ASSUME NEW l, out' = Append(out, l), l.kind # "BUSY", NEW i \in DOMAIN out'
              PROVE  (i \in DOMAIN out /\ out'[i] = out[i]) \/ out'[i].kind # "BUSY"
          BY <1>t, <5>2, AppendIs
        <5> QED BY <4>3, <5>1, <5>2, WorkNotBusy DEF OutsideWork
      <4> QED BY <1>w, <4>1, <4>2, <4>3, <4>4 DEF WhoseTexts, WhoseCommand
    <3>6. CASE Finishes
      <4>1. /\ tcp' = tcp /\ command_busy' = FALSE /\ out = <<>> /\ out' = out
            /\ unread' = unread
        BY <3>6 DEF Finishes, Quiet, Finish, channelVars
      <4> QED BY <1>w, <4>1 DEF WhoseTexts, WhoseCommand
    <3>7. CASE PowerSide
      <4>1. /\ tcp' = tcp /\ command_busy' = command_busy
            /\ working' = working /\ unread' = unread
        BY <3>7 DEF PowerSide, Startup, Attach, Detach,
           AdvertiseCapabilities, channelVars, scriptVars
      <4>2. out' = out \/ \E l : out' = Append(out, l) /\ l.kind \in ForNone
        BY <3>7, StartSays DEF PowerSide, Attach, Detach,
           AdvertiseCapabilities, channelVars
      <4>3. \A i \in DOMAIN out' :
              (i \in DOMAIN out /\ out'[i] = out[i]) \/ out'[i].kind \in ForNone
        <5>1. CASE out' = out
          BY <5>1
        <5>2. ASSUME NEW l, out' = Append(out, l), l.kind \in ForNone, NEW i \in DOMAIN out'
              PROVE  (i \in DOMAIN out /\ out'[i] = out[i]) \/ out'[i].kind \in ForNone
          <6>1. (i \in DOMAIN out /\ out'[i] = out[i]) \/ out'[i] = l
            BY <1>t, <5>2, AppendIs
          <6> QED BY <5>2, <6>1
        <5> QED BY <4>2, <5>1, <5>2
      <4> QED BY <1>w, <4>1, <4>3 DEF WhoseTexts, WhoseCommand
    <3>8. CASE UNCHANGED systemVars
      <4>1. /\ tcp' = tcp /\ command_busy' = command_busy /\ out' = out
            /\ working' = working /\ unread' = unread
        BY <3>8 DEF systemVars, vars, channelVars, scriptVars
      <4> QED BY <1>w, <4>1 DEF WhoseTexts, WhoseCommand
    <3> QED BY <1>4, <3>1, <3>2, <3>3, <3>4, <3>5, <3>6, <3>7, <3>8 DEF Takes
  <2>4. WhoseLines'
    BY <1>w, <2>1, <2>3 DEF WhoseLines
  <2> QED BY <2>2, <2>3, <2>4 DEF Wire
<1> QED BY <1>1, <1>2, <1>3, <1>4 DEF SystemNext

\* Nobody hears of an end of the script before it ends.
LEMMA ExitSaidStep ==
  ASSUME Inv, Power, HostInv, Wire, ExitSaid, [SystemNext]_systemVars
  PROVE  ExitSaid'
<1> SUFFICES ASSUME ~Exited, ~Exited' PROVE ExitSaid'
  BY ExitedStays DEF ExitSaid
<1>t. /\ usb_in \in Seq(Driver!Frame) /\ owed \in Seq(Driver!Frame)
      /\ out \in Seq(Line)
  BY DEF HostInv, Driver!TypeOK, Inv, TypeOK
<1>w. /\ \A i \in DOMAIN out : out[i].kind # "SCREEN_OPEN_FAILED"
      /\ \A i \in DOMAIN usb_in :
           usb_in[i].kind = "text" => usb_in[i].line.kind # "SCREEN_OPEN_FAILED"
  BY DEF ExitSaid
<1>e. ASSUME \A i \in DOMAIN out' : \/ \E j \in DOMAIN out : out'[i] = out[j]
                                    \/ out'[i].kind # "SCREEN_OPEN_FAILED",
             \A i \in DOMAIN usb_in' :
               \/ usb_in'[i].kind # "text"
               \/ \E j \in DOMAIN usb_in : usb_in'[i] = usb_in[j]
               \/ \E j \in DOMAIN out : usb_in'[i].line = out[j]
      PROVE  ExitSaid'
  BY <1>e, <1>w DEF ExitSaid
<1>1. CASE DriverRuns
  <2>1. out' = out /\ Driver!Driver
    BY <1>1 DEF DriverRuns, vars, channelVars
  <2>2. \A i \in DOMAIN usb_in' : \E j \in DOMAIN usb_in : usb_in'[i] = usb_in[j]
    BY <2>1, DriverWire, ReadKeeps
  <2> QED BY <1>e, <2>1, <2>2
<1>2. CASE FirmwareAnswers
  <2>1. /\ owed # <<>> /\ usb_in' = Append(usb_in, Head(owed)) /\ out' = out
    BY <1>2 DEF FirmwareAnswers, Driver!SendOwed, Driver!Queue, vars, channelVars
  <2>2. Head(owed).kind # "text"
    BY <1>t, <2>1, SequenceEnds DEF Wire, WholeTexts
  <2>3. \A i \in DOMAIN usb_in' :
          (i \in DOMAIN usb_in /\ usb_in'[i] = usb_in[i]) \/ usb_in'[i] = Head(owed)
    BY <1>t, <2>1, AppendIs
  <2> QED BY <1>e, <2>1, <2>2, <2>3
<1>3. CASE ReportLine
  <2>1. out # <<>> /\ out' = Tail(out)
    BY <1>3 DEF ReportLine, ReadLine
  <2>2. \A i \in DOMAIN out' : \E j \in DOMAIN out : out'[i] = out[j]
    BY <1>t, <2>1, SequenceEnds
  <2>3. 1 \in DOMAIN out /\ Head(out) = out[1]
    BY <1>t, <2>1, SequenceEnds
  <2>4. PICK f : /\ usb_in' = usb_in \/ usb_in' = Append(usb_in, f)
                 /\ f.line = Head(out)
    <3> DEFINE about == IF Head(out).kind = "BUSY" THEN unread ELSE working
               f == Driver!Text(Head(out), "whole", about)
    <3>1. usb_in' = usb_in \/ usb_in' = Append(usb_in, f)
      BY <1>3 DEF ReportLine
    <3>2. f.line = Head(out)
      BY DEF Driver!Text
    <3> HIDE DEF f
    <3> QED BY <3>1, <3>2
  <2>5. \A i \in DOMAIN usb_in' :
          (i \in DOMAIN usb_in /\ usb_in'[i] = usb_in[i]) \/ usb_in'[i] = f
    <3>1. CASE usb_in' = usb_in
      BY <3>1
    <3>2. CASE usb_in' = Append(usb_in, f)
      BY <1>t, <3>2, AppendIs
    <3> QED BY <2>4, <3>1, <3>2
  <2>6. \A i \in DOMAIN usb_in' :
          \/ \E j \in DOMAIN usb_in : usb_in'[i] = usb_in[j]
          \/ \E j \in DOMAIN out : usb_in'[i].line = out[j]
    BY <2>3, <2>4, <2>5
  <2> QED BY <1>e, <2>2, <2>6
<1>4. CASE DeliverText \/ Takes \/ Works \/ Finishes \/ PowerSide \/ UNCHANGED systemVars
  <2>1. usb_in' = usb_in
    BY <1>4 DEF DeliverText, Takes, Works, Finishes, PowerSide, NoHost, systemVars
  <2>2. out' = out \/ \E l : out' = Append(out, l) /\ l.kind # "SCREEN_OPEN_FAILED"
    <3>1. CASE DeliverText \/ Finishes \/ UNCHANGED systemVars
      BY <3>1 DEF DeliverText, Send, Finishes, Finish, channelVars, systemVars, vars
    <3>2. CASE Takes
      <4>1. Say("BUSY", NoVoltage).kind # "SCREEN_OPEN_FAILED"
        BY DEF Say
      <4> QED
        BY <3>2, <4>1 DEF Takes, ReceiveCommand, ReceiveNothing, ReceiveWhileBusy, send_reply
    <3>3. CASE Works
      BY <3>3, WorkNotBusy DEF Works, OutsideWork
    <3>4. CASE PowerSide
      BY <3>4, StartSays DEF PowerSide, Attach, Detach, AdvertiseCapabilities, channelVars
    <3> QED BY <1>4, <3>1, <3>2, <3>3, <3>4
  <2>3. \A i \in DOMAIN out' : \/ \E j \in DOMAIN out : out'[i] = out[j]
                               \/ out'[i].kind # "SCREEN_OPEN_FAILED"
    <3>1. CASE out' = out
      BY <3>1
    <3>2. CASE out' # out
      <4>1. PICK l : out' = Append(out, l) /\ l.kind # "SCREEN_OPEN_FAILED"
        BY <2>2, <3>2
      <4>2. \A i \in DOMAIN out' : (i \in DOMAIN out /\ out'[i] = out[i]) \/ out'[i] = l
        BY <1>t, <4>1, AppendIs
      <4> QED BY <4>1, <4>2
    <3> QED BY <3>1, <3>2
  <2> QED BY <1>e, <2>1, <2>3
<1> QED BY <1>1, <1>2, <1>3, <1>4 DEF SystemNext

-----------------------------------------------------------------------------
(* The call and its command *)

\* A call that has just written its command, or reads on.
LEMMA DriverAsks ==
  ASSUME HostInv, Wire, Driver!Driver, Asked'
  PROVE  \/ /\ call' = call /\ accepted_line' = Driver!NoFrame
            /\ owed = <<>> /\ todo = <<>> /\ working \cup unread = {}
            /\ \A i \in DOMAIN usb_in : usb_in[i].of = {}
            /\ usb_in' = usb_in
            /\ todo' = Append(todo, [id |-> call.id, cmd |-> call.cmd])
         \/ /\ Asked /\ call' = call /\ todo' = todo
            /\ usb_in # <<>> /\ usb_in' = Tail(usb_in)
            /\ \/ accepted_line' = accepted_line
               \/ /\ Head(usb_in).kind = "text"
                  /\ Driver!accepts(call.cmd, Head(usb_in).line)
                  /\ accepted_line'.line = Head(usb_in).line
<1>1. Host!Write \/ Host!ReadsOn
  <2>1. Host!Driver
    BY SameDriver
  <2>2. Host!Asked'
    BY SameWords DEF Asked, Host!Asked
  <2> QED BY <2>1, <2>2, HostAssumptions, Host!AskedSteps
<1>2. CASE Host!Write
  <2>1. dpc = "write" /\ call' = call /\ settled' = Host!Settled /\ usb_in' = usb_in
    BY <1>2 DEF Host!Write
  <2>2. Host!GoesOn("wait") /\ Host!Delivered
    BY <1>2 DEF Host!Write, Host!EndsWithout, Host!Ends, Asked
  <2>3. accepted_line' = Driver!NoFrame
    BY <2>1, <2>2, SameWords DEF Host!GoesOn, Host!callVars, HostInv, Host!Locals
  <2>4. /\ owed = <<>> /\ todo = <<>> /\ working \cup unread = {}
        /\ \A i \in DOMAIN usb_in : usb_in[i].of = {}
    BY <2>1 DEF Asked, Host!Settled
  <2>5. call.api # "ping"
    BY <2>1 DEF Asked, Driver!WaitsForLine
  <2>6. todo' = Append(todo, [id |-> call.id, cmd |-> call.cmd])
    BY <2>2, <2>5 DEF Host!Delivered
  <2> QED BY <2>1, <2>3, <2>4, <2>6
<1>3. CASE Host!ReadsOn
  <2>1. /\ Asked /\ call' = call /\ todo' = todo
        /\ usb_in # <<>> /\ usb_in' = Tail(usb_in)
    BY <1>3, SameWords DEF Host!ReadsOn, Host!Asked, Asked, Host!Reads, Host!deviceVars
  <2>2. dpc' # "idle"
    BY DEF Asked
  <2>3. CASE Host!ReadOther \/ Host!ReadAck \/ Host!ReadPart
    BY <2>1, <2>2, <2>3 DEF Host!ReadOther, Host!ReadAck, Host!ReadPart, Host!callVars,
       Host!Ends
  <2>4. CASE Host!ReadLine
    <3>1. usb_in \in Seq(Driver!Frame)
      BY DEF HostInv, Driver!TypeOK
    <3>2. Head(usb_in).part = "whole" /\ Head(usb_in).kind = "text"
      <4>1. Head(usb_in).part = "whole"
        BY <2>1, <3>1, SequenceEnds DEF Wire, WholeTexts
      <4> QED BY <2>4, <4>1 DEF Host!ReadLine, Host!Received
    <3>3. Host!Completed(Host!Received) = Head(usb_in).line
      BY <3>2 DEF Host!Completed, Host!Received
    <3>4. ~Host!Ends("lua error", Head(usb_in).line, Host!Received.of)
          /\ ~Host!Ends("ok", Head(usb_in).line, Host!Received.of)
      BY <2>2 DEF Host!Ends
    <3>5. \/ accepted_line' = accepted_line
          \/ /\ Host!accepts(call.cmd, Head(usb_in).line)
             /\ accepted_line' = Host!Text(Head(usb_in).line, "whole", Host!Received.of)
      BY <2>4, <3>3, <3>4 DEF Host!ReadLine
    <3> QED BY <2>1, <3>2, <3>5, SameWords DEF Host!Text
  <2> QED BY <1>3, <2>3, <2>4 DEF Host!ReadsOn
<1> QED BY <1>1, <1>2, <1>3

LEMMA OnlyCommandStep ==
  ASSUME Inv, HostInv, Wire, OnlyCommand, [SystemNext]_systemVars
  PROVE  OnlyCommand'
<1> SUFFICES ASSUME Asked'
             PROVE  /\ todo' # <<>> => /\ Len(todo') = 1 /\ todo'[1].cmd = call'.cmd
                                       /\ tcp' = <<>> /\ ~command_busy'
                    /\ tcp' # <<>> => tcp' = <<call'.cmd>> /\ ~command_busy'
                    /\ command_busy' => command' = call'.cmd
  BY DEF OnlyCommand
<1>t. todo \in Seq(Driver!Request) /\ tcp \in Seq(Commands)
  BY DEF HostInv, Driver!TypeOK, Inv, TypeOK
<1>1. CASE DriverRuns
  <2>1. /\ Driver!Driver /\ tcp' = tcp /\ command_busy' = command_busy
        /\ command' = command
    BY <1>1 DEF DriverRuns, vars, channelVars, scriptVars
  <2>2. CASE Asked /\ call' = call /\ todo' = todo
    BY <2>1, <2>2 DEF OnlyCommand
  <2>3. CASE /\ call' = call /\ todo = <<>> /\ working \cup unread = {}
             /\ todo' = Append(todo, [id |-> call.id, cmd |-> call.cmd])
    <3>1. tcp = <<>> /\ ~command_busy
      BY <2>3 DEF Wire, WhoseTexts, WhoseCommand
    <3>2. Len(todo') = 1 /\ todo'[1].cmd = call.cmd
      BY <2>3
    <3> QED BY <2>1, <2>3, <3>1, <3>2
  <2> QED BY <2>1, <2>2, <2>3, DriverAsks
<1>2. CASE ~DriverRuns
  <2>1. Asked /\ call' = call
    BY <1>2 DEF SystemNext, FirmwareAnswers, Driver!SendOwed, Driver!driverVars,
       DeliverText, ReportLine, Takes, Works, Finishes, PowerSide, NoHost,
       driverSide, systemVars, Asked
  <2>o. /\ todo # <<>> => /\ Len(todo) = 1 /\ todo[1].cmd = call.cmd
                          /\ tcp = <<>> /\ ~command_busy
        /\ tcp # <<>> => tcp = <<call.cmd>> /\ ~command_busy
        /\ command_busy => command = call.cmd
    BY <2>1 DEF OnlyCommand
  <2>2. CASE DeliverText
    <3>1. /\ todo # <<>> /\ todo' = Tail(todo) /\ tcp' = Append(tcp, Head(todo).cmd)
          /\ command_busy' = command_busy /\ command' = command
      BY <2>2 DEF DeliverText, Send, scriptVars
    <3>2. Len(todo) = 1 /\ Head(todo).cmd = call.cmd /\ tcp = <<>> /\ ~command_busy
      BY <1>t, <2>o, <3>1, SequenceEnds
    <3>3. todo' = <<>>
      BY <1>t, <3>1, <3>2
    <3>4. tcp' = <<call.cmd>>
      BY <3>1, <3>2
    <3> QED BY <2>1, <3>1, <3>2, <3>3, <3>4
  <2>3. CASE Takes /\ ReceiveCommand
    <3>1. /\ todo' = todo /\ tcp # <<>> /\ tcp' = <<>>
          /\ command' = normalize_command(tcp)
      BY <2>3 DEF Takes, NoHost, firmware, ReceiveCommand
    <3>2. todo = <<>> /\ tcp = <<call.cmd>>
      BY <2>o, <3>1
    <3>3. command' = call.cmd
      BY <3>1, <3>2 DEF normalize_command
    <3> QED BY <2>1, <3>1, <3>2, <3>3
  <2>4. CASE \/ FirmwareAnswers \/ ReportLine \/ (Takes /\ ~ReceiveCommand)
             \/ Works \/ Finishes \/ PowerSide \/ UNCHANGED systemVars
    <3>1. todo' = todo
      BY <2>4 DEF FirmwareAnswers, Driver!SendOwed, ReportLine, Takes, Works,
         Finishes, PowerSide, NoHost, firmware, systemVars
    <3>2. tcp' = tcp /\ command' = command /\ command_busy' \in {command_busy, FALSE}
      <4>1. CASE FirmwareAnswers \/ UNCHANGED systemVars
        BY <4>1 DEF FirmwareAnswers, systemVars, vars, channelVars, scriptVars
      <4>2. CASE ReportLine
        BY <4>2 DEF ReportLine, ReadLine, scriptVars
      <4>3. CASE Takes /\ ~ReceiveCommand
        BY <4>3 DEF Takes, ReceiveWhileBusy, ReceiveNothing, scriptVars
      <4>4. CASE Works
        BY <4>4 DEF Works, WorkOnCommand, process_command, OpenFastCharge,
           CheckSourceAttached, CapabilitiesSeen, HardReset, GiveUpWaiting,
           ReadCapabilities, ReadNoCapability, ReadInterrupted, NotFound,
           RequestGranted, RequestFailed, RequestRaises, MeasureAndReply,
           PrintTrace, ReportLuaError, NoSinkCall, InCommand
      <4>5. CASE Finishes
        BY <4>5 DEF Finishes, Finish, channelVars
      <4>6. CASE PowerSide
        BY <4>6 DEF PowerSide, Startup, Attach, Detach, AdvertiseCapabilities,
           channelVars, scriptVars
      <4> QED BY <2>4, <4>1, <4>2, <4>3, <4>4, <4>5, <4>6
    <3>3. ~command_busy => ~command_busy'
      BY <3>2
    <3>4. command_busy' => command_busy
      BY <3>2
    <3> QED BY <2>1, <2>o, <3>1, <3>2, <3>3, <3>4
  <2> QED BY <1>2, <2>2, <2>3, <2>4 DEF SystemNext
<1> QED BY <1>1, <1>2

-----------------------------------------------------------------------------
(* The lines that settle the call *)

LEMMA ForNoneEndsNothing ==
  ASSUME NEW l, l.kind \in ForNone \ {"SCREEN_OPEN_FAILED"}
  PROVE  ~EndsCall(l) /\ ~EndsCall(l)'
BY DEF ForNone, EndsCall, Driver!accepts, Driver!raises, Driver!SourceErrors,
   Driver!LuaErrors

LEMMA EndsCallKept ==
  ASSUME NEW l, call' = call
  PROVE  EndsCall(l)' <=> EndsCall(l)
BY DEF EndsCall

\* Nothing on the power side changes while the driver takes a step.
LEMMA SettlesWithDriver ==
  ASSUME DriverRuns, call' = call, todo' = todo, NEW l, Settles(l)
  PROVE  Settles(l)'
<1>1. /\ granted' = granted /\ pd_initialized' = pd_initialized
      /\ source' = source /\ contract' = contract /\ pc' = pc
      /\ disturbed' = disturbed /\ replugged' = replugged /\ tcp' = tcp
  BY DEF DriverRuns, vars, sourceVars, channelVars, scriptVars, historyVars
<1> QED BY <1>1, TruthKept DEF Settles, Exited

\* LinesTrue follows from what each line then on its way says.
Vouched(l) == EndsCall(l) => Settles(l)

LEMMA ForNoneVouched ==
  ASSUME NEW l, l.kind \in ForNone, l.kind = "SCREEN_OPEN_FAILED" => Exited'
  PROVE  Vouched(l)'
<1>1. CASE l.kind # "SCREEN_OPEN_FAILED"
  BY <1>1, ForNoneEndsNothing DEF Vouched
<1>2. CASE l.kind = "SCREEN_OPEN_FAILED"
  BY <1>2 DEF Vouched, Settles
<1> QED BY <1>1, <1>2

LEMMA LinesVouched ==
  /\ LinesTrue <=>
       (Asked => /\ \A i \in DOMAIN out : Vouched(out[i])
                 /\ \A i \in DOMAIN usb_in : usb_in[i].kind = "text" => Vouched(usb_in[i].line)
                 /\ accepted_line # Driver!NoFrame => Settles(accepted_line.line))
  /\ LinesTrue' <=>
       (Asked' => /\ \A l : (\E i \in DOMAIN out' : l = out'[i]) => Vouched(l)'
                  /\ \A l : (\E i \in DOMAIN usb_in' :
                               usb_in'[i].kind = "text" /\ l = usb_in'[i].line) => Vouched(l)'
                  /\ accepted_line' # Driver!NoFrame =>
                       \A l : l = accepted_line'.line => Settles(l)')
<1>1. LinesTrue <=>
       (Asked => /\ \A i \in DOMAIN out : Vouched(out[i])
                 /\ \A i \in DOMAIN usb_in : usb_in[i].kind = "text" => Vouched(usb_in[i].line)
                 /\ accepted_line # Driver!NoFrame => Settles(accepted_line.line))
  BY DEF LinesTrue, Vouched
<1>2. LinesTrue' <=>
       (Asked' => /\ \A l : (\E i \in DOMAIN out' : l = out'[i]) => Vouched(l)'
                  /\ \A l : (\E i \in DOMAIN usb_in' :
                               usb_in'[i].kind = "text" /\ l = usb_in'[i].line) => Vouched(l)'
                  /\ accepted_line' # Driver!NoFrame =>
                       \A l : l = accepted_line'.line => Settles(l)')
  BY DEF LinesTrue, Vouched, Driver!NoFrame
<1> QED BY <1>1, <1>2

\* Lines that were on their way stay vouched for, and each new one is.
LEMMA LinesTrueFrom ==
  ASSUME LinesTrue, Asked, call' = call, accepted_line' = accepted_line,
         \A l : Settles(l) => Settles(l)',
         \A i \in DOMAIN out' :
           (\E j \in DOMAIN out : out'[i] = out[j])
             \/ \E l : out'[i] = l /\ Vouched(l)',
         \A i \in DOMAIN usb_in' :
           \/ usb_in'[i].kind # "text"
           \/ \E j \in DOMAIN usb_in : usb_in'[i] = usb_in[j]
           \/ \E j \in DOMAIN out : usb_in'[i].line = out[j]
  PROVE  LinesTrue'
<1>1. \A l : Vouched(l) => Vouched(l)'
  BY EndsCallKept DEF Vouched
<1>2. /\ \A i \in DOMAIN out : Vouched(out[i])
      /\ \A i \in DOMAIN usb_in : usb_in[i].kind = "text" => Vouched(usb_in[i].line)
      /\ accepted_line # Driver!NoFrame => Settles(accepted_line.line)
  BY LinesVouched
<1>3. \A l : (\E i \in DOMAIN out' : l = out'[i]) => Vouched(l)'
  BY <1>1, <1>2
<1>4. \A l : (\E i \in DOMAIN usb_in' :
                usb_in'[i].kind = "text" /\ l = usb_in'[i].line) => Vouched(l)'
  BY <1>1, <1>2
<1>5. accepted_line' # Driver!NoFrame => \A l : l = accepted_line'.line => Settles(l)'
  BY <1>2
<1> QED BY <1>3, <1>4, <1>5, LinesVouched

LEMMA LinesTrueStep ==
  ASSUME Inv, Power, HostInv, Wire, ExitSaid, OnlyCommand, LinesTrue,
         [SystemNext]_systemVars
  PROVE  LinesTrue'
<1> SUFFICES ASSUME Asked' PROVE LinesTrue'
  BY LinesVouched
<1>t. /\ usb_in \in Seq(Driver!Frame) /\ owed \in Seq(Driver!Frame)
      /\ out \in Seq(Line)
  BY DEF HostInv, Driver!TypeOK, Inv, TypeOK
<1>1. CASE DriverRuns
  <2>1. Driver!Driver /\ out = <<>> /\ out' = out
    BY <1>1 DEF DriverRuns, Quiet, vars, channelVars
  <2>2. CASE /\ call' = call /\ accepted_line' = Driver!NoFrame
             /\ \A i \in DOMAIN usb_in : usb_in[i].of = {}
             /\ usb_in' = usb_in
    <3>1. \A l : (\E i \in DOMAIN out' : l = out'[i]) => Vouched(l)'
      BY <2>1
    <3>2. \A l : (\E i \in DOMAIN usb_in' :
                    usb_in'[i].kind = "text" /\ l = usb_in'[i].line) => Vouched(l)'
      <4>1. ASSUME NEW l, NEW i \in DOMAIN usb_in, usb_in[i].kind = "text",
                   l = usb_in[i].line
            PROVE  Vouched(l)'
        <5>1. l.kind \in ForNone
          BY <2>2, <4>1 DEF Wire, WhoseLines
        <5>2. l.kind = "SCREEN_OPEN_FAILED" => Exited'
          BY <4>1, ExitedStays DEF ExitSaid
        <5> QED BY <5>1, <5>2, ForNoneVouched
      <4> QED BY <2>2, <4>1
    <3> QED BY <2>2, <3>1, <3>2, LinesVouched
  <2>3. CASE /\ Asked /\ call' = call /\ todo' = todo
             /\ usb_in # <<>> /\ usb_in' = Tail(usb_in)
             /\ \/ accepted_line' = accepted_line
                \/ /\ Head(usb_in).kind = "text"
                   /\ Driver!accepts(call.cmd, Head(usb_in).line)
                   /\ accepted_line'.line = Head(usb_in).line
    <3>1. \A l : Settles(l) => Settles(l)'
      BY <1>1, <2>3, SettlesWithDriver
    <3>2. \A i \in DOMAIN usb_in' : \E j \in DOMAIN usb_in : usb_in'[i] = usb_in[j]
      BY <2>3, ReadKeeps
    <3>3. CASE accepted_line' = accepted_line
      BY <2>1, <2>3, <3>1, <3>2, <3>3, LinesTrueFrom
    <3>4. CASE /\ Head(usb_in).kind = "text"
               /\ Driver!accepts(call.cmd, Head(usb_in).line)
               /\ accepted_line'.line = Head(usb_in).line
      <4>1. Settles(Head(usb_in).line)
        <5>1. 1 \in DOMAIN usb_in /\ Head(usb_in) = usb_in[1]
          BY <1>t, <2>3, SequenceEnds
        <5>2. Vouched(Head(usb_in).line)
          BY <2>3, <3>4, <5>1, LinesVouched
        <5> QED BY <3>4, <5>2 DEF Vouched, EndsCall
      <4>2. \A l : l = accepted_line'.line => Settles(l)'
        BY <3>1, <3>4, <4>1
      <4>3. \A l : Vouched(l) => Vouched(l)'
        BY <2>3, <3>1, EndsCallKept DEF Vouched
      <4>4. \A l : (\E i \in DOMAIN usb_in' :
                      usb_in'[i].kind = "text" /\ l = usb_in'[i].line) => Vouched(l)'
        BY <2>3, <3>2, <4>3, LinesVouched
      <4>5. \A l : (\E i \in DOMAIN out' : l = out'[i]) => Vouched(l)'
        BY <2>1
      <4> QED BY <4>2, <4>4, <4>5, LinesVouched
    <3> QED BY <2>3, <3>3, <3>4
  <2> QED BY <2>1, <2>2, <2>3, DriverAsks
<1>2. CASE ~DriverRuns
  <2>1. Asked /\ call' = call /\ accepted_line' = accepted_line
    BY <1>2 DEF SystemNext, FirmwareAnswers, Driver!SendOwed, Driver!driverVars,
       Driver!callVars, DeliverText, ReportLine, Takes, Works, Finishes,
       PowerSide, NoHost, driverSide, systemVars, Asked
  <2>2. \A l : Settles(l) => Settles(l)'
    BY <1>2, SettlesKept
  <2>3. CASE FirmwareAnswers
    <3>1. /\ owed # <<>> /\ usb_in' = Append(usb_in, Head(owed)) /\ out' = out
      BY <2>3 DEF FirmwareAnswers, Driver!SendOwed, Driver!Queue, vars, channelVars
    <3>2. Head(owed).kind # "text"
      BY <1>t, <3>1, SequenceEnds DEF Wire, WholeTexts
    <3>3. \A i \in DOMAIN usb_in' :
            (i \in DOMAIN usb_in /\ usb_in'[i] = usb_in[i]) \/ usb_in'[i] = Head(owed)
      BY <1>t, <3>1, AppendIs
    <3>4. \A i \in DOMAIN usb_in' :
            \/ usb_in'[i].kind # "text"
            \/ \E j \in DOMAIN usb_in : usb_in'[i] = usb_in[j]
      BY <3>2, <3>3
    <3>5. \A i \in DOMAIN out' : \E j \in DOMAIN out : out'[i] = out[j]
      BY <3>1
    <3> QED BY <2>1, <2>2, <3>4, <3>5, LinesTrueFrom
  <2>4. CASE ReportLine
    <3>1. out # <<>> /\ out' = Tail(out)
      BY <2>4 DEF ReportLine, ReadLine
    <3>2. \A i \in DOMAIN out' : \E j \in DOMAIN out : out'[i] = out[j]
      BY <1>t, <3>1, SequenceEnds
    <3>3. 1 \in DOMAIN out /\ Head(out) = out[1]
      BY <1>t, <3>1, SequenceEnds
    <3>4. PICK f : /\ usb_in' = usb_in \/ usb_in' = Append(usb_in, f)
                   /\ f.line = Head(out)
      <4> DEFINE about == IF Head(out).kind = "BUSY" THEN unread ELSE working
                 f == Driver!Text(Head(out), "whole", about)
      <4>1. usb_in' = usb_in \/ usb_in' = Append(usb_in, f)
        BY <2>4 DEF ReportLine
      <4>2. f.line = Head(out)
        BY DEF Driver!Text
      <4> HIDE DEF f
      <4> QED BY <4>1, <4>2
    <3>5. \A i \in DOMAIN usb_in' :
            (i \in DOMAIN usb_in /\ usb_in'[i] = usb_in[i]) \/ usb_in'[i] = f
      <4>1. CASE usb_in' = usb_in
        BY <4>1
      <4>2. CASE usb_in' = Append(usb_in, f)
        BY <1>t, <4>2, AppendIs
      <4> QED BY <3>4, <4>1, <4>2
    <3>6. \A i \in DOMAIN usb_in' :
            \/ \E j \in DOMAIN usb_in : usb_in'[i] = usb_in[j]
            \/ \E j \in DOMAIN out : usb_in'[i].line = out[j]
      BY <3>3, <3>4, <3>5
    <3> QED BY <2>1, <2>2, <3>2, <3>6, LinesTrueFrom
  <2>5. CASE DeliverText \/ Takes \/ Works \/ Finishes \/ PowerSide \/ UNCHANGED systemVars
    <3>1. usb_in' = usb_in
      BY <2>5 DEF DeliverText, Takes, Works, Finishes, PowerSide, NoHost, systemVars
    <3>2. out' = out \/ \E l : out' = Append(out, l) /\ Vouched(l)'
      <4>1. CASE DeliverText \/ Finishes \/ UNCHANGED systemVars
        BY <4>1 DEF DeliverText, Send, Finishes, Finish, channelVars, systemVars, vars
      <4>2. CASE Takes
        <5>1. CASE ReceiveCommand \/ ReceiveNothing
          BY <5>1 DEF ReceiveCommand, ReceiveNothing
        <5>2. CASE ReceiveWhileBusy
          <6>1. /\ out' = Append(out, Say("BUSY", NoVoltage)) /\ CallbackDue
                /\ command_busy
            BY <5>2 DEF ReceiveWhileBusy, send_reply
          <6>2. Reentrant
            BY <6>1 DEF CallbackDue, Inv, Meaning, BusyWhileRunning
          <6>3. Say("BUSY", NoVoltage).kind \in ForNone
            BY <6>2 DEF ForNone, Say
          <6>4. Say("BUSY", NoVoltage).kind # "SCREEN_OPEN_FAILED"
            BY DEF Say
          <6> QED BY <6>1, <6>3, <6>4, ForNoneVouched
        <5> QED BY <4>2, <5>1, <5>2 DEF Takes
      <4>3. CASE Works
        <5>1. WorkOnCommand /\ todo' = todo
          BY <4>3 DEF Works, NoHost, firmware
        <5> QED BY <2>1, <5>1, WorkSays DEF Vouched
      <4>4. CASE PowerSide
        <5>1. out' = out \/ \E l : out' = Append(out, l) /\ l.kind \in ForNone
                                  /\ (l.kind = "SCREEN_OPEN_FAILED" => Exited')
          BY <4>4, StartSays DEF PowerSide, Attach, Detach,
             AdvertiseCapabilities, channelVars
        <5> QED BY <5>1, ForNoneVouched
      <4> QED BY <2>5, <4>1, <4>2, <4>3, <4>4
    <3>3. \A i \in DOMAIN out' :
            (\E j \in DOMAIN out : out'[i] = out[j])
              \/ \E l : out'[i] = l /\ Vouched(l)'
      <4>1. CASE out' = out
        BY <4>1
      <4>2. ASSUME NEW l, out' = Append(out, l), Vouched(l)', NEW i \in DOMAIN out'
            PROVE  (\E j \in DOMAIN out : out'[i] = out[j]) \/ out'[i] = l
        BY <1>t, <4>2, AppendIs
      <4> QED BY <3>2, <4>1, <4>2
    <3>4. \A i \in DOMAIN usb_in' : \E j \in DOMAIN usb_in : usb_in'[i] = usb_in[j]
      BY <3>1
    <3> QED BY <2>1, <2>2, <3>3, <3>4, LinesTrueFrom
  <2> QED BY <1>2, <2>3, <2>4, <2>5 DEF SystemNext
<1> QED BY <1>1, <1>2

-----------------------------------------------------------------------------
(* What the call ends with *)

\* The ways a call can be over after a step of the driver: it was before; with
\* neither a result nor a line; with an answer that is no line; with the line
\* that was accepted; with the line just read.
LEMMA DriverEnds ==
  ASSUME HostInv, Wire, Driver!Driver, BetweenCalls', settled'
  PROVE  \/ /\ BetweenCalls /\ settled
            /\ outcome' = outcome /\ call' = call /\ todo' = todo
         \/ outcome'.kind \notin {"ok", "lua error"}
         \/ outcome'.kind = "ok" /\ call'.api \notin Driver!WaitsForLine
         \/ /\ Asked /\ call' = call /\ todo' = todo
            /\ outcome'.kind = "ok" /\ accepted_line # Driver!NoFrame
            /\ outcome'.line = accepted_line.line
            /\ Driver!accepts(call.cmd, accepted_line.line)
         \/ /\ Asked /\ call' = call /\ todo' = todo
            /\ usb_in # <<>> /\ Head(usb_in).kind = "text"
            /\ outcome'.line = Head(usb_in).line
            /\ \/ outcome'.kind = "ok" /\ Driver!accepts(call.cmd, Head(usb_in).line)
               \/ outcome'.kind = "lua error" /\ Driver!raises(Head(usb_in).line)
<1>e. ASSUME NEW kind, Driver!EndsWithout(kind) PROVE outcome'.kind = kind
  BY <1>e DEF Driver!EndsWithout, Driver!Ends
<1>g. ASSUME NEW step, Driver!GoesOn(step), step \notin {"idle", "connect"} PROVE FALSE
  BY <1>g DEF Driver!GoesOn, BetweenCalls
<1>1. CASE Driver!close \/ Driver!connect
  BY <1>1 DEF Driver!close, Driver!connect, Driver!GoesOn, Driver!NoDevice,
     Driver!deviceVars, BetweenCalls
<1>2. CASE Driver!StartCall
  BY <1>2 DEF Driver!StartCall
<1>3. CASE Driver!DrainFrame
  BY <1>3 DEF Driver!DrainFrame, Driver!driverVars, Driver!deviceVars, BetweenCalls
<1>4. CASE Driver!Drained
  <2>1. dpc = "connect"
    BY <1>4, <1>g DEF Driver!Drained, Driver!Draining
  <2>2. dpc = "connect" => Driver!GoesOn("idle")
    BY <1>4 DEF Driver!Drained
  <2> QED
    BY <1>4, <2>1, <2>2 DEF Driver!Drained, Driver!GoesOn, Driver!NoDevice,
       Driver!deviceVars, BetweenCalls
<1>5. CASE Driver!RegisterWrite
  BY <1>5, <1>e, <1>g DEF Driver!RegisterWrite
<1>6. CASE Driver!Write
  BY <1>6, <1>e, <1>g DEF Driver!Write
<1>7. CASE \/ Driver!ConnectFails \/ Driver!ReadDamaged \/ Driver!TimeOut
           \/ Driver!ReadFails
  BY <1>7, <1>e DEF Driver!ConnectFails, Driver!ReadDamaged, Driver!TimeOut,
     Driver!ReadFails
<1>8. CASE Driver!ReadOther \/ Driver!ReadPart
  <2>1. dpc \in {"register wait", "wait"} /\ dpc' = dpc
    BY <1>8 DEF Driver!ReadOther, Driver!ReadPart, Driver!Continues
  <2> QED BY <2>1 DEF BetweenCalls
<1>9. CASE Driver!RegisterAck
  <2>1. call' = call
    BY <1>9 DEF Driver!RegisterAck, Driver!Reads
  <2>2. CASE call.api = "register_lua_miso"
    <3>1. Driver!Ends("ok", Driver!NoLine, Driver!Received.of)
      BY <1>9, <2>2 DEF Driver!RegisterAck
    <3>2. outcome'.kind = "ok"
      BY <3>1 DEF Driver!Ends
    <3>3. call'.api \notin Driver!WaitsForLine
      BY <2>1, <2>2 DEF Driver!WaitsForLine
    <3> QED BY <3>2, <3>3
  <2>3. CASE call.api # "register_lua_miso"
    BY <1>9, <1>g, <2>3 DEF Driver!RegisterAck
  <2> QED BY <2>2, <2>3
<1>10. CASE Driver!ProtocolAck
  BY <1>10 DEF Driver!ProtocolAck, Driver!Ends, Driver!Reads
<1>11. CASE Driver!ReadAck
  <2>1. /\ dpc = "wait" /\ call.api \in Driver!WaitsForLine
        /\ call' = call /\ todo' = todo /\ settled' = settled
    BY <1>11 DEF Driver!ReadAck, Driver!Reads, Driver!deviceVars
  <2>2. accepted_line # Driver!NoFrame
    <3>1. CASE accepted_line = Driver!NoFrame
      BY <1>11, <2>1, <3>1 DEF Driver!ReadAck, Driver!Continues, BetweenCalls
    <3> QED BY <3>1
  <2>3. Driver!Ends("ok", accepted_line.line, accepted_line.of)
    BY <1>11, <2>2 DEF Driver!ReadAck
  <2>4. Driver!accepts(call.cmd, accepted_line.line)
    BY <2>2, SameWords DEF HostInv, Host!Locals
  <2> QED BY <2>1, <2>2, <2>3, <2>4 DEF Driver!Ends, Asked
<1>12. CASE Driver!ReadLine
  <2>1. /\ dpc = "wait" /\ call.api \in Driver!WaitsForLine
        /\ call' = call /\ todo' = todo /\ settled' = settled
        /\ usb_in # <<>> /\ Head(usb_in).kind = "text"
    BY <1>12 DEF Driver!ReadLine, Driver!Reads, Driver!deviceVars, Driver!Received
  <2>2. usb_in \in Seq(Driver!Frame)
    BY DEF HostInv, Driver!TypeOK
  <2>3. Head(usb_in).part = "whole"
    BY <2>1, <2>2, SequenceEnds DEF Wire, WholeTexts
  <2>4. Driver!Completed(Driver!Received) = Head(usb_in).line
    BY <2>3 DEF Driver!Completed, Driver!Received
  <2>5. ~Driver!Continues
    BY <2>1 DEF Driver!Continues, BetweenCalls
  <2>6. \/ /\ Driver!raises(Head(usb_in).line)
           /\ Driver!Ends("lua error", Head(usb_in).line, Driver!Received.of)
        \/ /\ Driver!accepts(call.cmd, Head(usb_in).line)
           /\ Driver!Ends("ok", Head(usb_in).line, Driver!Received.of)
    BY <1>12, <2>4, <2>5 DEF Driver!ReadLine
  <2>7. /\ outcome'.line = Head(usb_in).line
        /\ \/ outcome'.kind = "ok" /\ Driver!accepts(call.cmd, Head(usb_in).line)
           \/ outcome'.kind = "lua error" /\ Driver!raises(Head(usb_in).line)
    <3>1. CASE /\ Driver!raises(Head(usb_in).line)
               /\ Driver!Ends("lua error", Head(usb_in).line, Driver!Received.of)
      <4>1. outcome' = [kind |-> "lua error", line |-> Head(usb_in).line,
                        of |-> Driver!Received.of]
        BY <3>1 DEF Driver!Ends
      <4>2. outcome'.line = Head(usb_in).line /\ outcome'.kind = "lua error"
        BY <4>1
      <4> QED BY <3>1, <4>2
    <3>2. CASE /\ Driver!accepts(call.cmd, Head(usb_in).line)
               /\ Driver!Ends("ok", Head(usb_in).line, Driver!Received.of)
      <4>1. outcome' = [kind |-> "ok", line |-> Head(usb_in).line,
                        of |-> Driver!Received.of]
        BY <3>2 DEF Driver!Ends
      <4>2. outcome'.line = Head(usb_in).line /\ outcome'.kind = "ok"
        BY <4>1
      <4> QED BY <3>2, <4>2
    <3> QED BY <2>6, <3>1, <3>2
  <2>8. Asked
    BY <2>1 DEF Asked
  <2> QED BY <2>1, <2>7, <2>8
<1>13. CASE Driver!TimeOutWithText
  <2>1. pending_text.part = "whole"
    BY DEF Wire, WholeTexts, Driver!NoFrame, Driver!Plain
  <2> QED BY <1>13, <2>1 DEF Driver!TimeOutWithText
<1> QED
  BY <1>1, <1>2, <1>3, <1>4, <1>5, <1>6, <1>7, <1>8, <1>9, <1>10, <1>11,
     <1>12, <1>13 DEF Driver!Driver

LEMMA OutcomeTrueStep ==
  ASSUME Inv, HostInv, Wire, LinesTrue, OutcomeTrue, [SystemNext]_systemVars
  PROVE  OutcomeTrue'
<1> DEFINE Good(kind, api, cmd, l) ==
               /\ kind = "ok" /\ api \in Driver!WaitsForLine => Driver!accepts(cmd, l)
               /\ kind = "lua error" /\ ~Reentrant => Driver!raises(l)
           Decided(kind, api) ==
               \/ kind = "ok" /\ api \in Driver!WaitsForLine
               \/ kind = "lua error" /\ ~Reentrant
<1> SUFFICES ASSUME BetweenCalls', settled'
             PROVE  /\ Good(outcome'.kind, call'.api, call'.cmd, outcome'.line)
                    /\ Decided(outcome'.kind, call'.api) =>
                         \A l : l = outcome'.line => Settles(l)'
  BY DEF OutcomeTrue
<1>1. CASE DriverRuns
  <2>1. Driver!Driver
    BY <1>1 DEF DriverRuns
  <2>2. CASE /\ BetweenCalls /\ settled
             /\ outcome' = outcome /\ call' = call /\ todo' = todo
    <3>1. Decided(outcome.kind, call.api) => Settles(outcome.line)
      BY <2>2 DEF OutcomeTrue
    <3>2. Good(outcome.kind, call.api, call.cmd, outcome.line)
      BY <2>2 DEF OutcomeTrue
    <3> QED BY <1>1, <2>2, <3>1, <3>2, SettlesWithDriver
  <2>3. CASE \/ outcome'.kind \notin {"ok", "lua error"}
             \/ outcome'.kind = "ok" /\ call'.api \notin Driver!WaitsForLine
    BY <2>3
  <2>4. CASE /\ Asked /\ call' = call /\ todo' = todo
             /\ outcome'.kind = "ok" /\ accepted_line # Driver!NoFrame
             /\ outcome'.line = accepted_line.line
             /\ Driver!accepts(call.cmd, accepted_line.line)
    <3>1. Settles(accepted_line.line)
      BY <2>4, LinesVouched
    <3>2. \A l : l = outcome'.line => Settles(l)'
      BY <1>1, <2>4, <3>1, SettlesWithDriver
    <3> QED BY <2>4, <3>2
  <2>5. CASE /\ Asked /\ call' = call /\ todo' = todo
             /\ usb_in # <<>> /\ Head(usb_in).kind = "text"
             /\ outcome'.line = Head(usb_in).line
             /\ \/ outcome'.kind = "ok" /\ Driver!accepts(call.cmd, Head(usb_in).line)
                \/ outcome'.kind = "lua error" /\ Driver!raises(Head(usb_in).line)
    <3>1. Vouched(Head(usb_in).line)
      <4>1. usb_in \in Seq(Driver!Frame)
        BY DEF HostInv, Driver!TypeOK
      <4>2. 1 \in DOMAIN usb_in /\ Head(usb_in) = usb_in[1]
        BY <2>5, <4>1, SequenceEnds
      <4> QED BY <2>5, <4>2, LinesVouched
    <3>2. Decided(outcome'.kind, call'.api) => EndsCall(Head(usb_in).line)
      BY <2>5 DEF EndsCall
    <3>3. Decided(outcome'.kind, call'.api) => \A l : l = outcome'.line => Settles(l)'
      BY <1>1, <2>5, <3>1, <3>2, SettlesWithDriver DEF Vouched
    <3> QED BY <2>5, <3>3
  <2> QED BY <2>1, <2>2, <2>3, <2>4, <2>5, DriverEnds
<1>2. CASE ~DriverRuns
  <2>1. BetweenCalls /\ settled /\ call' = call /\ outcome' = outcome
    BY <1>2 DEF SystemNext, FirmwareAnswers, Driver!SendOwed, Driver!driverVars,
       DeliverText, ReportLine, Takes, Works, Finishes, PowerSide, NoHost,
       driverSide, systemVars, BetweenCalls
  <2>2. Decided(outcome.kind, call.api) => Settles(outcome.line)
    BY <2>1 DEF OutcomeTrue
  <2>3. Good(outcome.kind, call.api, call.cmd, outcome.line)
    BY <2>1 DEF OutcomeTrue
  <2> QED BY <1>2, <2>1, <2>2, <2>3, SettlesKept
<1> QED BY <1>1, <1>2

-----------------------------------------------------------------------------
(* Theorems *)

LEMMA SystemInvStep == SystemInv /\ [SystemNext]_systemVars => SystemInv'
<1> SUFFICES ASSUME SystemInv, [SystemNext]_systemVars PROVE SystemInv'
  OBVIOUS
<1>i. /\ Inv /\ Power /\ HostInv /\ unread \in SUBSET Driver!Ids
      /\ Wire /\ ExitSaid /\ OnlyCommand /\ LinesTrue /\ OutcomeTrue
  BY DEF SystemInv, HostInv
<1>1. [Next]_vars
  BY <1>i, LuaStep DEF HostInv
<1>2. Inv' /\ Power'
  BY <1>i, <1>1, NextInv, PowerStep
<1>3. HostInv' /\ unread' \in SUBSET Driver!Ids
  BY <1>i, TypesStep
<1>4. Wire' /\ ExitSaid' /\ OnlyCommand'
  BY <1>i, WireStep, ExitSaidStep, OnlyCommandStep
<1>5. LinesTrue' /\ OutcomeTrue'
  BY <1>i, LinesTrueStep, OutcomeTrueStep
<1> QED BY <1>2, <1>3, <1>4, <1>5 DEF SystemInv, HostInv

LEMMA SystemInvInit == SystemInit => SystemInv
<1> SUFFICES ASSUME SystemInit PROVE SystemInv
  OBVIOUS
<1>1. Inv /\ Power
  BY InitInv, PowerInit DEF SystemInit
<1>2. HostInv /\ unread \in SUBSET Driver!Ids
  BY TypesInit
<1>3. /\ dpc = "idle" /\ settled = FALSE /\ pending_text = Driver!NoFrame
      /\ usb_in = <<>> /\ owed = <<>> /\ out = <<>> /\ tcp = <<>>
      /\ command_busy = FALSE
  BY DEF SystemInit, Init, Driver!Init
<1>4. Wire /\ ExitSaid
  BY <1>3 DEF Wire, WholeTexts, WhoseTexts, WhoseCommand, WhoseLines, ExitSaid
<1>5. OnlyCommand /\ LinesTrue /\ OutcomeTrue
  BY <1>3 DEF OnlyCommand, LinesTrue, OutcomeTrue, Asked
<1> QED BY <1>1, <1>2, <1>4, <1>5 DEF SystemInv, HostInv

LEMMA SystemInvariance == SystemSpec => []SystemInv
BY SystemInvInit, SystemInvStep, PTL DEF SystemSpec

\* Every variable of the driver, the script and the firmware between them
\* keeps its type.
THEOREM SystemTypes == SystemSpec => []SystemTypeOK
<1>1. SystemInv => SystemTypeOK
  BY DEF SystemInv, SystemTypeOK, Inv
<1> QED BY <1>1, SystemInvariance, PTL

\* A set_voltage that wrote when nothing was owed to an earlier call tells the
\* truth when it succeeds: request_fixed_voltage was granted the voltage asked for and it is on the bus, or a charger was pulled
\* out or plugged in since.  Callbacks may even run in one another.
THEOREM VoltageArrives == SystemSpec => []VoltageIsOnBus
<1>1. SystemInv => VoltageIsOnBus
  <2> SUFFICES ASSUME SystemInv, Told("ok"), call.cmd.op = "PD",
                      call.api \in Driver!WaitsForLine
               PROVE  granted = call.cmd.v /\ (contract = call.cmd.v \/ disturbed)
    BY DEF VoltageIsOnBus
  <2>1. Driver!accepts(call.cmd, outcome.line) /\ Settles(outcome.line)
    BY DEF SystemInv, OutcomeTrue, BetweenCalls, Told
  <2> QED BY <2>1, SettledIsTrue DEF IsTrue
<1> QED BY <1>1, SystemInvariance, PTL

\* An exception of such a call is true of the power side, if the firmware lets one
\* callback end before it makes the next: the command was granted nothing,
\* KT002PDONotFoundError is true of the source whose list was read, and after
\* KT002PDSourceError the list is read again.
THEOREM ErrorsAreTrue ==
  ASSUME ~Reentrant
  PROVE  SystemSpec => []ErrorIsTrueOfSource
<1>1. SystemInv => ErrorIsTrueOfSource
  <2> SUFFICES ASSUME SystemInv, Told("lua error")
               PROVE  /\ granted = NoVoltage
                      /\ parse_lua_result(outcome.line, call.cmd) = "KT002PDONotFoundError"
                           /\ ~replugged =>
                           source # NoSource /\ ~Advertises(source, call.cmd.v)
                      /\ parse_lua_result(outcome.line, call.cmd) = "KT002PDSourceError"
                           => ~pd_initialized
    BY DEF ErrorIsTrueOfSource, ToldAs
  <2>1. Driver!raises(outcome.line) /\ Settles(outcome.line)
    BY DEF SystemInv, OutcomeTrue, BetweenCalls, Told
  <2> QED BY <2>1, SettledIsTrue DEF IsTrue
<1> QED BY <1>1, SystemInvariance, PTL
=============================================================================
