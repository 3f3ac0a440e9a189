----------------------------- MODULE KT002System -----------------------------
(***************************************************************************)
(* The driver and the Lua program together: KT002Controller on the host,   *)
(* LuaController on the device, and between them the Shizuku firmware that *)
(* hands Lua_MOSI texts to the one and Lua_MISO lines to the other.  What  *)
(* each module assumes of its peer is replaced by the peer.                *)
(*                                                                         *)
(* An operator said to be a mutant is no part of the model: it is the      *)
(* definition after it with a slip of the code, to see a property fail.    *)
(***************************************************************************)
EXTENDS LuaController

CONSTANTS Apis, MaxCalls

VARIABLES
  connected, lua_miso_registered, dpc, call, ack_received, accepted_line,
  pending_text, outcome, usb_in, putchar, owed, todo, settled, calls,
                   \* as in KT002Controller, where dpc is pc
  unread,          \* the calls whose text lies in tcp
  working          \* the calls whose command the script works on

Driver == INSTANCE KT002Controller WITH
  pc <- dpc, job <- working \cup unread, speech <- <<>>, cut <- "none", reports <- 0,
  handle <- "live", replugs <- 0,
  Kinds <- {}, Splits <- FALSE, MaxReports <- 0, MaxReplugs <- 0

driverSide == <<connected, lua_miso_registered, dpc, call, ack_received,
                accepted_line, pending_text, outcome, settled, calls>>
firmware == <<putchar, owed, todo>>
systemVars == <<vars, driverSide, firmware, usb_in, unread, working>>

ASSUME CallsAreDelivered == MaxCalls \in Nat /\ MaxCalls <= MaxCommands
ASSUME MethodsAssumption == Apis \subseteq Driver!Api

SystemTypeOK ==
  /\ TypeOK /\ Driver!TypeOK
  /\ unread \in SUBSET Driver!Ids

SystemInit == Init /\ unread = {} /\ working = {} /\ Driver!Init

-----------------------------------------------------------------------------
\* Lines go out one by one, before anything else happens.
Quiet == out = <<>>
NoHost == UNCHANGED <<driverSide, firmware, usb_in>>

DriverRuns == Quiet /\ UNCHANGED <<vars, unread, working>> /\ Driver!Driver
FirmwareAnswers == Quiet /\ UNCHANGED <<vars, unread, working>> /\ Driver!SendOwed

\* A Lua_MOSI text reaches the script, which may be working on another.
DeliverText ==
  /\ Quiet /\ todo # <<>>
  /\ Send(Head(todo).cmd) /\ todo' = Tail(todo)
  /\ unread' = unread \cup {Head(todo).id}
  /\ UNCHANGED <<driverSide, putchar, owed, usb_in, working>>

\* Mutant: the line goes out without a frame.
ReportBareLine ==
  /\ ReadLine
  /\ usb_in' = Append(usb_in, Head(out))
  /\ UNCHANGED <<driverSide, firmware, unread, working>>

\* A printed line becomes a text report, if these are switched on.
ReportLine ==
  /\ ReadLine
  /\ LET about == IF Head(out).kind = "BUSY" THEN unread ELSE working
     IN usb_in' = IF putchar THEN Append(usb_in, Driver!Text(Head(out), "whole", about))
                             ELSE usb_in
  /\ UNCHANGED <<driverSide, firmware, unread, working>>

Takes ==
  /\ Quiet /\ NoHost
  /\ \/ ReceiveCommand /\ working' = unread /\ unread' = {}
     \/ (ReceiveWhileBusy \/ ReceiveNothing) /\ UNCHANGED <<working, unread>>
Works == Quiet /\ NoHost /\ WorkOnCommand /\ UNCHANGED <<working, unread>>
Finishes == Quiet /\ NoHost /\ Finish /\ working' = {} /\ UNCHANGED unread

PowerSide ==
  /\ Quiet /\ NoHost /\ UNCHANGED <<working, unread>>
  /\ Startup \/ (\E c \in Chargers : Attach(c)) \/ Detach \/ AdvertiseCapabilities

SystemNext ==
  \/ DriverRuns \/ FirmwareAnswers \/ DeliverText \/ ReportLine
  \/ Takes \/ Works \/ Finishes \/ PowerSide

\* The interpreter, one thread, runs on, and its lines go out.
SystemSpec ==
  SystemInit /\ [][SystemNext]_systemVars
    /\ WF_systemVars(Takes \/ Works \/ Finishes \/ ReportLine)

-----------------------------------------------------------------------------
(* parser.py *)

\* The result or exception parse_lua_result makes of a line, for a command.
parse_lua_result(line, cmd) ==
  CASE line.kind = "PDO_NOT_FOUND" -> "KT002PDONotFoundError"
    [] line.kind \in {"TRACE_NO_PDO", "ERROR_LUA_NO_PDO"} /\ cmd.op = "PD"
         -> "KT002PDONotFoundError"
    [] line.kind = "REQUEST_FAILED" -> "KT002PDORequestError"
    [] line.kind \in SourceErrors -> "KT002PDSourceError"
    [] line.kind = "OK_PD" /\ line.v = cmd.v -> "KT002PDOResult"
    [] line.kind \in {"PONG", "READY", "PD_INITIALIZED"} -> "KT002CommandResult"
    [] OTHER -> "KT002LuaError"

-----------------------------------------------------------------------------
(* What a call says of the power side *)

\* The call is over and nothing was owed to an earlier one when it wrote.
Told(kind) == dpc = "idle" /\ outcome.kind = kind /\ settled
ToldAs(class) == Told("lua error") /\ parse_lua_result(outcome.line, call.cmd) = class

\* After a set_voltage that wrote when nothing was owed to an earlier call, and
\* succeeded, the voltage asked for is on the bus, until a charger is pulled out
\* or plugged in.
VoltageIsOnBus ==
  Told("ok") /\ call.cmd.op = "PD" /\ call.api \in Driver!WaitsForLine =>
    /\ granted = call.cmd.v
    /\ contract = call.cmd.v \/ disturbed

\* An exception of such a call is true of the power side.  A command that raised
\* was granted nothing.  KT002PDONotFoundError: the source the list was read
\* from has no such PDO, if it is still the one.  KT002PDSourceError: the list
\* is not taken for read, so that the next command reads it.
ErrorIsTrueOfSource ==
  /\ Told("lua error") => granted = NoVoltage
  /\ ToldAs("KT002PDONotFoundError") /\ ~replugged =>
       source # NoSource /\ ~Advertises(source, call.cmd.v)
  /\ ToldAs("KT002PDSourceError") => ~pd_initialized
=============================================================================
