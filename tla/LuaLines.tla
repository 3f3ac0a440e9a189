------------------------------ MODULE LuaLines ------------------------------
(***************************************************************************)
(* The vocabulary the host driver and onBoot.lua share: the commands sent  *)
(* through Lua_MOSI and the text lines printed in answer.                  *)
(*                                                                         *)
(* A text is kept only as far as somebody tells it apart from another      *)
(* one: a line is its kind, the voltage it names and, for an OK:PD_ line,  *)
(* the voltage it reports.  Voltages are in volts.                         *)
(***************************************************************************)
EXTENDS Integers

\* The fixed voltages process_command knows how to request.
Voltages == {5, 9, 12, 15, 20}

NoVoltage == 0
VoltageOrNone == Voltages \cup {NoVoltage}

\* "OTHER" stands for every text process_command does not know: INIT, CAPS,
\* STATUS, RELEASE and CLEAR of the driver, and commands run together.
Command == [op : {"PD"}, v : Voltages]
             \cup [op : {"PING", "OTHER"}, v : {NoVoltage}]
NoCommand == [op |-> "NONE", v |-> NoVoltage]
PD(v)  == [op |-> "PD", v |-> v]
Ping   == [op |-> "PING", v |-> NoVoltage]
Jumble == [op |-> "OTHER", v |-> NoVoltage]

Say(kind, v)      == [kind |-> kind, v |-> v, measured |-> NoVoltage]
SayMeasured(v, m) == [kind |-> "OK_PD", v |-> v, measured |-> m]
NoLine == Say("NONE", NoVoltage)

\* The lines initialize_pd gives up with, whatever the command was.
SourceErrors == {"FASTCHG_OPEN_FAILED", "NO_PD_SOURCE",
                 "SOURCE_CAP_TIMEOUT", "NO_SOURCE_CAPABILITY"}

\* ERROR:LUA: lines.  The text of a request the firmware refused to make
\* says "Request: No specified PDO."; that of another runtime error does not.
LuaErrors == {"ERROR_LUA_NO_PDO", "ERROR_LUA"}

\* What the script prints just before such a line ("LUA ERROR: ...").
LuaTraces == {"TRACE_NO_PDO", "TRACE"}

\* The lines that settle a command c for good.
Replies(c) ==
  CASE c.op = "PD" ->
         {SayMeasured(c.v, m) : m \in VoltageOrNone}
           \cup {Say(k, c.v) : k \in {"PDO_NOT_FOUND", "REQUEST_FAILED"}}
           \cup {Say(k, NoVoltage) : k \in SourceErrors \cup LuaErrors}
    [] c.op = "PING" -> {Say("PONG", NoVoltage)}
    [] OTHER -> {Say("UNKNOWN_COMMAND", NoVoltage)}

Line == [kind : {"NONE", "READY", "SCREEN_OPEN_FAILED", "PONG", "PD_INITIALIZED",
                 "OK_PD", "PDO_NOT_FOUND", "REQUEST_FAILED", "UNKNOWN_COMMAND",
                 "BUSY"}
                  \cup SourceErrors \cup LuaErrors \cup LuaTraces,
         v : VoltageOrNone,
         measured : VoltageOrNone]
=============================================================================
