---------------------------- MODULE KT002Service ----------------------------
(***************************************************************************)
(* What a KT002Controller promises its user: calls follow one another,     *)
(* each asks the device once and not before the set-up it needs, and ends  *)
(* with one result of those its method may have.  No device is in sight:   *)
(* what it answers, and when, makes no difference to this.                 *)
(* KT002Controller implements it.                                          *)
(***************************************************************************)
EXTENDS LuaLines

CONSTANTS Commands, Apis

WaitsForLine == {"send_command_wait_result", "send_command_result"}

VARIABLES phase,       \* "idle", "connecting", "preparing" or "asked"
          connected,
          registered,  \* the device has been told to report text
          call,        \* the call in progress, or the last one
          settled,     \* nothing was owed to an earlier call when it asked
          outcome      \* how the last call ended

vars == <<phase, connected, registered, call, settled, outcome>>

Init ==
  /\ phase = "idle" /\ connected = TRUE /\ registered = FALSE
  /\ call = [id |-> 0, api |-> "ping", cmd |-> NoCommand]
  /\ settled = FALSE
  /\ outcome = [kind |-> "none", line |-> NoLine, of |-> {}]

-----------------------------------------------------------------------------
(* Results *)

Raised(kinds) == {[kind |-> k, line |-> NoLine, of |-> {}] : k \in kinds}

\* The line the command was to bring, and the lines that tell of an error.
Fulfils(cmd, line) == \/ cmd.op = "PD" /\ line.kind = "OK_PD" /\ line.v = cmd.v
                      \/ cmd.op = "PING" /\ line.kind = "PONG"
Complains(line) ==
  line.kind \in {"PDO_NOT_FOUND", "REQUEST_FAILED", "UNKNOWN_COMMAND", "BUSY",
                 "SCREEN_OPEN_FAILED", "TRACE_NO_PDO"} \cup SourceErrors \cup LuaErrors

\* What a frame, or the text of a line, makes of a call.  A text that stops
\* short is handed to the caller as it is or cannot be parsed.
Answer(o) ==
  /\ IF call.api \in WaitsForLine
     THEN \/ o.kind = "lua error" /\ Complains(o.line)
          \/ /\ Fulfils(call.cmd, o.line)
             /\ \/ o.kind = "ok"
                \/ o.kind = "truncated" /\ call.api = "send_command_wait_result"
                \/ /\ call.api = "send_command_result"
                   /\ o.kind = IF call.cmd.op = "PD" THEN "type error" ELSE "timeout"
     ELSE o.kind = "ok" /\ o.line = NoLine
  /\ settled => o.of = {call.id}

-----------------------------------------------------------------------------
(* The user *)

Close ==
  /\ phase = "idle" /\ connected
  /\ connected' = FALSE /\ registered' = FALSE
  /\ UNCHANGED <<phase, call, settled, outcome>>

Connect ==
  /\ phase = "idle"
  /\ IF connected THEN registered' = FALSE /\ UNCHANGED phase
                  ELSE phase' = "connecting" /\ UNCHANGED registered
  /\ UNCHANGED <<connected, call, settled, outcome>>

\* After a failure the connection may be open or not.
ConnectEnds ==
  /\ phase = "connecting" /\ phase' = "idle"
  /\ \/ connected' = TRUE /\ UNCHANGED outcome
     \/ connected' \in BOOLEAN /\ outcome' \in Raised({"usb error"})
  /\ UNCHANGED <<registered, call, settled>>

Begin ==
  /\ phase = "idle"
  /\ \E api \in Apis, cmd \in Commands \cup {NoCommand} :
       call' = [id |-> call.id + 1, api |-> api, cmd |-> cmd]
  /\ settled' = FALSE
  /\ IF connected THEN phase' = "preparing" /\ UNCHANGED outcome
                  ELSE outcome' \in Raised({"usb error"}) /\ UNCHANGED phase
  /\ UNCHANGED <<connected, registered>>

-----------------------------------------------------------------------------
(* The call *)

KeepsCall == UNCHANGED <<connected, call>>

\* The set-up of the connection, as a call of its own or for another one.
Register ==
  /\ phase = "preparing" /\ registered' = TRUE
  /\ IF call.api = "register_lua_miso"
     THEN phase' = "idle" /\ Answer(outcome')
     ELSE UNCHANGED <<phase, outcome>>
  /\ UNCHANGED settled /\ KeepsCall

\* The one write of the request; a line is asked for only when it would come.
Ask ==
  /\ phase = "preparing" /\ call.api # "register_lua_miso"
  /\ call.api \in WaitsForLine => registered
  /\ settled' \in BOOLEAN
  /\ \/ phase' = "asked" /\ UNCHANGED outcome
     \/ phase' = "idle" /\ outcome' \in Raised({"usb error"})
  /\ UNCHANGED registered /\ KeepsCall

Conclude ==
  /\ phase = "asked" /\ phase' = "idle"
  /\ Answer(outcome')
  /\ UNCHANGED <<registered, settled>> /\ KeepsCall

Fail ==
  /\ phase \in {"preparing", "asked"} /\ phase' = "idle"
  /\ outcome' \in Raised({"usb error", "protocol error", "timeout"})
  /\ UNCHANGED <<registered, settled>> /\ KeepsCall

Next == \/ Close \/ Connect \/ ConnectEnds \/ Begin
        \/ Register \/ Ask \/ Conclude \/ Fail

Spec == Init /\ [][Next]_vars
=============================================================================
