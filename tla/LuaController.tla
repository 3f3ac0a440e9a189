--------------------------- MODULE LuaController ---------------------------
(***************************************************************************)
(* The Lua program of the KT002 (kt002_lua/onBoot.lua) with the USB-PD     *)
(* source it drives.  One action per stretch of the script between two     *)
(* calls that leave it (fast-charge interface, PD sink, delays, meter,     *)
(* screen): chargers come and go, and texts arrive, between any two.       *)
(*                                                                         *)
(* Not in src/, and modelled from how the script uses them: the PD source  *)
(* and the sink firmware, the tcp buffer with its onReceived callback, and *)
(* the reader of the printed lines.                                        *)
(*                                                                         *)
(* An operator said to be a mutant is no part of the model: it is the      *)
(* definition after it with a slip of the code, to see a property fail.    *)
(***************************************************************************)
EXTENDS LuaLines, Sequences, FiniteSets

CONSTANTS Chargers,        \* the chargers that may be plugged in
          NoSource,        \* nothing plugged in
          Capabilities,    \* the PDO list each charger advertises
          Commands,        \* the commands the sender writes
          Reentrant,       \* may onReceived run while an earlier run waits?
          Pipelined,       \* may the sender write before it has its answer?
          MaxCommands,     \* bound: commands sent
          MaxPlugs         \* bound: chargers plugged or unplugged

PDO == [type : {"FIXED", "AUGMENTED"}, voltage : Nat]

\* Charger c lists a fixed PDO for v volts.
Advertises(c, v) == \E i \in DOMAIN Capabilities[c] :
                      Capabilities[c][i] = [type |-> "FIXED", voltage |-> v]

ASSUME ChargersAssumption == NoSource \notin Chargers
ASSUME CapabilitiesAssumption == Capabilities \in [Chargers -> Seq(PDO)]
ASSUME CommandsAssumption == Commands \subseteq Command
ASSUME FlagsAssumption == Reentrant \in BOOLEAN /\ Pipelined \in BOOLEAN
ASSUME BoundsAssumption == MaxCommands \in Nat /\ MaxPlugs \in Nat

VARIABLES
  \* the PD source and the sink firmware
  source,          \* the charger plugged in
  capsReceived,    \* pdSink.isSrcCapReceived()
  contract,        \* the voltage on the bus
  \* the channel to and from the host
  tcp,             \* texts received and not yet read by tcp.readAll
  callbacks,       \* onReceived calls still to be made
  out,             \* lines printed and not yet read by the host
  awaiting,        \* the host waits for the answer to what it sent
  \* the script
  command_busy, pd_initialized, source_caps,
  pc,              \* where the running callback is
  command,         \* the command it works on
  \* history
  reply,           \* the conclusive reply to that command
  granted,         \* the voltage the source granted to that command
  disturbed,       \* a charger was plugged or unplugged since the command
                   \* was taken or, once it is granted, since the grant
  replugged,       \* ... since the capabilities were read
  sent, plugs      \* counted against the bounds

sourceVars  == <<source, capsReceived, contract>>
channelVars == <<tcp, callbacks, out, awaiting>>
scriptVars  == <<command_busy, pd_initialized, source_caps, pc, command>>
historyVars == <<reply, granted, disturbed, replugged>>
vars == <<sourceVars, channelVars, scriptVars, historyVars, sent, plugs>>

Steps == {"boot", "exited", "idle", "process", "open", "attached", "wait",
          "wait again", "read", "search", "settle", "raised", "report", "show"}

TypeOK ==
  /\ source \in Chargers \cup {NoSource}
  /\ capsReceived \in BOOLEAN
  /\ contract \in VoltageOrNone
  /\ tcp \in Seq(Commands)
  /\ callbacks \in Nat
  /\ out \in Seq(Line)
  /\ awaiting \in BOOLEAN
  /\ command_busy \in BOOLEAN
  /\ pd_initialized \in BOOLEAN
  /\ source_caps \in Seq(PDO)
  /\ pc \in Steps
  /\ command \in Commands \cup {Jumble, NoCommand}
  /\ reply \in Line
  /\ granted \in VoltageOrNone
  /\ disturbed \in BOOLEAN
  /\ replugged \in BOOLEAN
  /\ sent \in 0..MaxCommands
  /\ plugs \in 0..MaxPlugs

Init ==
  /\ source \in Chargers \cup {NoSource}
  /\ capsReceived = FALSE
  /\ contract = IF source = NoSource THEN NoVoltage ELSE 5
  /\ tcp = <<>> /\ callbacks = 0 /\ out = <<>> /\ awaiting = FALSE
  /\ command_busy = FALSE /\ pd_initialized = FALSE /\ source_caps = <<>>
  /\ pc = "boot" /\ command = NoCommand
  /\ reply = NoLine /\ granted = NoVoltage
  /\ disturbed = FALSE /\ replugged = FALSE
  /\ sent = 0 /\ plugs = 0

-----------------------------------------------------------------------------
(* The PD source and the sink firmware *)

Attach(c) ==
  /\ plugs < MaxPlugs /\ source = NoSource
  /\ source' = c /\ contract' = 5 /\ capsReceived' = FALSE
  /\ disturbed' = TRUE /\ replugged' = TRUE /\ plugs' = plugs + 1
  /\ UNCHANGED <<channelVars, scriptVars, reply, granted, sent>>

Detach ==
  /\ plugs < MaxPlugs /\ source # NoSource
  /\ source' = NoSource /\ contract' = NoVoltage /\ capsReceived' = FALSE
  /\ disturbed' = TRUE /\ replugged' = TRUE /\ plugs' = plugs + 1
  /\ UNCHANGED <<channelVars, scriptVars, reply, granted, sent>>

\* A charger with something to advertise does so some time after it is
\* plugged in and after each reset of the sink.
AdvertiseCapabilities ==
  /\ source # NoSource /\ ~capsReceived /\ Capabilities[source] # <<>>
  /\ capsReceived' = TRUE
  /\ UNCHANGED <<source, contract, channelVars, scriptVars, historyVars,
                 sent, plugs>>

-----------------------------------------------------------------------------
(* The host: writes commands, reads lines *)

\* Lines after which the driver stops waiting (see raises in KT002Controller).
Conclusive(line) ==
  line.kind \notin {"READY", "PD_INITIALIZED", "TRACE"}

Send(c) ==
  /\ sent < MaxCommands /\ pc # "boot"
  /\ ~awaiting \/ Pipelined
  /\ tcp' = Append(tcp, c)
  /\ callbacks' = IF pc = "exited" THEN callbacks ELSE callbacks + 1
  /\ awaiting' = TRUE /\ sent' = sent + 1
  /\ UNCHANGED <<sourceVars, out, scriptVars, historyVars, plugs>>

ReadLine ==
  /\ out # <<>>
  /\ out' = Tail(out)
  /\ awaiting' = (awaiting /\ ~Conclusive(Head(out)))
  /\ UNCHANGED <<sourceVars, tcp, callbacks, scriptVars, historyVars,
                 sent, plugs>>

-----------------------------------------------------------------------------
(* The script *)

\* send_reply(message): the driver sees what print() shows it.
send_reply(line) == out' = Append(out, line)

\* The reply that settles the command, after which show_message is called.
Conclude(line) == send_reply(line) /\ reply' = line /\ pc' = "show"

GoTo(step) == pc' = step /\ UNCHANGED <<out, reply>>

Startup ==
  /\ pc = "boot"
  /\ \/ pc' = "idle" /\ send_reply(Say("READY", NoVoltage))
     \/ pc' = "exited" /\ send_reply(Say("SCREEN_OPEN_FAILED", NoVoltage))
  /\ UNCHANGED <<sourceVars, tcp, callbacks, awaiting, command_busy,
                 pd_initialized, source_caps, command, historyVars,
                 sent, plugs>>

\* The firmware calls usb_command_received: between two callbacks or, if the
\* firmware is so made, while one is inside a call of its own.
CallbackDue ==
  /\ callbacks > 0 /\ pc \notin {"boot", "exited"}
  /\ pc = "idle" \/ Reentrant
  /\ callbacks' = callbacks - 1

ReceiveWhileBusy ==
  /\ CallbackDue /\ command_busy
  /\ send_reply(Say("BUSY", NoVoltage))
  /\ UNCHANGED <<sourceVars, tcp, awaiting, scriptVars, historyVars,
                 sent, plugs>>

ReceiveNothing ==
  /\ CallbackDue /\ ~command_busy /\ tcp = <<>>
  /\ UNCHANGED <<sourceVars, tcp, out, awaiting, scriptVars, historyVars,
                 sent, plugs>>

\* tcp.readAll returns all that has arrived, with nothing between commands.
normalize_command(texts) == IF Len(texts) = 1 THEN texts[1] ELSE Jumble

\* Mutant: the busy flag is not looked at.
ReceiveCommandAnyway ==
  /\ CallbackDue /\ tcp # <<>>
  /\ command' = normalize_command(tcp)
  /\ tcp' = <<>>
  /\ command_busy' = TRUE
  /\ pc' = "process"
  /\ reply' = NoLine /\ granted' = NoVoltage /\ disturbed' = FALSE
  /\ UNCHANGED <<sourceVars, out, awaiting, pd_initialized, source_caps,
                 replugged, sent, plugs>>

ReceiveCommand ==
  /\ CallbackDue /\ ~command_busy /\ tcp # <<>>
  /\ command' = normalize_command(tcp)
  /\ tcp' = <<>>
  /\ command_busy' = TRUE
  /\ pc' = "process"
  /\ reply' = NoLine /\ granted' = NoVoltage /\ disturbed' = FALSE
  /\ UNCHANGED <<sourceVars, out, awaiting, pd_initialized, source_caps,
                 replugged, sent, plugs>>

\* What no step of process_command touches.
InCommand == UNCHANGED <<tcp, callbacks, awaiting, command_busy, command,
                         sent, plugs>>
\* ... nor the steps that leave the source and its cached PDO list alone.
NoSinkCall == InCommand /\ UNCHANGED <<sourceVars, pd_initialized, source_caps,
                                       granted, disturbed, replugged>>

process_command ==
  /\ pc = "process"
  /\ CASE command.op = "PD" /\ pd_initialized -> GoTo("search")
       [] command.op = "PD" /\ ~pd_initialized -> GoTo("open")
       [] command.op = "PING" -> Conclude(Say("PONG", NoVoltage))
       [] OTHER -> Conclude(Say("UNKNOWN_COMMAND", NoVoltage))
  /\ NoSinkCall

\* fastChgTrig.open(), and the reset of the sink that follows its success.
OpenFastCharge ==
  /\ pc = "open"
  /\ \/ /\ Conclude(Say("FASTCHG_OPEN_FAILED", NoVoltage))
        /\ UNCHANGED capsReceived
     \/ /\ GoTo("attached")
        /\ capsReceived' = FALSE
  /\ InCommand
  /\ UNCHANGED <<source, contract, pd_initialized, source_caps,
                 granted, disturbed, replugged>>

\* Mutant: no return after the error.
CheckSourceAttachedFallsThrough ==
  /\ pc = "attached"
  /\ IF source = NoSource
     THEN send_reply(Say("NO_PD_SOURCE", NoVoltage)) /\ reply' = Say("NO_PD_SOURCE", NoVoltage)
     ELSE UNCHANGED <<out, reply>>
  /\ pc' = "wait"
  /\ NoSinkCall

CheckSourceAttached ==
  /\ pc = "attached"
  /\ IF source = NoSource THEN Conclude(Say("NO_PD_SOURCE", NoVoltage))
                          ELSE GoTo("wait")
  /\ NoSinkCall

\* wait_for_source_capability: polls once a millisecond.
CapabilitiesSeen ==
  /\ pc \in {"wait", "wait again"} /\ capsReceived
  /\ GoTo("read")
  /\ NoSinkCall

\* The first time it times out the sink and the source are reset.
HardReset ==
  /\ pc = "wait" /\ ~capsReceived
  /\ GoTo("wait again")
  /\ contract' = IF source = NoSource THEN NoVoltage ELSE 5
  /\ InCommand
  /\ UNCHANGED <<source, capsReceived, pd_initialized, source_caps,
                 granted, disturbed, replugged>>

GiveUpWaiting ==
  /\ pc = "wait again" /\ ~capsReceived
  /\ Conclude(Say("SOURCE_CAP_TIMEOUT", NoVoltage))
  /\ NoSinkCall

\* read_source_capabilities.  It has no delay of its own: a charger may be
\* pulled out while it runs, which makes getSrcCap return nil and the script
\* raise, but no other one is negotiated with.
ReadCapabilities ==
  /\ pc = "read" /\ capsReceived
  /\ source_caps' = Capabilities[source]
  /\ pd_initialized' = TRUE /\ replugged' = FALSE
  /\ send_reply(Say("PD_INITIALIZED", NoVoltage))
  /\ pc' = "search"
  /\ InCommand
  /\ UNCHANGED <<sourceVars, reply, granted, disturbed>>

ReadNoCapability ==
  /\ pc = "read" /\ ~capsReceived
  /\ source_caps' = <<>>
  /\ Conclude(Say("NO_SOURCE_CAPABILITY", NoVoltage))
  /\ InCommand
  /\ UNCHANGED <<sourceVars, pd_initialized, granted, disturbed, replugged>>

ReadInterrupted ==
  /\ pc = "read" /\ capsReceived /\ plugs < MaxPlugs
  /\ \E n \in 0 .. Len(Capabilities[source]) - 1 :
       source_caps' = SubSeq(Capabilities[source], 1, n)
  /\ source' = NoSource /\ contract' = NoVoltage /\ capsReceived' = FALSE
  /\ disturbed' = TRUE /\ replugged' = TRUE /\ plugs' = plugs + 1
  /\ GoTo("raised")
  /\ UNCHANGED <<tcp, callbacks, awaiting, command_busy, pd_initialized,
                 command, granted, sent>>

-----------------------------------------------------------------------------
(* request_fixed_voltage *)

\* Mutant: the loop stops one short.
MatchesButLast(v) ==
  {i \in DOMAIN source_caps :
     i < Len(source_caps) /\ source_caps[i] = [type |-> "FIXED", voltage |-> v]}

\* Where the cached list has the fixed PDO for a voltage.
Matches(v) == {i \in DOMAIN source_caps :
                 source_caps[i] = [type |-> "FIXED", voltage |-> v]}

\* The sink can make a request only for a PDO of the source it sees.
Offered(i, v) ==
  /\ capsReceived
  /\ i \in DOMAIN Capabilities[source]
  /\ Capabilities[source][i] = [type |-> "FIXED", voltage |-> v]

NotFound ==
  /\ pc = "search" /\ Matches(command.v) = {}
  /\ Conclude(Say("PDO_NOT_FOUND", command.v))
  /\ NoSinkCall

\* pdSink.request(index, ...) with the first match.
Request(i) ==
  /\ pc = "search"
  /\ i \in Matches(command.v) /\ \A j \in Matches(command.v) : i <= j

\* Mutant: asks for the index, not for the voltage.
RequestGrantedByIndex(i) ==
  /\ Request(i) /\ Offered(i, command.v)
  /\ contract' = i /\ granted' = i /\ disturbed' = FALSE
  /\ GoTo("settle")
  /\ InCommand
  /\ UNCHANGED <<source, capsReceived, pd_initialized, source_caps, replugged>>

RequestGranted(i) ==
  /\ Request(i) /\ Offered(i, command.v)
  /\ contract' = command.v /\ granted' = command.v /\ disturbed' = FALSE
  /\ GoTo("settle")
  /\ InCommand
  /\ UNCHANGED <<source, capsReceived, pd_initialized, source_caps, replugged>>

\* Mutant: the result of the request is not looked at.
RequestFailedUnchecked(i) ==
  /\ Request(i)
  /\ GoTo("settle")
  /\ NoSinkCall

RequestFailed(i) ==
  /\ Request(i)
  /\ Conclude(Say("REQUEST_FAILED", command.v))
  /\ NoSinkCall

\* "Request: No specified PDO."
RequestRaises(i) ==
  /\ Request(i) /\ ~Offered(i, command.v)
  /\ GoTo("raised")
  /\ NoSinkCall

\* The delay, the measurement and the reply, whatever was measured.
MeasureAndReply ==
  /\ pc = "settle"
  /\ Conclude(SayMeasured(command.v, contract))
  /\ NoSinkCall

-----------------------------------------------------------------------------
(* usb_command_received after pcall *)

\* A raise from ReadInterrupted leaves no list, one from a request does.
RaisedByRequest == pd_initialized

PrintTrace ==
  /\ pc = "raised"
  /\ send_reply(Say(IF RaisedByRequest THEN "TRACE_NO_PDO" ELSE "TRACE",
                    NoVoltage))
  /\ pc' = "report"
  /\ UNCHANGED reply
  /\ NoSinkCall

ReportLuaError ==
  /\ pc = "report"
  /\ Conclude(Say(IF RaisedByRequest THEN "ERROR_LUA_NO_PDO" ELSE "ERROR_LUA",
                  NoVoltage))
  /\ NoSinkCall

\* Mutant: command_busy stays set.
FinishStaysBusy ==
  /\ pc = "show"
  /\ pc' = "idle"
  /\ UNCHANGED <<sourceVars, channelVars, command_busy, pd_initialized,
                 source_caps, command, historyVars, sent, plugs>>

\* show_message, then the callback returns.
Finish ==
  /\ pc = "show"
  /\ command_busy' = FALSE
  /\ pc' = "idle"
  /\ UNCHANGED <<sourceVars, channelVars, pd_initialized, source_caps,
                 command, historyVars, sent, plugs>>

-----------------------------------------------------------------------------
Callback == ReceiveWhileBusy \/ ReceiveNothing \/ ReceiveCommand

WorkOnCommand ==
  \/ process_command
  \/ OpenFastCharge \/ CheckSourceAttached
  \/ CapabilitiesSeen \/ HardReset \/ GiveUpWaiting
  \/ ReadCapabilities \/ ReadNoCapability \/ ReadInterrupted
  \/ NotFound
  \/ \E i \in DOMAIN source_caps :
       RequestGranted(i) \/ RequestFailed(i) \/ RequestRaises(i)
  \/ MeasureAndReply
  \/ PrintTrace \/ ReportLuaError

Script == Startup \/ Callback \/ WorkOnCommand \/ Finish

Environment ==
  \/ \E c \in Chargers : Attach(c)
  \/ Detach \/ AdvertiseCapabilities
  \/ \E c \in Commands : Send(c)
  \/ ReadLine

Next == Script \/ Environment

\* The interpreter runs on, the firmware delivers its callbacks, and a wait
\* ends by its time limit: each is a continuously enabled step taken in the
\* end.  Nobody has to plug, send or read anything.
Fairness == /\ WF_vars(Callback)
            /\ WF_vars(WorkOnCommand)
            /\ WF_vars(Finish)

Spec == Init /\ [][Next]_vars /\ Fairness

-----------------------------------------------------------------------------
(* What the program promises *)

Phase == IF pc \in {"boot", "exited", "idle"} THEN "ready"
         ELSE IF pc = "show" THEN "answered" ELSE "working"

\* Every command that is taken gets exactly one conclusive reply, one that
\* may settle it, whichever early return of initialize_pd and
\* request_fixed_voltage or pcall failure it runs into, and the controller is
\* then ready again.
Service == INSTANCE LuaService WITH phase <- Phase, job <- command
OneReplyEach == Service!Spec

\* OK:PD_nV is said only when the source granted n volts to this very
\* command, and reports n volts unless a charger was pulled out or plugged in
\* after the grant: the line is printed whatever the meter reads.
OkMeansGranted ==
  pc = "show" /\ reply.kind = "OK_PD" =>
    /\ reply.v = command.v /\ granted = command.v
    /\ reply.measured = command.v \/ disturbed

\* ERROR:PDO_nV_NOT_FOUND is true of the source the list was read from: if it
\* has stayed plugged in since, it has no fixed PDO for n volts.
NotFoundTrueOfSourceRead ==
  pc = "show" /\ reply.kind = "PDO_NOT_FOUND" /\ ~replugged =>
    source # NoSource /\ ~Advertises(source, reply.v)

\* Every text that arrives is read in the end.  This needs callbacks that wait
\* for one another: ERROR:BUSY returns without reading.
TextsAreRead == tcp # <<>> /\ callbacks > 0 ~> tcp = <<>>

\* exceptions.py:55: KT002PDONotFoundError is "Raised when the requested
\* Fixed PDO is not advertised by the source."  It is raised for this line,
\* here said to a command during which nothing was plugged or unplugged.
NotFoundMeansNotAdvertised ==
  [][reply' # reply /\ reply'.kind = "PDO_NOT_FOUND" /\ ~disturbed =>
       ~ (capsReceived /\ Advertises(source, reply'.v))]_vars
=============================================================================
