------------------------ MODULE LuaController_proofs ------------------------
(***************************************************************************)
(* What holds of onBoot.lua for every set of chargers, PDO list, sequence  *)
(* of commands and number of plug events: see Inv for the invariant the    *)
(* theorems rest on.                                                       *)
(***************************************************************************)
EXTENDS LuaController, TLAPS

\* The callback runs exactly while command_busy is set.
BusyWhileRunning == command_busy <=> pc \notin {"boot", "exited", "idle"}

\* Past process_command the command is a voltage request, and the PDO list is
\* searched only once it has been read.
RequestsOnly ==
  /\ command_busy => command \in Command
  /\ pc \notin {"boot", "exited", "idle", "process", "show"}
       => command.op = "PD"
  /\ pc \in {"open", "attached", "wait", "wait again", "read"}
       => ~pd_initialized
  /\ pc \in {"search", "settle"} => pd_initialized

\* The sink knows capabilities only of a charger that is there.
SinkSeesSource == capsReceived => source # NoSource

\* The cached list is the charger's until somebody touches the plug.
CacheCurrent ==
  pd_initialized /\ ~replugged =>
    source # NoSource /\ source_caps = Capabilities[source]

\* While the voltage settles, the grant stands unless the plug was touched.
GrantStands ==
  pc = "settle" =>
    granted = command.v /\ (contract = command.v \/ disturbed)

Meaning == /\ BusyWhileRunning /\ RequestsOnly
           /\ SinkSeesSource /\ CacheCurrent /\ GrantStands
           /\ OkMeansGranted /\ NotFoundTrueOfSourceRead

Inv == TypeOK /\ Meaning

-----------------------------------------------------------------------------
(* Types *)

LEMMA VoltageTypes == 5 \in VoltageOrNone /\ NoVoltage \in VoltageOrNone
                        /\ Voltages \subseteq VoltageOrNone
BY DEF VoltageOrNone, Voltages

\* A command on the wire names a voltage of the list, or none.
LEMMA CommandVoltage ==
  ASSUME NEW c \in Commands \cup {Jumble, NoCommand}
  PROVE  /\ c.v \in VoltageOrNone
         /\ c.op = "PD" => c.v \in Voltages
         /\ c # NoCommand => c \in Command
BY CommandsAssumption DEF Command, Jumble, NoCommand, NoVoltage, Voltages,
   VoltageOrNone

\* Reading the buffer yields the one text it holds or a jumble.
LEMMA NormalizedCommand ==
  ASSUME NEW t \in Seq(Commands), t # <<>>
  PROVE  normalize_command(t) \in Commands \cup {Jumble}
<1>1. CASE Len(t) = 1
  BY <1>1 DEF normalize_command
<1>2. CASE Len(t) # 1
  BY <1>2 DEF normalize_command
<1> QED BY <1>1, <1>2

\* Every line the script prints is a Line.
LEMMA PlainLine ==
  ASSUME NEW k \in SourceErrors \cup LuaErrors \cup LuaTraces
                \cup {"NONE", "READY", "SCREEN_OPEN_FAILED", "PONG", "PD_INITIALIZED",
                      "UNKNOWN_COMMAND", "BUSY"}
  PROVE  Say(k, NoVoltage) \in Line
BY VoltageTypes DEF Line, Say

LEMMA VoltageLine ==
  ASSUME NEW v \in VoltageOrNone
  PROVE  /\ Say("PDO_NOT_FOUND", v) \in Line
         /\ Say("REQUEST_FAILED", v) \in Line
         /\ \A m \in VoltageOrNone : SayMeasured(v, m) \in Line
BY VoltageTypes DEF Line, Say, SayMeasured

LEMMA ConcludeTypes ==
  ASSUME TypeOK, NEW line \in Line, Conclude(line)
  PROVE  out' \in Seq(Line) /\ reply' \in Line /\ pc' \in Steps
<1>1. out' \in Seq(Line)
  BY DEF TypeOK, Conclude, send_reply
<1>2. pc' \in Steps /\ reply' \in Line
  BY DEF Conclude, Steps
<1> QED BY <1>1, <1>2

LEMMA GoToTypes ==
  ASSUME TypeOK, NEW step \in Steps, GoTo(step)
  PROVE  out' \in Seq(Line) /\ reply' \in Line /\ pc' \in Steps
BY DEF TypeOK, GoTo

LEMMA NoSinkCallTypes ==
  ASSUME TypeOK, NoSinkCall,
         out' \in Seq(Line), reply' \in Line, pc' \in Steps
  PROVE  TypeOK'
BY DEF TypeOK, NoSinkCall, InCommand, sourceVars

LEMMA InitTypes == Init => TypeOK
<1> SUFFICES ASSUME Init PROVE TypeOK
  OBVIOUS
<1>1. contract \in VoltageOrNone /\ granted \in VoltageOrNone
  BY VoltageTypes DEF Init
<1>2. pc \in Steps
  BY DEF Init, Steps
<1>3. sent \in 0..MaxCommands /\ plugs \in 0..MaxPlugs /\ callbacks \in Nat
  BY BoundsAssumption DEF Init
<1>4. tcp \in Seq(Commands) /\ out \in Seq(Line) /\ source_caps \in Seq(PDO)
  BY DEF Init
<1>5. reply \in Line
  BY PlainLine DEF Init, NoLine
<1> QED BY <1>1, <1>2, <1>3, <1>4, <1>5 DEF Init, TypeOK

\* Steps of the environment keep the types.
LEMMA EnvironmentTypes == TypeOK /\ Environment => TypeOK'
<1> SUFFICES ASSUME TypeOK, Environment PROVE TypeOK'
  OBVIOUS
<1>1. ASSUME NEW c \in Chargers, Attach(c) PROVE TypeOK'
  <2>1. plugs' \in 0..MaxPlugs
    BY <1>1, BoundsAssumption DEF TypeOK, Attach
  <2>2. contract' \in VoltageOrNone
    BY <1>1, VoltageTypes DEF Attach
  <2> QED BY <1>1, <2>1, <2>2 DEF TypeOK, Attach, channelVars, scriptVars
<1>2. CASE Detach
  <2>1. plugs' \in 0..MaxPlugs
    BY <1>2, BoundsAssumption DEF TypeOK, Detach
  <2>2. contract' \in VoltageOrNone
    BY <1>2, VoltageTypes DEF Detach
  <2> QED BY <1>2, <2>1, <2>2 DEF TypeOK, Detach, channelVars, scriptVars
<1>3. CASE AdvertiseCapabilities
  BY <1>3 DEF TypeOK, AdvertiseCapabilities, channelVars, scriptVars, historyVars
<1>4. ASSUME NEW c \in Commands, Send(c) PROVE TypeOK'
  BY <1>4, BoundsAssumption
     DEF TypeOK, Send, sourceVars, scriptVars, historyVars
<1>5. CASE ReadLine
  BY <1>5 DEF TypeOK, ReadLine, sourceVars, scriptVars, historyVars
<1> QED BY <1>1, <1>2, <1>3, <1>4, <1>5 DEF Environment

\* Between commands.
LEMMA CallbackTypes == TypeOK /\ (Startup \/ Callback \/ Finish) => TypeOK'
<1> SUFFICES ASSUME TypeOK, Startup \/ Callback \/ Finish PROVE TypeOK'
  OBVIOUS
<1>1. CASE Startup
  <2>1. /\ Say("READY", NoVoltage) \in Line
        /\ Say("SCREEN_OPEN_FAILED", NoVoltage) \in Line
    BY PlainLine
  <2>2. out' \in Seq(Line)
    <3>1. CASE send_reply(Say("READY", NoVoltage))
      BY <2>1, <3>1 DEF TypeOK, send_reply
    <3>2. CASE send_reply(Say("SCREEN_OPEN_FAILED", NoVoltage))
      BY <2>1, <3>2 DEF TypeOK, send_reply
    <3> QED BY <1>1, <3>1, <3>2 DEF Startup
  <2>3. pc' \in Steps
    BY <1>1 DEF Startup, Steps
  <2> QED
    BY <1>1, <2>2, <2>3 DEF TypeOK, Startup, sourceVars, historyVars
<1>2. CASE ReceiveWhileBusy
  <2>1. Say("BUSY", NoVoltage) \in Line
    BY PlainLine
  <2>2. out' \in Seq(Line)
    BY <1>2, <2>1 DEF TypeOK, ReceiveWhileBusy, send_reply
  <2> QED
    BY <1>2, <2>2 DEF TypeOK, ReceiveWhileBusy, CallbackDue, sourceVars,
                      scriptVars, historyVars
<1>3. CASE ReceiveNothing
  BY <1>3 DEF TypeOK, ReceiveNothing, CallbackDue, sourceVars, scriptVars,
              historyVars
<1>4. CASE ReceiveCommand
  <2>1. command' \in Commands \cup {Jumble}
    BY <1>4, NormalizedCommand DEF TypeOK, ReceiveCommand
  <2>2. pc' \in Steps
    BY <1>4 DEF ReceiveCommand, Steps
  <2>3. reply' \in Line
    BY <1>4, PlainLine DEF ReceiveCommand, NoLine
  <2>4. granted' \in VoltageOrNone
    BY <1>4, VoltageTypes DEF ReceiveCommand
  <2>5. tcp' \in Seq(Commands)
    BY <1>4 DEF ReceiveCommand
  <2>6. callbacks' \in Nat
    BY <1>4 DEF TypeOK, ReceiveCommand, CallbackDue
  <2> QED
    BY <1>4, <2>1, <2>2, <2>3, <2>4, <2>5, <2>6
       DEF TypeOK, ReceiveCommand, sourceVars
<1>5. CASE Finish
  <2>1. pc' \in Steps
    BY <1>5 DEF Finish, Steps
  <2> QED
    BY <1>5, <2>1 DEF TypeOK, Finish, sourceVars, channelVars, historyVars
<1> QED BY <1>1, <1>2, <1>3, <1>4, <1>5 DEF Callback

\* While a command is worked on.
LEMMA WorkTypes == TypeOK /\ SinkSeesSource /\ WorkOnCommand => TypeOK'
<1> SUFFICES ASSUME TypeOK, SinkSeesSource, WorkOnCommand PROVE TypeOK'
  OBVIOUS
<1> DEFINE PrintsAndMoves ==
             out' \in Seq(Line) /\ reply' \in Line /\ pc' \in Steps
<1>a. command.v \in VoltageOrNone
  BY CommandVoltage DEF TypeOK
<1>b. /\ Say("PDO_NOT_FOUND", command.v) \in Line
      /\ Say("REQUEST_FAILED", command.v) \in Line
      /\ SayMeasured(command.v, contract) \in Line
  BY <1>a, VoltageLine DEF TypeOK
<1>c. \A k \in SourceErrors \cup LuaErrors \cup LuaTraces
               \cup {"PONG", "PD_INITIALIZED", "UNKNOWN_COMMAND"} :
        Say(k, NoVoltage) \in Line
  BY PlainLine
<1>d. {"open", "attached", "wait", "wait again", "read", "search", "settle",
       "raised", "report"} \subseteq Steps
  BY DEF Steps
<1>1. CASE process_command
  <2>1. Say("PONG", NoVoltage) \in Line /\ Say("UNKNOWN_COMMAND", NoVoltage) \in Line
    BY <1>c
  <2>2. \/ GoTo("search") \/ GoTo("open") \/ Conclude(Say("PONG", NoVoltage))
        \/ Conclude(Say("UNKNOWN_COMMAND", NoVoltage))
    BY <1>1 DEF process_command
  <2>3. PrintsAndMoves
    BY <2>1, <2>2, <1>d, ConcludeTypes, GoToTypes
  <2> QED BY <1>1, <2>3, NoSinkCallTypes DEF process_command
<1>2. CASE OpenFastCharge
  <2>1. Say("FASTCHG_OPEN_FAILED", NoVoltage) \in Line
    BY <1>c DEF SourceErrors
  <2>2. PrintsAndMoves
    BY <1>2, <2>1, <1>d, ConcludeTypes, GoToTypes DEF OpenFastCharge
  <2>3. capsReceived' \in BOOLEAN
    BY <1>2 DEF OpenFastCharge, TypeOK
  <2> QED BY <1>2, <2>2, <2>3 DEF TypeOK, OpenFastCharge, InCommand
<1>3. CASE CheckSourceAttached
  <2>1. Say("NO_PD_SOURCE", NoVoltage) \in Line
    BY <1>c DEF SourceErrors
  <2>2. PrintsAndMoves
    BY <1>3, <2>1, <1>d, ConcludeTypes, GoToTypes DEF CheckSourceAttached
  <2> QED BY <1>3, <2>2, NoSinkCallTypes DEF CheckSourceAttached
<1>4. CASE CapabilitiesSeen
  <2>1. PrintsAndMoves
    BY <1>4, <1>d, GoToTypes DEF CapabilitiesSeen
  <2> QED BY <1>4, <2>1, NoSinkCallTypes DEF CapabilitiesSeen
<1>5. CASE HardReset
  <2>1. PrintsAndMoves
    BY <1>5, <1>d, GoToTypes DEF HardReset
  <2>2. contract' \in VoltageOrNone
    BY <1>5, VoltageTypes DEF HardReset
  <2> QED BY <1>5, <2>1, <2>2 DEF TypeOK, HardReset, InCommand
<1>6. CASE GiveUpWaiting
  <2>1. Say("SOURCE_CAP_TIMEOUT", NoVoltage) \in Line
    BY <1>c DEF SourceErrors
  <2>2. PrintsAndMoves
    BY <1>6, <2>1, ConcludeTypes DEF GiveUpWaiting
  <2> QED BY <1>6, <2>2, NoSinkCallTypes DEF GiveUpWaiting
<1>7. CASE ReadCapabilities
  <2>1. Say("PD_INITIALIZED", NoVoltage) \in Line
    BY <1>c
  <2>2. out' \in Seq(Line)
    BY <1>7, <2>1 DEF TypeOK, ReadCapabilities, send_reply
  <2>3. source_caps' \in Seq(PDO)
    BY <1>7, CapabilitiesAssumption
       DEF TypeOK, ReadCapabilities, SinkSeesSource
  <2>4. pc' \in Steps
    BY <1>7, <1>d DEF ReadCapabilities
  <2> QED
    BY <1>7, <2>2, <2>3, <2>4
       DEF TypeOK, ReadCapabilities, InCommand, sourceVars
<1>8. CASE ReadNoCapability
  <2>1. Say("NO_SOURCE_CAPABILITY", NoVoltage) \in Line
    BY <1>c DEF SourceErrors
  <2>2. PrintsAndMoves
    BY <1>8, <2>1, ConcludeTypes DEF ReadNoCapability
  <2>3. source_caps' \in Seq(PDO)
    BY <1>8 DEF ReadNoCapability
  <2> QED
    BY <1>8, <2>2, <2>3 DEF TypeOK, ReadNoCapability, InCommand, sourceVars
<1>9. CASE ReadInterrupted
  <2>1. PrintsAndMoves
    BY <1>9, <1>d, GoToTypes DEF ReadInterrupted
  <2>2. plugs' \in 0..MaxPlugs
    BY <1>9, BoundsAssumption DEF TypeOK, ReadInterrupted
  <2>3. contract' \in VoltageOrNone
    BY <1>9, VoltageTypes DEF ReadInterrupted
  <2>4. Capabilities[source] \in Seq(PDO)
    BY <1>9, CapabilitiesAssumption
       DEF TypeOK, ReadInterrupted, SinkSeesSource
  <2>5. source_caps' \in Seq(PDO)
    <3>1. PICK n \in 0 .. Len(Capabilities[source]) - 1 :
            source_caps' = SubSeq(Capabilities[source], 1, n)
      BY <1>9 DEF ReadInterrupted
    <3> QED BY <2>4, <3>1
  <2> QED
    BY <1>9, <2>1, <2>2, <2>3, <2>5 DEF TypeOK, ReadInterrupted
<1>10. CASE NotFound
  <2>1. PrintsAndMoves
    BY <1>10, <1>b, ConcludeTypes DEF NotFound
  <2> QED BY <1>10, <2>1, NoSinkCallTypes DEF NotFound
<1>11. ASSUME NEW i \in DOMAIN source_caps, RequestGranted(i) PROVE TypeOK'
  <2>1. PrintsAndMoves
    BY <1>11, <1>d, GoToTypes DEF RequestGranted
  <2> QED
    BY <1>11, <1>a, <2>1 DEF TypeOK, RequestGranted, InCommand
<1>12. ASSUME NEW i \in DOMAIN source_caps, RequestFailed(i) PROVE TypeOK'
  <2>1. PrintsAndMoves
    BY <1>12, <1>b, ConcludeTypes DEF RequestFailed
  <2> QED BY <1>12, <2>1, NoSinkCallTypes DEF RequestFailed
<1>13. ASSUME NEW i \in DOMAIN source_caps, RequestRaises(i) PROVE TypeOK'
  <2>1. PrintsAndMoves
    BY <1>13, <1>d, GoToTypes DEF RequestRaises
  <2> QED BY <1>13, <2>1, NoSinkCallTypes DEF RequestRaises
<1>14. CASE MeasureAndReply
  <2>1. PrintsAndMoves
    BY <1>14, <1>b, ConcludeTypes DEF MeasureAndReply
  <2> QED BY <1>14, <2>1, NoSinkCallTypes DEF MeasureAndReply
<1>15. CASE PrintTrace
  <2>1. \A k \in LuaTraces : Say(k, NoVoltage) \in Line
    BY <1>c
  <2>2. \E k \in LuaTraces : send_reply(Say(k, NoVoltage))
    BY <1>15 DEF PrintTrace, LuaTraces
  <2>3. out' \in Seq(Line)
    BY <2>1, <2>2 DEF send_reply, TypeOK
  <2>4. PrintsAndMoves
    BY <1>15, <2>3, <1>d DEF PrintTrace, TypeOK
  <2> QED BY <1>15, <2>4, NoSinkCallTypes DEF PrintTrace
<1>16. CASE ReportLuaError
  <2>1. \A k \in LuaErrors : Say(k, NoVoltage) \in Line
    BY <1>c
  <2>2. \E k \in LuaErrors : Conclude(Say(k, NoVoltage))
    BY <1>16 DEF ReportLuaError, LuaErrors
  <2>3. PrintsAndMoves
    BY <2>1, <2>2, ConcludeTypes
  <2> QED BY <1>16, <2>3, NoSinkCallTypes DEF ReportLuaError
<1> QED
  BY <1>1, <1>2, <1>3, <1>4, <1>5, <1>6, <1>7, <1>8, <1>9, <1>10, <1>11,
     <1>12, <1>13, <1>14, <1>15, <1>16 DEF WorkOnCommand

-----------------------------------------------------------------------------
(* What the steps mean *)

LEMMA InitMeaning == Init => Meaning
BY DEF Init, Meaning, BusyWhileRunning, RequestsOnly, SinkSeesSource,
       CacheCurrent, GrantStands, OkMeansGranted, NotFoundTrueOfSourceRead

LEMMA EnvironmentMeaning == Inv /\ Environment => Meaning'
<1> SUFFICES ASSUME Inv, Environment PROVE Meaning'
  OBVIOUS
<1> USE DEF Inv, Meaning, BusyWhileRunning, RequestsOnly, SinkSeesSource,
            CacheCurrent, GrantStands, OkMeansGranted,
            NotFoundTrueOfSourceRead, sourceVars, channelVars, scriptVars,
            historyVars
<1>1. ASSUME NEW c \in Chargers, Attach(c) PROVE Meaning'
  BY <1>1, ChargersAssumption DEF Attach
<1>2. CASE Detach
  BY <1>2 DEF Detach
<1>3. CASE AdvertiseCapabilities
  BY <1>3 DEF AdvertiseCapabilities
<1>4. ASSUME NEW c \in Commands, Send(c) PROVE Meaning'
  BY <1>4 DEF Send
<1>5. CASE ReadLine
  BY <1>5 DEF ReadLine
<1> QED BY <1>1, <1>2, <1>3, <1>4, <1>5 DEF Environment

LEMMA CallbackMeaning == Inv /\ (Startup \/ Callback \/ Finish) => Meaning'
<1> SUFFICES ASSUME Inv, Startup \/ Callback \/ Finish PROVE Meaning'
  OBVIOUS
<1> USE DEF Inv, Meaning, BusyWhileRunning, RequestsOnly, SinkSeesSource,
            CacheCurrent, GrantStands, OkMeansGranted,
            NotFoundTrueOfSourceRead, sourceVars, channelVars, scriptVars,
            historyVars
<1>1. CASE Startup
  BY <1>1 DEF Startup
<1>2. CASE ReceiveWhileBusy
  BY <1>2 DEF ReceiveWhileBusy, CallbackDue
<1>3. CASE ReceiveNothing
  BY <1>3 DEF ReceiveNothing, CallbackDue
<1>4. CASE ReceiveCommand
  <2>1. command' \in Commands \cup {Jumble}
    BY <1>4, NormalizedCommand DEF TypeOK, ReceiveCommand
  <2>2. Jumble \in Command
    BY DEF Command, Jumble
  <2>3. command' \in Command
    BY <2>1, <2>2, CommandsAssumption
  <2> QED BY <1>4, <2>3 DEF ReceiveCommand, CallbackDue
<1>5. CASE Finish
  BY <1>5 DEF Finish
<1> QED BY <1>1, <1>2, <1>3, <1>4, <1>5 DEF Callback

LEMMA WorkMeaning == Inv /\ WorkOnCommand => Meaning'
<1> SUFFICES ASSUME Inv, WorkOnCommand PROVE Meaning'
  OBVIOUS
<1> USE DEF Inv, Meaning, BusyWhileRunning, RequestsOnly, SinkSeesSource,
            CacheCurrent, GrantStands, OkMeansGranted,
            NotFoundTrueOfSourceRead, sourceVars,
            InCommand, NoSinkCall, GoTo, Conclude, Say
<1>1. CASE process_command
  <2>1. CASE GoTo("search") /\ command.op = "PD" /\ pd_initialized
    BY <1>1, <2>1 DEF process_command
  <2>2. CASE GoTo("open") /\ command.op = "PD" /\ ~pd_initialized
    BY <1>1, <2>2 DEF process_command
  <2>3. CASE Conclude(Say("PONG", NoVoltage))
    BY <1>1, <2>3 DEF process_command
  <2>4. CASE Conclude(Say("UNKNOWN_COMMAND", NoVoltage))
    BY <1>1, <2>4 DEF process_command
  <2> QED BY <1>1, <2>1, <2>2, <2>3, <2>4 DEF process_command
<1>2. CASE OpenFastCharge
  <2>1. CASE GoTo("attached")
    BY <1>2, <2>1 DEF OpenFastCharge
  <2>2. CASE Conclude(Say("FASTCHG_OPEN_FAILED", NoVoltage))
    BY <1>2, <2>2 DEF OpenFastCharge
  <2> QED BY <1>2, <2>1, <2>2 DEF OpenFastCharge
<1>3. CASE CheckSourceAttached
  <2>1. CASE GoTo("wait")
    BY <1>3, <2>1 DEF CheckSourceAttached
  <2>2. CASE Conclude(Say("NO_PD_SOURCE", NoVoltage))
    BY <1>3, <2>2 DEF CheckSourceAttached
  <2> QED BY <1>3, <2>1, <2>2 DEF CheckSourceAttached
<1>4. CASE CapabilitiesSeen
  BY <1>4 DEF CapabilitiesSeen
<1>5. CASE HardReset
  BY <1>5 DEF HardReset
<1>6. CASE GiveUpWaiting
  BY <1>6 DEF GiveUpWaiting
<1>7. CASE ReadCapabilities
  BY <1>7 DEF ReadCapabilities
<1>8. CASE ReadNoCapability
  BY <1>8 DEF ReadNoCapability
<1>9. CASE ReadInterrupted
  BY <1>9 DEF ReadInterrupted
<1>10. CASE NotFound
  BY <1>10 DEF NotFound, Matches, Advertises
<1>11. ASSUME NEW i \in DOMAIN source_caps, RequestGranted(i) PROVE Meaning'
  BY <1>11 DEF RequestGranted, Request
<1>12. ASSUME NEW i \in DOMAIN source_caps, RequestFailed(i) PROVE Meaning'
  BY <1>12 DEF RequestFailed, Request
<1>13. ASSUME NEW i \in DOMAIN source_caps, RequestRaises(i) PROVE Meaning'
  BY <1>13 DEF RequestRaises, Request
<1>14. CASE MeasureAndReply
  BY <1>14 DEF MeasureAndReply, SayMeasured
<1>15. CASE PrintTrace
  BY <1>15 DEF PrintTrace
<1>16. CASE ReportLuaError
  BY <1>16 DEF ReportLuaError
<1> QED
  BY <1>1, <1>2, <1>3, <1>4, <1>5, <1>6, <1>7, <1>8, <1>9, <1>10, <1>11,
     <1>12, <1>13, <1>14, <1>15, <1>16 DEF WorkOnCommand

-----------------------------------------------------------------------------
(* Theorems *)

THEOREM InitInv == Init => Inv
BY InitTypes, InitMeaning DEF Inv

THEOREM NextInv == Inv /\ [Next]_vars => Inv'
<1> SUFFICES ASSUME Inv, [Next]_vars PROVE Inv'
  OBVIOUS
<1>1. CASE Environment
  BY <1>1, EnvironmentTypes, EnvironmentMeaning DEF Inv
<1>2. CASE Startup \/ Callback \/ Finish
  BY <1>2, CallbackTypes, CallbackMeaning DEF Inv
<1>3. CASE WorkOnCommand
  BY <1>3, WorkTypes, WorkMeaning DEF Inv, Meaning
<1>4. CASE UNCHANGED vars
  <2> USE <1>4 DEF vars, sourceVars, channelVars, scriptVars, historyVars
  <2>1. TypeOK'
    BY DEF Inv, TypeOK
  <2>2. Meaning'
    BY DEF Inv, Meaning, BusyWhileRunning, RequestsOnly, SinkSeesSource,
           CacheCurrent, GrantStands, OkMeansGranted, NotFoundTrueOfSourceRead
  <2> QED BY <2>1, <2>2 DEF Inv
<1> QED BY <1>1, <1>2, <1>3, <1>4 DEF Next, Script

THEOREM Invariance == Spec => []Inv
<1>1. Init => Inv
  BY InitInv
<1>2. Inv /\ [Next]_vars => Inv'
  BY NextInv
<1> QED BY <1>1, <1>2, PTL DEF Spec

\* Every variable keeps its type, whatever the chargers, the commands and
\* the numbers of them.
THEOREM TypeCorrect == Spec => []TypeOK
<1>1. Inv => TypeOK
  BY DEF Inv
<1> QED BY <1>1, Invariance, PTL

\* request_fixed_voltage: an OK line is said only of a voltage the source
\* granted to that command, and tells the truth unless the plug was touched.
THEOREM OkCorrect == Spec => []OkMeansGranted
<1>1. Inv => OkMeansGranted
  BY DEF Inv, Meaning
<1> QED BY <1>1, Invariance, PTL

\* request_fixed_voltage: a NOT_FOUND line is true of the source whose list
\* was read, as long as that source stays plugged in.
THEOREM NotFoundCorrect == Spec => []NotFoundTrueOfSourceRead
<1>1. Inv => NotFoundTrueOfSourceRead
  BY DEF Inv, Meaning
<1> QED BY <1>1, Invariance, PTL

-----------------------------------------------------------------------------
(* The program implements LuaService: its safety part (liveness under       *)
(* fairness is left to TLC).                                               *)

\* What the invariant says of a command at work.
LEMMA AtWork ==
  ASSUME Inv, pc \notin {"boot", "exited", "idle", "process", "show"}
  PROVE  command.op = "PD" /\ Phase = "working"
BY DEF Inv, Meaning, RequestsOnly, Phase

LEMMA GoToStutters ==
  ASSUME NEW step \in Steps, GoTo(step), UNCHANGED command,
         Phase = "working", step \notin {"boot", "exited", "idle", "show"}
  PROVE  UNCHANGED Service!vars
BY DEF GoTo, Phase, Service!vars

\* LuaService brings its own copy of the vocabulary.
LEMMA SameVocabulary ==
  /\ \A c : Service!Replies(c) = Replies(c)
  /\ Service!NoLine = NoLine /\ Service!NoCommand = NoCommand
  /\ Service!Jumble = Jumble
BY DEF Service!Replies, Replies, Service!VoltageOrNone, VoltageOrNone,
       Service!Voltages, Voltages, Service!NoVoltage, NoVoltage,
       Service!Say, Say, Service!SayMeasured, SayMeasured,
       Service!SourceErrors, SourceErrors, Service!LuaErrors, LuaErrors,
       Service!NoLine, NoLine, Service!NoCommand, NoCommand,
       Service!Jumble, Jumble

LEMMA ConcludeAnswers ==
  ASSUME NEW line, Conclude(line), UNCHANGED command, Phase = "working",
         line \in Replies(command)
  PROVE  Service!Answer
BY SameVocabulary DEF Conclude, Phase, Service!Answer

\* The replies to a voltage request.
LEMMA RequestReplies ==
  ASSUME Inv, command.op = "PD"
  PROVE  /\ Say("PDO_NOT_FOUND", command.v) \in Replies(command)
         /\ Say("REQUEST_FAILED", command.v) \in Replies(command)
         /\ SayMeasured(command.v, contract) \in Replies(command)
         /\ \A k \in SourceErrors \cup LuaErrors :
              Say(k, NoVoltage) \in Replies(command)
BY DEF Replies, Inv, TypeOK

LEMMA WorkRefines ==
  ASSUME Inv, WorkOnCommand
  PROVE  Service!Answer \/ UNCHANGED Service!vars
<1>0. Phase = "working" /\ (pc # "process" => command.op = "PD")
  BY DEF Inv, Meaning, RequestsOnly, Phase, WorkOnCommand, process_command,
     OpenFastCharge, CheckSourceAttached, CapabilitiesSeen, HardReset,
     GiveUpWaiting, ReadCapabilities, ReadNoCapability, ReadInterrupted,
     NotFound, RequestGranted, RequestFailed, RequestRaises, Request,
     MeasureAndReply, PrintTrace, ReportLuaError
<1>r. pc # "process" =>
        /\ Say("PDO_NOT_FOUND", command.v) \in Replies(command)
        /\ Say("REQUEST_FAILED", command.v) \in Replies(command)
        /\ SayMeasured(command.v, contract) \in Replies(command)
        /\ \A k \in SourceErrors \cup LuaErrors :
             Say(k, NoVoltage) \in Replies(command)
  BY <1>0, RequestReplies
<1>s. UNCHANGED command
  BY DEF WorkOnCommand, process_command,
     OpenFastCharge, CheckSourceAttached, CapabilitiesSeen, HardReset,
     GiveUpWaiting, ReadCapabilities, ReadNoCapability, ReadInterrupted,
     NotFound, RequestGranted, RequestFailed, RequestRaises, Request,
     MeasureAndReply, PrintTrace, ReportLuaError, NoSinkCall, InCommand
<1>1. CASE process_command
  <2>1. CASE GoTo("search") \/ GoTo("open")
    BY <1>0, <1>s, <2>1, GoToStutters DEF Steps
  <2>2. CASE Conclude(Say("PONG", NoVoltage)) /\ command.op = "PING"
    <3>1. Say("PONG", NoVoltage) \in Replies(command)
      BY <2>2 DEF Replies
    <3> QED BY <1>0, <1>s, <2>2, <3>1, ConcludeAnswers
  <2>3. CASE /\ Conclude(Say("UNKNOWN_COMMAND", NoVoltage))
             /\ command.op # "PING" /\ command.op # "PD"
    <3>1. Say("UNKNOWN_COMMAND", NoVoltage) \in Replies(command)
      BY <2>3 DEF Replies
    <3> QED BY <1>0, <1>s, <2>3, <3>1, ConcludeAnswers
  <2> QED
    BY <1>1, <2>1, <2>2, <2>3 DEF process_command, Inv, Meaning,
       RequestsOnly, BusyWhileRunning
<1>2. CASE OpenFastCharge
  <2>1. CASE GoTo("attached")
    BY <1>0, <1>s, <2>1, GoToStutters DEF Steps
  <2>2. CASE Conclude(Say("FASTCHG_OPEN_FAILED", NoVoltage))
    BY <1>0, <1>s, <1>r, <1>2, <2>2, ConcludeAnswers
       DEF SourceErrors, OpenFastCharge
  <2> QED BY <1>2, <2>1, <2>2 DEF OpenFastCharge
<1>3. CASE CheckSourceAttached
  <2>1. CASE GoTo("wait")
    BY <1>0, <1>s, <2>1, GoToStutters DEF Steps
  <2>2. CASE Conclude(Say("NO_PD_SOURCE", NoVoltage))
    BY <1>0, <1>s, <1>r, <1>3, <2>2, ConcludeAnswers
       DEF SourceErrors, CheckSourceAttached
  <2> QED BY <1>3, <2>1, <2>2 DEF CheckSourceAttached
<1>4. CASE CapabilitiesSeen \/ HardReset \/ ReadInterrupted
  <2>1. GoTo("read") \/ GoTo("wait again") \/ GoTo("raised")
    BY <1>4 DEF CapabilitiesSeen, HardReset, ReadInterrupted
  <2> QED BY <1>0, <1>s, <2>1, GoToStutters DEF Steps
<1>5. CASE GiveUpWaiting \/ ReadNoCapability
  <2>1. \E k \in SourceErrors : Conclude(Say(k, NoVoltage))
    BY <1>5 DEF GiveUpWaiting, ReadNoCapability, SourceErrors
  <2>2. pc # "process"
    BY <1>5 DEF GiveUpWaiting, ReadNoCapability
  <2> QED BY <1>0, <1>s, <1>r, <2>1, <2>2, ConcludeAnswers
<1>6. CASE ReadCapabilities
  BY <1>0, <1>s, <1>6 DEF ReadCapabilities, Phase, Service!vars
<1>7. CASE NotFound
  BY <1>0, <1>s, <1>r, <1>7, ConcludeAnswers DEF NotFound
<1>8. ASSUME NEW i \in DOMAIN source_caps,
             RequestGranted(i) \/ RequestRaises(i)
      PROVE  UNCHANGED Service!vars
  <2>1. GoTo("settle") \/ GoTo("raised")
    BY <1>8 DEF RequestGranted, RequestRaises
  <2> QED BY <1>0, <1>s, <2>1, GoToStutters DEF Steps
<1>9. ASSUME NEW i \in DOMAIN source_caps, RequestFailed(i)
      PROVE  Service!Answer
  BY <1>0, <1>s, <1>r, <1>9, ConcludeAnswers DEF RequestFailed, Request
<1>10. CASE MeasureAndReply
  BY <1>0, <1>s, <1>r, <1>10, ConcludeAnswers DEF MeasureAndReply
<1>11. CASE PrintTrace
  BY <1>0, <1>s, <1>11 DEF PrintTrace, Phase, Service!vars
<1>12. CASE ReportLuaError
  <2>1. \E k \in LuaErrors : Conclude(Say(k, NoVoltage))
    BY <1>12 DEF ReportLuaError, LuaErrors
  <2>2. pc # "process"
    BY <1>12 DEF ReportLuaError
  <2> QED BY <1>0, <1>s, <1>r, <2>1, <2>2, ConcludeAnswers
<1> QED
  BY <1>1, <1>2, <1>3, <1>4, <1>5, <1>6, <1>7, <1>8, <1>9, <1>10, <1>11,
     <1>12 DEF WorkOnCommand

LEMMA RestRefines ==
  ASSUME Inv, Environment \/ Startup \/ Callback \/ Finish
  PROVE  [Service!Next]_(Service!vars)
<1>1. CASE Environment \/ Startup \/ ReceiveWhileBusy \/ ReceiveNothing
  BY <1>1 DEF Environment, Attach, Detach, AdvertiseCapabilities, Send,
     ReadLine, Startup, ReceiveWhileBusy, ReceiveNothing, CallbackDue,
     scriptVars, historyVars, Phase, Service!vars
<1>2. CASE ReceiveCommand
  <2>1. command' \in Commands \cup {Jumble}
    BY <1>2, NormalizedCommand DEF Inv, TypeOK, ReceiveCommand
  <2> QED
    BY <1>2, <2>1, SameVocabulary
       DEF ReceiveCommand, Inv, Meaning, BusyWhileRunning, Phase,
           Service!Next, Service!Accept
<1>3. CASE Finish
  BY <1>3 DEF Finish, historyVars, Phase, Service!Next, Service!Rest
<1> QED BY <1>1, <1>2, <1>3 DEF Callback

\* Every command taken is settled by exactly one line that may settle it: the
\* early returns of initialize_pd and request_fixed_voltage and the pcall
\* failure path of usb_command_received neither skip a reply nor add one.
THEOREM ImplementsLuaService ==
  Spec => Service!Init /\ [][Service!Next]_(Service!vars)
<1>1. Init => Service!Init
  BY SameVocabulary DEF Init, Service!Init, Phase
<1>2. Inv /\ [Next]_vars => [Service!Next]_(Service!vars)
  <2> SUFFICES ASSUME Inv, [Next]_vars PROVE [Service!Next]_(Service!vars)
    OBVIOUS
  <2>1. CASE WorkOnCommand
    BY <2>1, WorkRefines DEF Service!Next
  <2>2. CASE Environment \/ Startup \/ Callback \/ Finish
    BY <2>2, RestRefines
  <2>3. CASE UNCHANGED vars
    BY <2>3 DEF vars, scriptVars, historyVars, Phase, Service!vars
  <2> QED BY <2>1, <2>2, <2>3 DEF Next, Script
<1> QED BY <1>1, <1>2, Invariance, PTL DEF Spec
=============================================================================
