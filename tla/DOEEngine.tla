------------------------------ MODULE DOEEngine ------------------------------
(***************************************************************************)
(* core/doe_engine.py with its two instruments: the power meter of         *)
(* drivers/wt310.py, a raw file descriptor, and the electronic load of     *)
(* drivers/chroma6312.py, a serial port.  Any call to either may raise.    *)
(* One thread makes the calls; one action per call to the system.          *)
(*                                                                         *)
(* Not in src/: the meter, the load, and the rest of the program, which    *)
(* opens and closes files of its own between two calls.                    *)
(*                                                                         *)
(* An operator said to be a mutant is no part of the model: it is the      *)
(* definition after it with a slip of the code, to see a property fail.    *)
(***************************************************************************)
EXTENDS Naturals, Sequences, FiniteSets

CONSTANTS MaxFiles,      \* bound: files open at a time
          Currents,      \* the load currents asked for
          Inputs,        \* the voltages the meter may read
          target_voltage, tolerance,
          MaxCalls       \* bound: calls made

ASSUME BoundsAssumption == MaxFiles \in Nat /\ MaxCalls \in Nat
ASSUME NumbersAssumption ==
  Currents \cup Inputs \cup {target_voltage, tolerance} \subseteq Nat

Ids == 1..MaxCalls
None == 0
Files == 1..MaxFiles
Modes == {"CCH", "CCL", "CV"}
Load == [mode : Modes, current : Currents \cup {0}, on : BOOLEAN]
\* Queries to the load, by what becomes of the answer.
Questions == {"LOAD?", "MODE?", "number"}

\* An answer of the meter or the load, to query "of", with the load as it was.
\* What another file has to say answers no query.
Answer == [of : Ids \cup {None}, question : Questions \cup {"VALUE?"}, load : Load,
           voltage : Inputs \cup {0}]

\* Mutant: the meter goes first on the way out.
StepsMeterFirst ==
  [connect |-> <<"open meter", "open load">>,
   disconnect |-> <<"close meter", "close load">>,
   check_input_voltage |-> <<"ask meter", "read meter">>,
   run_single_point |-> <<"set_mode_cch", "set_current", "load_on", "ask meter",
                          "read meter", "load_off">>,
   command |-> <<"command">>,
   query |-> <<"ask load", "read load">>]

\* Mutant: the load is off before the meter is read.
StepsOffFirst ==
  [StepsMeterFirst EXCEPT !.run_single_point =
     <<"set_mode_cch", "set_current", "load_on", "load_off", "ask meter",
       "read meter">>]

\* Mutant: the result is returned before the load is switched off.
StepsNotOff ==
  [StepsMeterFirst EXCEPT !.run_single_point =
     <<"set_mode_cch", "set_current", "load_on", "ask meter", "read meter">>]

\* The methods of DOEEngine, and those of the load that its user calls: a
\* command without an answer and a query.
Steps ==
  [connect |-> <<"open meter", "open load">>,
   disconnect |-> <<"close load", "close meter">>,
   check_input_voltage |-> <<"ask meter", "read meter">>,
   run_single_point |-> <<"set_mode_cch", "set_current", "load_on", "ask meter",
                          "read meter", "load_off">>,
   command |-> <<"command">>,
   query |-> <<"ask load", "read load">>]

VARIABLES
  files,           \* what each file descriptor of the process is
  fd,              \* WT310.fd
  port,            \* the descriptor of Chroma6312.ser, if that is open
  call, at,        \* the call and the step of it that is next, or 0
  outcome, data,   \* how the last call ended and the answer it returned
  load,            \* the electronic load
  meter_queue,     \* answers of the meter not read yet
  owed, received,  \* answers of the load, to be sent and in the input buffer
  \* history
  calls, raised,   \* calls made, and those that raised
  released,        \* disconnect closed fd and connect has not set it since
  settled,         \* the query was written with no earlier one unanswered
  obedient,        \* the load has done all it was told
  last_on,         \* the point that wrote LOAD ON last, or None
  harmed           \* a file of somebody else was written or closed

fileVars == <<files, fd, port, released, harmed>>
loadVars == <<load, obedient, last_on>>
answerVars == <<meter_queue, owed, received>>
vars == <<fileVars, loadVars, answerVars, call, at, outcome, data, calls,
          raised, settled>>

TypeOK ==
  /\ files \in [Files -> {"free", "meter", "port", "other"}]
  /\ fd \in Files \cup {None} /\ port \in Files \cup {None}
  /\ call \in [id : Ids \cup {0}, op : DOMAIN Steps, current : Currents \cup {0},
               question : Questions]
  /\ at \in 0..Len(Steps[call.op])
  /\ outcome \in {"none", "ok", "raised", "True", "False"}
  /\ data \in Seq(Answer)
  /\ load \in Load
  /\ meter_queue \in Seq(Answer) /\ owed \in Seq(Answer) /\ received \in Seq(Answer)
  /\ calls \in 0..MaxCalls /\ raised \in SUBSET Ids
  /\ {released, settled, obedient, harmed} \subseteq BOOLEAN
  /\ last_on \in Ids \cup {None}

Init ==
  /\ files = [n \in Files |-> "free"] /\ fd = None /\ port = None
  /\ call = [id |-> 0, op |-> "connect", current |-> 0, question |-> "MODE?"]
  /\ at = 0 /\ outcome = "none" /\ data = <<>>
  /\ load \in [mode : Modes, current : {0}, on : {FALSE}]
  /\ meter_queue = <<>> /\ owed = <<>> /\ received = <<>>
  /\ calls = 0 /\ raised = {}
  /\ released = FALSE /\ settled = FALSE /\ obedient = TRUE /\ harmed = FALSE
  /\ last_on = None

-----------------------------------------------------------------------------
(* A call *)

Idle == at = 0
At(step) == at \in DOMAIN Steps[call.op] /\ Steps[call.op][at] = step

Call ==
  /\ Idle /\ calls < MaxCalls
  /\ \E op \in DOMAIN Steps, c \in Currents, q \in Questions :
       call' = [id |-> calls + 1, op |-> op,
                current |-> IF op = "run_single_point" THEN c ELSE 0,
                question |-> IF op = "query" THEN q ELSE "MODE?"]
  /\ calls' = calls + 1 /\ at' = 1
  /\ outcome' = "none" /\ data' = <<>> /\ settled' = FALSE
  /\ UNCHANGED <<fileVars, loadVars, answerVars, raised>>

Ends(how) == at' = 0 /\ outcome' = how /\ UNCHANGED raised
Raises == at' = 0 /\ outcome' = "raised" /\ raised' = raised \cup {call.id}

\* Mutant: the call does not return.
GoesOnAnyway == at' = at + 1 /\ UNCHANGED <<outcome, raised>>

GoesOn == IF at < Len(Steps[call.op])
          THEN at' = at + 1 /\ UNCHANGED <<outcome, raised>>
          ELSE Ends("ok")

InCall == UNCHANGED <<call, calls>>
NoFile == InCall /\ UNCHANGED fileVars

-----------------------------------------------------------------------------
(* Opening and closing *)

\* A new descriptor is the lowest free number.
Lowest(n) == files[n] = "free" /\ \A k \in 1..(n - 1) : files[k] # "free"

\* Mutant: a meter that has been opened is not opened again.
OpenMeterOnce ==
  /\ At("open meter")
  /\ \/ fd # None /\ GoesOn /\ released' = FALSE /\ UNCHANGED <<files, fd>>
     \/ \E n \in Files : /\ fd = None /\ Lowest(n)
                         /\ files' = [files EXCEPT ![n] = "meter"]
                         /\ fd' = n /\ released' = FALSE /\ GoesOn
     \/ Raises /\ UNCHANGED <<files, fd, released>>
  /\ UNCHANGED <<port, harmed, loadVars, answerVars, data, settled>> /\ InCall

\* WT310.connect, which forgets a descriptor it has.
OpenMeter ==
  /\ At("open meter")
  /\ \/ \E n \in Files : /\ Lowest(n)
                         /\ files' = [files EXCEPT ![n] = "meter"]
                         /\ fd' = n /\ released' = FALSE /\ GoesOn
     \/ Raises /\ UNCHANGED <<files, fd, released>>
  /\ UNCHANGED <<port, harmed, loadVars, answerVars, data, settled>> /\ InCall

\* Chroma6312.connect: the Serial it replaces is closed when it is collected.
OpenLoad ==
  /\ At("open load")
  /\ \/ \E n \in Files : /\ Lowest(n)
                         /\ files' = [k \in Files |-> IF k = n THEN "port"
                                        ELSE IF k = port THEN "free" ELSE files[k]]
                         /\ port' = n /\ received' = <<>> /\ GoesOn
     \/ Raises /\ UNCHANGED <<files, port, received>>
  /\ UNCHANGED <<fd, released, harmed, loadVars, meter_queue, owed, data,
                 settled>> /\ InCall

CloseLoad ==
  /\ At("close load")
  /\ \/ port = None /\ GoesOn /\ UNCHANGED <<files, port>>
     \/ /\ port # None /\ GoesOn
        /\ files' = [files EXCEPT ![port] = "free"] /\ port' = None
     \/ port # None /\ Raises /\ UNCHANGED <<files, port>>
  /\ UNCHANGED <<fd, released, harmed, loadVars, answerVars, data, settled>>
  /\ InCall

\* WT310.disconnect keeps fd; closing a descriptor not open raises.
CloseMeter ==
  /\ At("close meter")
  /\ IF fd = None THEN GoesOn /\ UNCHANGED <<files, released, harmed>>
     ELSE IF files[fd] = "free" THEN Raises /\ UNCHANGED <<files, released, harmed>>
     ELSE /\ GoesOn \/ Raises
          /\ files' = [files EXCEPT ![fd] = "free"]
          /\ released' = TRUE /\ harmed' = (harmed \/ files[fd] # "meter")
  /\ UNCHANGED <<fd, port, loadVars, answerVars, data, settled>> /\ InCall

-----------------------------------------------------------------------------
(* The meter *)

Values(id) ==
  {[of |-> id, question |-> "VALUE?", load |-> load, voltage |-> v] : v \in Inputs}

\* WT310.query writes to the file fd names, which after a disconnect may be
\* one of somebody else.  An answer of the meter nobody has read is discarded,
\* or stays in front of the new one.
AskMeter ==
  /\ At("ask meter")
  /\ \/ /\ fd # None /\ files[fd] = "meter" /\ UNCHANGED harmed
        /\ \E a \in Values(call.id) :
             \/ GoesOn /\ meter_queue' \in {<<a>>, Append(meter_queue, a)}
             \/ Raises /\ meter_queue' \in {meter_queue, <<a>>, Append(meter_queue, a)}
     \/ /\ fd # None /\ files[fd] \in {"port", "other"} /\ harmed' = TRUE
        /\ GoesOn \/ Raises
        /\ UNCHANGED meter_queue
     \/ fd = None /\ Raises /\ UNCHANGED <<harmed, meter_queue>>
     \/ fd # None /\ files[fd] = "free" /\ Raises /\ UNCHANGED <<harmed, meter_queue>>
  /\ settled' = (meter_queue = <<>>)
  /\ UNCHANGED <<files, fd, port, released, loadVars, owed, received, data>> /\ InCall

\* The verdict of check_input_voltage.
InputVoltageOk(vin) ==
  target_voltage <= vin + tolerance /\ vin <= target_voltage + tolerance

Told(a) ==
  /\ data' = <<a>>
  /\ IF call.op = "run_single_point" THEN GoesOn
     ELSE Ends(IF InputVoltageOk(a.voltage) THEN "True" ELSE "False")

\* ... and reads.  What is read may not be eight numbers, and may be eight
\* numbers of another file.
ReadMeter ==
  /\ At("read meter")
  /\ \/ /\ files[fd] = "meter" /\ meter_queue # <<>>
        /\ Told(Head(meter_queue)) /\ meter_queue' = Tail(meter_queue)
     \/ /\ files[fd] = "meter" /\ meter_queue # <<>>
        /\ Raises /\ meter_queue' = Tail(meter_queue) /\ UNCHANGED data
     \/ /\ files[fd] # "meter"
        /\ \E a \in Values(None) : Told(a)
        /\ UNCHANGED meter_queue
     \/ Raises /\ UNCHANGED <<meter_queue, data>>
  /\ UNCHANGED <<loadVars, owed, received, settled>> /\ NoFile

-----------------------------------------------------------------------------
(* The load *)

\* A command that would make the load l.  Nothing tells whether it did.
Written(l) ==
  /\ \/ port # None /\ GoesOn /\ load' = l /\ UNCHANGED obedient
     \/ port # None /\ GoesOn /\ UNCHANGED load /\ obedient' = FALSE
     \/ port # None /\ Raises /\ load' \in {load, l} /\ UNCHANGED obedient
     \/ port = None /\ Raises /\ UNCHANGED <<load, obedient>>
  /\ UNCHANGED <<answerVars, data, settled>> /\ NoFile

set_mode_cch ==
  At("set_mode_cch") /\ Written([load EXCEPT !.mode = "CCH"]) /\ UNCHANGED last_on
set_current ==
  At("set_current") /\ Written([load EXCEPT !.current = call.current])
    /\ UNCHANGED last_on
load_on ==
  At("load_on") /\ Written([load EXCEPT !.on = TRUE]) /\ last_on' = call.id
load_off ==
  At("load_off") /\ Written([load EXCEPT !.on = FALSE]) /\ UNCHANGED last_on

Command ==
  /\ At("command")
  /\ \/ \E m \in Modes : Written([load EXCEPT !.mode = m]) /\ UNCHANGED last_on
     \/ \E c \in Currents : Written([load EXCEPT !.current = c]) /\ UNCHANGED last_on
     \/ Written([load EXCEPT !.on = TRUE]) /\ last_on' = None
     \/ Written([load EXCEPT !.on = FALSE]) /\ UNCHANGED last_on

\* Mutant: the input buffer is not reset.
AskLoadNoReset ==
  LET a == [of |-> call.id, question |-> call.question, load |-> load, voltage |-> 0] IN
  /\ At("ask load")
  /\ \/ port # None /\ GoesOn /\ owed' = Append(owed, a)
     \/ port # None /\ Raises /\ owed' \in {owed, Append(owed, a)}
     \/ port = None /\ Raises /\ UNCHANGED owed
  /\ settled' = (owed = <<>>)
  /\ UNCHANGED <<loadVars, meter_queue, received, data>> /\ NoFile

\* Chroma6312.query resets the input buffer and writes,
AskLoad ==
  LET a == [of |-> call.id, question |-> call.question, load |-> load, voltage |-> 0] IN
  /\ At("ask load")
  /\ \/ port # None /\ GoesOn /\ owed' = Append(owed, a) /\ received' = <<>>
     \/ port # None /\ Raises /\ owed' \in {owed, Append(owed, a)} /\ received' = <<>>
     \/ port = None /\ Raises /\ UNCHANGED <<owed, received>>
  /\ settled' = (owed = <<>>)
  /\ UNCHANGED <<loadVars, meter_queue, data>> /\ NoFile

\* The load answers in its own time.
LoadAnswers ==
  /\ owed # <<>> /\ port # None
  /\ received' = Append(received, Head(owed)) /\ owed' = Tail(owed)
  /\ UNCHANGED <<fileVars, loadVars, meter_queue, call, at, outcome, data, calls,
                 raised, settled>>

\* What has come 0.3 s later: nothing, one answer, or several in one text.
One(question) == Len(received) = 1 /\ received[1].question = question

\* get_load_status compares the text with "1", which is also how a number may
\* begin of which the rest has not come.
get_load_status ==
  \/ One("LOAD?") /\ received[1].load.on /\ Ends("True")
  \/ One("number") /\ Ends("True")
  \/ ~(One("LOAD?") /\ received[1].load.on) /\ Ends("False")

\* The readings convert it to a number or raise.
ConvertReading ==
  IF One("LOAD?") \/ One("number")
  THEN GoesOn /\ data' = received ELSE Raises /\ UNCHANGED data

ReadLoad ==
  /\ At("read load")
  /\ received' = <<>>
  /\ \/ call.question = "LOAD?" /\ get_load_status /\ UNCHANGED data
     \/ call.question = "number" /\ ConvertReading
     \/ call.question = "MODE?" /\ GoesOn /\ UNCHANGED data
     \/ Raises /\ UNCHANGED data
  /\ UNCHANGED <<loadVars, meter_queue, owed, settled>> /\ NoFile

-----------------------------------------------------------------------------
\* The rest of the program opens and closes files.
OtherFile ==
  /\ Idle
  /\ \E n \in Files :
       \/ Lowest(n) /\ files' = [files EXCEPT ![n] = "other"]
       \/ files[n] = "other" /\ files' = [files EXCEPT ![n] = "free"]
  /\ UNCHANGED <<fd, port, released, harmed, loadVars, answerVars, call, at, outcome,
                 data, calls, raised, settled>>

Next ==
  \/ Call
  \/ OpenMeter \/ OpenLoad \/ CloseLoad \/ CloseMeter
  \/ AskMeter \/ ReadMeter
  \/ set_mode_cch \/ set_current \/ load_on \/ load_off \/ Command
  \/ AskLoad \/ LoadAnswers \/ ReadLoad
  \/ OtherFile

Spec == Init /\ [][Next]_vars

-----------------------------------------------------------------------------
(* What the engine promises *)

\* Until disconnect has closed the meter, run_single_point returns and
\* check_input_voltage judges what the meter said to this very call, unless a
\* call has raised before that may have left its answer unread: values of
\* another call are never the first sign of trouble.  With no answer unread
\* when the meter was asked they are of this call.  Those of a point were then
\* measured with the load on, in CCH mode and at the current asked for, if the
\* load does what it is told.
DataIsOwn ==
  (Idle /\ call.op \in {"run_single_point", "check_input_voltage"}
        /\ outcome # "raised" /\ ~released) =>
    /\ settled => data[1].of = call.id
    /\ data[1].of # call.id => \E r \in raised : r <= data[1].of
    /\ data[1].of = call.id /\ call.op = "run_single_point" /\ obedient =>
         data[1].load = [mode |-> "CCH", current |-> call.current, on |-> TRUE]

\* Between calls a load that has done all it was told is on only if somebody
\* switched it on by hand, or if the last point to switch it on raised.
LoadLeftOnByRaise ==
  Idle /\ load.on /\ obedient => last_on = None \/ last_on \in raised

\* While the load can be driven the meter can be read, whichever connect or
\* disconnect stopped half way.
MeterOpenWithLoad ==
  port # None => fd # None /\ files[fd] = "meter"

\* A query of the load that was written when no earlier one was unanswered
\* takes no answer to another: the load is on if get_load_status says so, and
\* a reading is the reading asked for.
LoadAnswerIsOwn ==
  Idle /\ call.op = "query" /\ settled =>
    /\ outcome = "True" => load.on
    /\ outcome = "ok" /\ call.question = "number" => data[1].of = call.id

\* The engine writes to or closes a file of somebody else only by way of the
\* descriptor disconnect has closed and kept.
HarmOnlyAfterDisconnect == [][harmed' # harmed => released]_vars
=============================================================================
