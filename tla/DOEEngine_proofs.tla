--------------------------- MODULE DOEEngine_proofs ---------------------------
(***************************************************************************)
(* What holds of the test engine for any number of calls, of files, of     *)
(* currents and of voltages: see Inv for the invariant the theorems rest   *)
(* on.                                                                     *)
(***************************************************************************)
EXTENDS DOEEngine, TLAPS

\* What is next, by the method called and how far it is.
AtOpenLoad == call.op = "connect" /\ at = 2
AtCloseMeter == call.op = "disconnect" /\ at = 2
AtAskMeter == \/ call.op = "check_input_voltage" /\ at = 1
              \/ call.op = "run_single_point" /\ at = 4
AtReadMeter == \/ call.op = "check_input_voltage" /\ at = 2
               \/ call.op = "run_single_point" /\ at = 5
AtReadLoad == call.op = "query" /\ at = 2

\* The calls are numbered in their order: 0 is for before the first.
CallNumbered == call.id = calls /\ (at # 0 => call.id # 0)

\* The descriptors are what the engine takes them for: that of the port while
\* the port is open, that of the meter until disconnect has closed it.  The
\* load is opened after the meter and closed before it.
PortIsPort == port # None => files[port] = "port"
MeterIsMeter == ~released /\ fd # None => files[fd] = "meter"
MeterFirst ==
  /\ AtOpenLoad => fd # None /\ files[fd] = "meter"
  /\ AtCloseMeter => port = None

\* A load that is on was switched on by hand, by a point that raised or by the
\* point in progress.
LoadOnAccounted ==
  load.on /\ obedient =>
    \/ last_on = None \/ last_on \in raised
    \/ last_on = call.id /\ call.op = "run_single_point" /\ at \in 4..6

\* What the point in progress has told the load so far.
PointSetUp ==
  call.op = "run_single_point" /\ obedient =>
    /\ at \in 2..5 => load.mode = "CCH"
    /\ at \in 3..5 => load.current = call.current
    /\ at \in 4..5 => load.on

\* A call raised that may have left the answer a, or one before it, unread.
Excused(a) == \E r \in raised : r <= a.of

\* The meter has answered no query to come: not that of the call in progress
\* before it is asked.
BeforeAskMeter == \/ call.op = "check_input_voltage" /\ at = 1
                  \/ call.op = "run_single_point" /\ at \in 1..4
MeterAnswersAsked ==
  \A i \in DOMAIN meter_queue :
    /\ meter_queue[i].of <= calls
    /\ BeforeAskMeter => meter_queue[i].of # call.id

\* Answers of the meter are unread because a call raised, but for the answer to
\* the call about to read it.
MeterAnswersExcused ==
  \/ \A i \in DOMAIN meter_queue : Excused(meter_queue[i])
  \/ /\ AtReadMeter /\ files[fd] = "meter"
     /\ Len(meter_queue) = 1 /\ meter_queue[1].of = call.id

\* Before the meter is read, what it has to say to this call was measured with
\* the load as it is now, and is all it has to say if nothing was unread.
MeterAnswersOwn ==
  AtReadMeter =>
    /\ fd # None
    /\ \A i \in DOMAIN meter_queue :
         /\ settled => meter_queue[i].of = call.id
         /\ meter_queue[i].of = call.id => meter_queue[i].load = load

\* Measured in this point, under the conditions it set up.
PointLoad == [mode |-> "CCH", current |-> call.current, on |-> TRUE]
OwnOrExcused ==
  /\ ~released => /\ settled => data[1].of = call.id
                  /\ data[1].of # call.id => Excused(data[1])
  /\ data[1].of = call.id /\ call.op = "run_single_point" /\ obedient =>
       data[1].load = PointLoad
PointDataKept == call.op = "run_single_point" /\ at = 6 => OwnOrExcused

\* Before the load is read, all that it has said and will say answers this
\* query, with the load as it is.
OwnLoadAnswer(a) ==
  a.of = call.id /\ a.question = call.question /\ a.load = load
LoadAnswersOwn ==
  AtReadLoad /\ settled =>
    /\ \A i \in DOMAIN received : OwnLoadAnswer(received[i])
    /\ \A i \in DOMAIN owed : OwnLoadAnswer(owed[i])

Inv == /\ TypeOK /\ CallNumbered
       /\ PortIsPort /\ MeterIsMeter /\ MeterFirst /\ MeterOpenWithLoad
       /\ LoadOnAccounted /\ PointSetUp
       /\ MeterAnswersAsked /\ MeterAnswersExcused /\ MeterAnswersOwn
       /\ PointDataKept /\ DataIsOwn
       /\ LoadAnswersOwn /\ LoadAnswerIsOwn

-----------------------------------------------------------------------------
(* Where a call is *)

Ops == {"connect", "disconnect", "check_input_voltage", "run_single_point",
        "command", "query"}

LEMMA OpsAre == DOMAIN Steps = Ops
BY DEF Steps, Ops

LEMMA StepsOf ==
  /\ DOMAIN Steps.connect = 1..2 /\ Len(Steps.connect) = 2
  /\ Steps.connect[1] = "open meter"
  /\ Steps.connect[2] = "open load"
  /\ DOMAIN Steps.disconnect = 1..2 /\ Len(Steps.disconnect) = 2
  /\ Steps.disconnect[1] = "close load"
  /\ Steps.disconnect[2] = "close meter"
  /\ DOMAIN Steps.check_input_voltage = 1..2 /\ Len(Steps.check_input_voltage) = 2
  /\ Steps.check_input_voltage[1] = "ask meter"
  /\ Steps.check_input_voltage[2] = "read meter"
  /\ DOMAIN Steps.run_single_point = 1..6 /\ Len(Steps.run_single_point) = 6
  /\ Steps.run_single_point[1] = "set_mode_cch"
  /\ Steps.run_single_point[2] = "set_current"
  /\ Steps.run_single_point[3] = "load_on"
  /\ Steps.run_single_point[4] = "ask meter"
  /\ Steps.run_single_point[5] = "read meter"
  /\ Steps.run_single_point[6] = "load_off"
  /\ DOMAIN Steps.command = 1..1 /\ Len(Steps.command) = 1
  /\ Steps.command[1] = "command"
  /\ DOMAIN Steps.query = 1..2 /\ Len(Steps.query) = 2
  /\ Steps.query[1] = "ask load"
  /\ Steps.query[2] = "read load"
BY DEF Steps

\* Nothing but the methods is called.
LEMMA CallHasOp == TypeOK => at \in Nat /\ call.op \in Ops
<1> SUFFICES ASSUME TypeOK PROVE at \in Nat /\ call.op \in Ops
  OBVIOUS
<1>1. at \in Nat
  BY DEF TypeOK
<1>2. call.op \in Ops
  BY OpsAre DEF TypeOK
<1> QED BY <1>1, <1>2

\* The step that is next tells the method, and how far it is.
LEMMA StepsOfMethods ==
  ASSUME TypeOK
  PROVE  /\ At("open meter") <=> call.op = "connect" /\ at = 1
         /\ At("open load") <=> AtOpenLoad
         /\ At("close load") <=> call.op = "disconnect" /\ at = 1
         /\ At("close meter") <=> AtCloseMeter
         /\ At("ask meter") <=> AtAskMeter
         /\ At("read meter") <=> AtReadMeter
         /\ At("set_mode_cch") <=> call.op = "run_single_point" /\ at = 1
         /\ At("set_current") <=> call.op = "run_single_point" /\ at = 2
         /\ At("load_on") <=> call.op = "run_single_point" /\ at = 3
         /\ At("load_off") <=> call.op = "run_single_point" /\ at = 6
         /\ At("command") <=> call.op = "command" /\ at = 1
         /\ At("ask load") <=> call.op = "query" /\ at = 1
         /\ At("read load") <=> AtReadLoad
<1> USE DEF AtOpenLoad, AtCloseMeter, AtAskMeter, AtReadMeter, AtReadLoad
<1>1. at \in Nat /\ call.op \in Ops
  BY CallHasOp
<1>2. CASE call.op = "connect"
  <2>1. DOMAIN Steps[call.op] = 1..2
    BY <1>2, StepsOf
  <2>2. /\ Steps[call.op][1] = "open meter"
        /\ Steps[call.op][2] = "open load"
    BY <1>2, StepsOf
  <2>3. at \in DOMAIN Steps[call.op] <=> at = 1 \/ at = 2
    BY <1>1, <2>1
  <2>4. CASE at \in DOMAIN Steps[call.op]
    BY <1>2, <2>2, <2>3, <2>4 DEF At
  <2>5. CASE at \notin DOMAIN Steps[call.op]
    BY <1>2, <2>3, <2>5 DEF At
  <2> QED BY <2>4, <2>5
<1>3. CASE call.op = "disconnect"
  <2>1. DOMAIN Steps[call.op] = 1..2
    BY <1>3, StepsOf
  <2>2. /\ Steps[call.op][1] = "close load"
        /\ Steps[call.op][2] = "close meter"
    BY <1>3, StepsOf
  <2>3. at \in DOMAIN Steps[call.op] <=> at = 1 \/ at = 2
    BY <1>1, <2>1
  <2>4. CASE at \in DOMAIN Steps[call.op]
    BY <1>3, <2>2, <2>3, <2>4 DEF At
  <2>5. CASE at \notin DOMAIN Steps[call.op]
    BY <1>3, <2>3, <2>5 DEF At
  <2> QED BY <2>4, <2>5
<1>4. CASE call.op = "check_input_voltage"
  <2>1. DOMAIN Steps[call.op] = 1..2
    BY <1>4, StepsOf
  <2>2. /\ Steps[call.op][1] = "ask meter"
        /\ Steps[call.op][2] = "read meter"
    BY <1>4, StepsOf
  <2>3. at \in DOMAIN Steps[call.op] <=> at = 1 \/ at = 2
    BY <1>1, <2>1
  <2>4. CASE at \in DOMAIN Steps[call.op]
    BY <1>4, <2>2, <2>3, <2>4 DEF At
  <2>5. CASE at \notin DOMAIN Steps[call.op]
    BY <1>4, <2>3, <2>5 DEF At
  <2> QED BY <2>4, <2>5
<1>5. CASE call.op = "run_single_point"
  <2>1. DOMAIN Steps[call.op] = 1..6
    BY <1>5, StepsOf
  <2>2. /\ Steps[call.op][1] = "set_mode_cch"
        /\ Steps[call.op][2] = "set_current"
        /\ Steps[call.op][3] = "load_on"
        /\ Steps[call.op][4] = "ask meter"
        /\ Steps[call.op][5] = "read meter"
        /\ Steps[call.op][6] = "load_off"
    BY <1>5, StepsOf
  <2>3. at \in DOMAIN Steps[call.op] <=> at = 1 \/ at = 2 \/ at = 3 \/ at = 4 \/ at = 5 \/ at = 6
    BY <1>1, <2>1
  <2>4. CASE at \in DOMAIN Steps[call.op]
    BY <1>5, <2>2, <2>3, <2>4 DEF At
  <2>5. CASE at \notin DOMAIN Steps[call.op]
    BY <1>5, <2>3, <2>5 DEF At
  <2> QED BY <2>4, <2>5
<1>6. CASE call.op = "command"
  <2>1. DOMAIN Steps[call.op] = 1..1
    BY <1>6, StepsOf
  <2>2. /\ Steps[call.op][1] = "command"
    BY <1>6, StepsOf
  <2>3. at \in DOMAIN Steps[call.op] <=> at = 1
    BY <1>1, <2>1
  <2>4. CASE at \in DOMAIN Steps[call.op]
    BY <1>6, <2>2, <2>3, <2>4 DEF At
  <2>5. CASE at \notin DOMAIN Steps[call.op]
    BY <1>6, <2>3, <2>5 DEF At
  <2> QED BY <2>4, <2>5
<1>7. CASE call.op = "query"
  <2>1. DOMAIN Steps[call.op] = 1..2
    BY <1>7, StepsOf
  <2>2. /\ Steps[call.op][1] = "ask load"
        /\ Steps[call.op][2] = "read load"
    BY <1>7, StepsOf
  <2>3. at \in DOMAIN Steps[call.op] <=> at = 1 \/ at = 2
    BY <1>1, <2>1
  <2>4. CASE at \in DOMAIN Steps[call.op]
    BY <1>7, <2>2, <2>3, <2>4 DEF At
  <2>5. CASE at \notin DOMAIN Steps[call.op]
    BY <1>7, <2>3, <2>5 DEF At
  <2> QED BY <2>4, <2>5
<1> QED BY <1>1, <1>2, <1>3, <1>4, <1>5, <1>6, <1>7 DEF Ops

\* A call that goes on is at its next step, or has returned after its last.
LastStep ==
  CASE call.op = "run_single_point" -> 6
    [] call.op = "command" -> 1
    [] OTHER -> 2

LEMMA LastStepIsLen == TypeOK => LastStep = Len(Steps[call.op])
<1> SUFFICES ASSUME TypeOK PROVE LastStep = Len(Steps[call.op])
  OBVIOUS
<1>1. call.op \in Ops
  BY CallHasOp
<1> QED BY <1>1, StepsOf DEF LastStep, Ops

LEMMA GoesOnTo ==
  ASSUME TypeOK, GoesOn
  PROVE  /\ raised' = raised
         /\ \/ at < LastStep /\ at' = at + 1 /\ outcome' = outcome
            \/ at >= LastStep /\ at' = 0 /\ outcome' = "ok"
<1>1. at \in Nat /\ LastStep \in Nat
  BY DEF TypeOK, LastStep
<1> QED BY <1>1, LastStepIsLen DEF GoesOn, Ends

\* The call goes on at step n, has returned, or has raised.
GoesTo(n) == at' = n /\ outcome' = outcome /\ raised' = raised
Moves(n) == GoesTo(n) \/ Raises
Returns == Ends("ok") \/ Raises

LEMMA GoesOnFrom ==
  ASSUME TypeOK, GoesOn
  PROVE  /\ call.op \in {"connect", "disconnect", "check_input_voltage", "query"} =>
              (at = 1 => GoesTo(2)) /\ (at = 2 => Ends("ok"))
         /\ call.op = "command" => (at = 1 => Ends("ok"))
         /\ call.op = "run_single_point" =>
              /\ at = 1 => GoesTo(2)
              /\ at = 2 => GoesTo(3)
              /\ at = 3 => GoesTo(4)
              /\ at = 4 => GoesTo(5)
              /\ at = 5 => GoesTo(6)
              /\ at = 6 => Ends("ok")
<1>1. CASE call.op \in {"connect", "disconnect", "check_input_voltage", "query"}
  <2>1. LastStep = 2
    BY <1>1 DEF LastStep
  <2> QED BY <1>1, <2>1, GoesOnTo DEF GoesTo, Ends
<1>2. CASE call.op = "command"
  <2>1. LastStep = 1
    BY <1>2 DEF LastStep
  <2> QED BY <1>2, <2>1, GoesOnTo DEF GoesTo, Ends
<1>3. CASE call.op = "run_single_point"
  <2>1. LastStep = 6
    BY <1>3 DEF LastStep
  <2> QED BY <1>3, <2>1, GoesOnTo DEF GoesTo, Ends
<1> QED BY <1>1, <1>2, <1>3

LEMMA Progress ==
  ASSUME TypeOK
  PROVE  /\ OpenMeter => call.op = "connect" /\ at = 1 /\ Moves(2)
         /\ OpenLoad => AtOpenLoad /\ Returns
         /\ CloseLoad => call.op = "disconnect" /\ at = 1 /\ Moves(2)
         /\ CloseMeter => AtCloseMeter /\ Returns
         /\ AskMeter => \/ call.op = "check_input_voltage" /\ at = 1 /\ Moves(2)
                        \/ call.op = "run_single_point" /\ at = 4 /\ Moves(5)
         /\ ReadMeter =>
              \/ /\ call.op = "check_input_voltage" /\ at = 2
                 /\ Ends("True") \/ Ends("False") \/ Raises
              \/ call.op = "run_single_point" /\ at = 5 /\ Moves(6)
         /\ set_mode_cch => call.op = "run_single_point" /\ at = 1 /\ Moves(2)
         /\ set_current => call.op = "run_single_point" /\ at = 2 /\ Moves(3)
         /\ load_on => call.op = "run_single_point" /\ at = 3 /\ Moves(4)
         /\ load_off => call.op = "run_single_point" /\ at = 6 /\ Returns
         /\ Command => call.op = "command" /\ at = 1 /\ Returns
         /\ AskLoad => call.op = "query" /\ at = 1 /\ Moves(2)
         /\ ReadLoad => /\ AtReadLoad
                        /\ Returns \/ Ends("True") \/ Ends("False")
<1> USE StepsOfMethods, GoesOnFrom DEF Moves, Returns
<1>1. OpenMeter => call.op = "connect" /\ at = 1 /\ Moves(2)
  BY DEF OpenMeter
<1>2. OpenLoad => AtOpenLoad /\ Returns
  BY DEF OpenLoad, AtOpenLoad, Ends
<1>3. CloseLoad => call.op = "disconnect" /\ at = 1 /\ Moves(2)
  BY DEF CloseLoad
<1>4. CloseMeter => AtCloseMeter /\ Returns
  BY DEF CloseMeter, AtCloseMeter, Ends
<1>5. AskMeter => \/ call.op = "check_input_voltage" /\ at = 1 /\ Moves(2)
                  \/ call.op = "run_single_point" /\ at = 4 /\ Moves(5)
  BY DEF AskMeter, AtAskMeter
<1>6. ReadMeter =>
        \/ /\ call.op = "check_input_voltage" /\ at = 2
           /\ Ends("True") \/ Ends("False") \/ Raises
        \/ call.op = "run_single_point" /\ at = 5 /\ Moves(6)
  BY DEF ReadMeter, Told, AtReadMeter
<1>7. \A l : Written(l) => GoesOn \/ Raises
  BY DEF Written
<1>8. set_mode_cch => call.op = "run_single_point" /\ at = 1 /\ Moves(2)
  BY <1>7 DEF set_mode_cch
<1>9. set_current => call.op = "run_single_point" /\ at = 2 /\ Moves(3)
  BY <1>7 DEF set_current
<1>10. load_on => call.op = "run_single_point" /\ at = 3 /\ Moves(4)
  BY <1>7 DEF load_on
<1>11. load_off => call.op = "run_single_point" /\ at = 6 /\ Returns
  BY <1>7 DEF load_off, Ends
<1>12. Command => call.op = "command" /\ at = 1 /\ Returns
  BY <1>7 DEF Command, Ends
<1>13. AskLoad => call.op = "query" /\ at = 1 /\ Moves(2)
  BY DEF AskLoad
<1>14. ReadLoad => AtReadLoad /\ (Returns \/ Ends("True") \/ Ends("False"))
  BY DEF ReadLoad, AtReadLoad, get_load_status, ConvertReading, Ends
<1> QED
  BY <1>1, <1>2, <1>3, <1>4, <1>5, <1>6, <1>8, <1>9, <1>10, <1>11, <1>12,
     <1>13, <1>14

-----------------------------------------------------------------------------
(* Types *)

ControlOK ==
  /\ call \in [id : Ids \cup {0}, op : DOMAIN Steps, current : Currents \cup {0},
               question : Questions]
  /\ at \in 0..Len(Steps[call.op])
  /\ outcome \in {"none", "ok", "raised", "True", "False"}
  /\ calls \in 0..MaxCalls /\ raised \in SUBSET Ids
FilesOK ==
  /\ files \in [Files -> {"free", "meter", "port", "other"}]
  /\ fd \in Files \cup {None} /\ port \in Files \cup {None}
  /\ released \in BOOLEAN /\ harmed \in BOOLEAN
LoadOK ==
  load \in Load /\ obedient \in BOOLEAN /\ last_on \in Ids \cup {None}
AnswersOK ==
  /\ data \in Seq(Answer)
  /\ meter_queue \in Seq(Answer) /\ owed \in Seq(Answer) /\ received \in Seq(Answer)
  /\ settled \in BOOLEAN

LEMMA TypeParts == TypeOK <=> ControlOK /\ FilesOK /\ LoadOK /\ AnswersOK
<1>1. {released, settled, obedient, harmed} \subseteq BOOLEAN
        <=> /\ released \in BOOLEAN /\ settled \in BOOLEAN
            /\ obedient \in BOOLEAN /\ harmed \in BOOLEAN
  OBVIOUS
<1> QED BY <1>1 DEF TypeOK, ControlOK, FilesOK, LoadOK, AnswersOK

\* A step of the call under way: every action but three.
Step ==
  \/ OpenMeter \/ OpenLoad \/ CloseLoad \/ CloseMeter
  \/ AskMeter \/ ReadMeter
  \/ set_mode_cch \/ set_current \/ load_on \/ load_off \/ Command
  \/ AskLoad \/ ReadLoad

LEMMA StepIsOfCall ==
  ASSUME TypeOK, Step
  PROVE  /\ call' = call /\ calls' = calls
         /\ at # 0 /\ at' \in 0..LastStep
         /\ outcome' \in {outcome, "ok", "raised", "True", "False"}
         /\ raised' \in {raised, raised \cup {call.id}}
<1>1. call' = call /\ calls' = calls
  <2>1. \A l : Written(l) => InCall
    BY DEF Written, NoFile
  <2> QED BY <2>1 DEF Step, InCall, NoFile, OpenMeter, OpenLoad, CloseLoad, CloseMeter,
       AskMeter, ReadMeter, set_mode_cch, set_current, load_on, load_off, Command,
       AskLoad, ReadLoad
<1>2. at # 0 /\ at' \in 0..LastStep
  BY Progress DEF Step, Moves, Returns, GoesTo, Ends, Raises, AtOpenLoad, AtCloseMeter,
     AtReadLoad, LastStep
<1>3. /\ outcome' \in {outcome, "ok", "raised", "True", "False"}
      /\ raised' \in {raised, raised \cup {call.id}}
  BY Progress DEF Step, Moves, Returns, GoesTo, Ends, Raises
<1> QED BY <1>1, <1>2, <1>3

LEMMA ControlKept ==
  ASSUME TypeOK, CallNumbered, [Next]_vars
  PROVE  ControlOK' /\ CallNumbered'
<1> USE DEF ControlOK, CallNumbered
<1>0. ControlOK /\ at \in Nat
  BY TypeParts, CallHasOp
<1>1. CASE Call
  <2>1. PICK op \in DOMAIN Steps, c \in Currents, q \in Questions :
          call' = [id |-> calls + 1, op |-> op,
                   current |-> IF op = "run_single_point" THEN c ELSE 0,
                   question |-> IF op = "query" THEN q ELSE "MODE?"]
    BY <1>1 DEF Call
  <2>2. /\ calls \in Nat /\ calls < MaxCalls /\ calls' = calls + 1 /\ at' = 1
        /\ outcome' = "none" /\ raised' = raised
    BY <1>0, <1>1 DEF Call
  <2>3. calls + 1 \in Ids /\ calls' \in 0..MaxCalls
    BY <2>2, BoundsAssumption DEF Ids
  <2>4. "MODE?" \in Questions
    BY DEF Questions
  <2>5. call'.op = op /\ call'.id = calls + 1
    BY <2>1
  <2>6. call' \in [id : Ids \cup {0}, op : DOMAIN Steps, current : Currents \cup {0},
                   question : Questions]
    BY <2>1, <2>3, <2>4
  <2>7. 1 \in 0..Len(Steps[op])
    <3>1. op \in Ops
      BY OpsAre
    <3>2. Len(Steps[op]) \in {1, 2, 6}
      BY <3>1, StepsOf DEF Ops
    <3>3. \A n \in {1, 2, 6} : 1 \in 0..n
      OBVIOUS
    <3> QED BY <3>2, <3>3, Zenon
  <2> QED BY <1>0, <2>2, <2>3, <2>5, <2>6, <2>7
<1>2. CASE Step
  <2>1. Len(Steps[call.op]) = LastStep
    BY LastStepIsLen
  <2>2. call.id \in Ids
    BY <1>0, <1>2, StepIsOfCall
  <2>3. at' \in 0..Len(Steps[call'.op]) /\ calls' \in 0..MaxCalls
    BY <1>0, <1>2, <2>1, StepIsOfCall
  <2>4. raised' \in SUBSET Ids
    BY <1>0, <1>2, <2>2, StepIsOfCall
  <2>5. outcome' \in {"none", "ok", "raised", "True", "False"}
    BY <1>0, <1>2, StepIsOfCall
  <2> QED BY <1>0, <1>2, <2>2, <2>3, <2>4, <2>5, StepIsOfCall DEF Ids
<1>3. CASE LoadAnswers \/ OtherFile \/ UNCHANGED vars
  BY <1>0, <1>3 DEF LoadAnswers, OtherFile, vars
<1> QED BY <1>1, <1>2, <1>3 DEF Next, Step

\* What the other actions leave alone.
Tells == set_mode_cch \/ set_current \/ load_on \/ load_off \/ Command

LEMMA TellsEffect ==
  ASSUME Tells
  PROVE  /\ \E l : Written(l)
         /\ UNCHANGED answerVars /\ UNCHANGED <<data, settled>> /\ NoFile
<1>1. PICK l : Written(l)
  BY DEF Tells, set_mode_cch, set_current, load_on, load_off, Command
<1> QED BY <1>1 DEF Written

LEMMA WritesNoFile ==
  set_mode_cch \/ set_current \/ load_on \/ load_off \/ Command => UNCHANGED fileVars
BY TellsEffect DEF Tells, NoFile

LEMMA LoadOfOthers ==
  [Next]_vars => Tells \/ UNCHANGED loadVars
BY DEF Next, Tells, vars, Call, OpenMeter, OpenLoad, CloseLoad, CloseMeter, AskMeter,
   ReadMeter, AskLoad, LoadAnswers, ReadLoad, OtherFile

LEMMA FilesOKKept ==
  ASSUME TypeOK, [Next]_vars
  PROVE  FilesOK'
<1> USE DEF FilesOK
<1>0. FilesOK
  BY TypeParts
<1>1. CASE OpenMeter
  BY <1>0, <1>1 DEF OpenMeter
<1>2. CASE OpenLoad
  <2>1. CASE files' = files /\ port' = port
    BY <1>0, <1>2, <2>1 DEF OpenLoad
  <2>2. CASE \E n \in Files :
               /\ files' = [k \in Files |-> IF k = n THEN "port"
                              ELSE IF k = port THEN "free" ELSE files[k]]
               /\ port' = n
    BY <1>0, <1>2, <2>2 DEF OpenLoad
  <2> QED BY <1>2, <2>1, <2>2 DEF OpenLoad
<1>3. CASE CloseLoad
  BY <1>0, <1>3 DEF CloseLoad, None
<1>4. CASE CloseMeter
  <2>1. /\ fd' = fd /\ port' = port
        /\ files' \in {files, [files EXCEPT ![fd] = "free"]}
        /\ released' \in {released, TRUE}
        /\ \/ harmed' = harmed
           \/ harmed' = (harmed \/ files[fd] # "meter")
    BY <1>4 DEF CloseMeter
  <2> QED BY <1>0, <2>1
<1>5. CASE AskMeter
  <2>1. /\ files' = files /\ fd' = fd /\ port' = port /\ released' = released
        /\ harmed' \in {harmed, TRUE}
    BY <1>5 DEF AskMeter
  <2> QED BY <1>0, <2>1
<1>6. CASE OtherFile
  <2>1. /\ fd' = fd /\ port' = port /\ released' = released /\ harmed' = harmed
        /\ \E n \in Files : files' \in {[files EXCEPT ![n] = "other"],
                                        [files EXCEPT ![n] = "free"]}
    BY <1>6 DEF OtherFile
  <2> QED BY <1>0, <2>1
<1>7. ASSUME UNCHANGED fileVars PROVE FilesOK'
  BY <1>0, <1>7 DEF fileVars
<1>8. CASE \/ Call \/ ReadMeter \/ set_mode_cch \/ set_current \/ load_on
           \/ load_off \/ Command \/ AskLoad \/ LoadAnswers \/ ReadLoad
           \/ UNCHANGED vars
  BY <1>7, <1>8, WritesNoFile DEF Call, ReadMeter, AskLoad, LoadAnswers, ReadLoad,
     NoFile, vars
<1> QED
  BY <1>1, <1>2, <1>3, <1>4, <1>5, <1>6, <1>8 DEF Next

LEMMA LoadOKKept ==
  ASSUME TypeOK, CallNumbered, [Next]_vars
  PROVE  LoadOK'
<1> USE DEF LoadOK
<1>0. LoadOK /\ ControlOK
  BY TypeParts
<1>1. ASSUME Tells PROVE LoadOK'
  <2>1. load' \in Load /\ obedient' \in BOOLEAN
    <3>1. ASSUME NEW l \in Load, Written(l)
          PROVE  load' \in Load /\ obedient' \in BOOLEAN
      BY <1>0, <3>1 DEF Written
    <3>2. \A c \in Currents \cup {0}, m \in Modes :
            /\ [load EXCEPT !.mode = m] \in Load
            /\ [load EXCEPT !.current = c] \in Load
            /\ [load EXCEPT !.on = TRUE] \in Load
            /\ [load EXCEPT !.on = FALSE] \in Load
      BY <1>0 DEF Load
    <3>3. call.current \in Currents \cup {0} /\ "CCH" \in Modes
      BY <1>0 DEF ControlOK, Modes
    <3> QED BY <1>1, <3>1, <3>2, <3>3 DEF Tells, set_mode_cch, set_current,
         load_on, load_off, Command
  <2>2. last_on' \in Ids \cup {None}
    <3>1. call.id \in Ids \cup {None}
      BY <1>0 DEF ControlOK, None
    <3>2. last_on' \in {last_on, call.id, None}
      BY <1>1 DEF Tells, set_mode_cch, set_current, load_on, load_off, Command
    <3> QED BY <1>0, <3>1, <3>2
  <2> QED BY <2>1, <2>2
<1>2. ASSUME UNCHANGED loadVars PROVE LoadOK'
  BY <1>0, <1>2 DEF loadVars
<1> QED BY <1>1, <1>2, LoadOfOthers

\* The actions that change what the instruments have said or what was returned.
LEMMA AnswersOfOthers ==
  [Next]_vars => \/ Call \/ AskMeter \/ ReadMeter \/ OpenLoad
                 \/ AskLoad \/ LoadAnswers \/ ReadLoad
                 \/ UNCHANGED <<data, answerVars, settled>>
BY TellsEffect DEF Next, Tells, vars, OpenMeter, CloseLoad, CloseMeter, OtherFile,
   answerVars

LEMMA Sequences ==
  ASSUME NEW S, NEW s \in Seq(S)
  PROVE  /\ <<>> \in Seq(S)
         /\ \A a \in S : <<a>> \in Seq(S) /\ Append(s, a) \in Seq(S)
         /\ s # <<>> => Head(s) \in S /\ Tail(s) \in Seq(S)
OBVIOUS

LEMMA AnswersOKKept ==
  ASSUME TypeOK, CallNumbered, [Next]_vars
  PROVE  AnswersOK'
<1> USE DEF AnswersOK
<1>0. AnswersOK /\ ControlOK /\ LoadOK
  BY TypeParts
<1>a. <<>> \in Seq(Answer)
  OBVIOUS
<1>1. CASE Call
  <2>1. /\ data' = <<>> /\ settled' = FALSE /\ meter_queue' = meter_queue
        /\ owed' = owed /\ received' = received
    BY <1>1 DEF Call, answerVars
  <2>2. data' \in Seq(Answer)
    BY <1>a, <2>1
  <2> QED BY <1>0, <2>1, <2>2
<1>2. CASE AskMeter
  <2>1. call.id \in Ids
    BY <1>0, <1>2, StepIsOfCall DEF Step, ControlOK, CallNumbered
  <2>2. \A a \in Values(call.id) : a \in Answer
    BY <1>0, <2>1 DEF Values, Answer, LoadOK
  <2>3. \/ meter_queue' = meter_queue
        \/ \E a \in Values(call.id) : meter_queue' \in {<<a>>, Append(meter_queue, a)}
    BY <1>2 DEF AskMeter
  <2>4. meter_queue' \in Seq(Answer)
    <3>1. CASE meter_queue' = meter_queue
      BY <1>0, <3>1
    <3>2. ASSUME NEW a \in Values(call.id),
                 meter_queue' \in {<<a>>, Append(meter_queue, a)}
          PROVE  meter_queue' \in Seq(Answer)
      <4>1. <<a>> \in Seq(Answer) /\ Append(meter_queue, a) \in Seq(Answer)
        BY <1>0, <2>2, Sequences
      <4> QED BY <3>2, <4>1
    <3> QED BY <2>3, <3>1, <3>2
  <2>5. /\ data' = data /\ owed' = owed /\ received' = received
        /\ settled' = (meter_queue = <<>>)
    BY <1>2 DEF AskMeter
  <2> QED BY <1>0, <2>4, <2>5
<1>3. CASE ReadMeter
  <2>1. meter_queue' \in Seq(Answer)
    <3>1. \/ meter_queue' = meter_queue
          \/ meter_queue # <<>> /\ meter_queue' = Tail(meter_queue)
      BY <1>3 DEF ReadMeter
    <3> QED BY SMTT(30), <1>0, <3>1
  <2>2. data' \in Seq(Answer)
    <3>1. \/ data' = data
          \/ meter_queue # <<>> /\ data' = <<Head(meter_queue)>>
          \/ \E a \in Values(None) : data' = <<a>>
      BY <1>3 DEF ReadMeter, Told
    <3>2. meter_queue # <<>> => Head(meter_queue) \in Answer
      BY <1>0
    <3>3. CASE data' = data
      BY <1>0, <3>3
    <3>4. CASE meter_queue # <<>> /\ data' = <<Head(meter_queue)>>
      BY <1>0, <3>2, <3>4, Sequences
    <3>5. ASSUME NEW a \in Values(None), data' = <<a>> PROVE data' \in Seq(Answer)
      <4>1. a \in Answer
        BY <1>0 DEF Values, Answer, LoadOK
      <4> QED BY <3>5, <4>1, Sequences
    <3> QED BY <3>1, <3>3, <3>4, <3>5
  <2>3. owed' = owed /\ received' = received /\ settled' = settled
    BY <1>3 DEF ReadMeter
  <2> QED BY <1>0, <2>1, <2>2, <2>3
<1>4. CASE OpenLoad
  <2>1. /\ data' = data /\ owed' = owed /\ meter_queue' = meter_queue
        /\ settled' = settled /\ received' \in {received, <<>>}
    BY <1>4 DEF OpenLoad
  <2>2. received' \in Seq(Answer)
    BY <1>0, <1>a, <2>1
  <2> QED BY <1>0, <2>1, <2>2
<1>5. CASE AskLoad
  <2> DEFINE a == [of |-> call.id, question |-> call.question, load |-> load,
                   voltage |-> 0]
  <2>1. call.id \in Ids
    BY <1>0, <1>5, StepIsOfCall DEF Step, ControlOK, CallNumbered
  <2>2. a \in Answer
    BY <1>0, <2>1 DEF Answer, ControlOK, LoadOK
  <2>3. /\ owed' \in {owed, Append(owed, a)} /\ received' \in {received, <<>>}
        /\ meter_queue' = meter_queue /\ data' = data
        /\ settled' = (owed = <<>>)
    BY <1>5 DEF AskLoad
  <2> HIDE DEF a
  <2>4. owed' \in Seq(Answer)
    <3>1. Append(owed, a) \in Seq(Answer)
      BY <1>0, <2>2, Sequences
    <3> QED BY <1>0, <2>3, <3>1
  <2>5. received' \in Seq(Answer)
    BY <1>0, <1>a, <2>3
  <2> QED BY <1>0, <2>3, <2>4, <2>5
<1>6. CASE LoadAnswers
  <2>1. /\ owed # <<>> /\ received' = Append(received, Head(owed))
        /\ owed' = Tail(owed) /\ meter_queue' = meter_queue
        /\ data' = data /\ settled' = settled
    BY <1>6 DEF LoadAnswers
  <2>2. Head(owed) \in Answer /\ Tail(owed) \in Seq(Answer)
    BY <1>0, <2>1
  <2> QED BY <1>0, <2>1, <2>2
<1>7. CASE ReadLoad
  <2>1. /\ received' = <<>> /\ owed' = owed /\ meter_queue' = meter_queue
        /\ settled' = settled
    BY <1>7 DEF ReadLoad
  <2>2. data' \in {data, received}
    BY <1>7 DEF ReadLoad, ConvertReading
  <2> QED BY <1>0, <2>1, <2>2
<1>8. CASE UNCHANGED <<data, answerVars, settled>>
  BY <1>0, <1>8 DEF answerVars
<1> QED
  BY <1>1, <1>2, <1>3, <1>4, <1>5, <1>6, <1>7, <1>8, AnswersOfOthers

LEMMA TypeKept ==
  ASSUME TypeOK, CallNumbered, [Next]_vars
  PROVE  TypeOK' /\ CallNumbered'
BY ControlKept, FilesOKKept, LoadOKKept, AnswersOKKept
   DEF TypeOK, ControlOK, FilesOK, LoadOK, AnswersOK

-----------------------------------------------------------------------------
(* The descriptors *)

FilesInv == PortIsPort /\ MeterIsMeter /\ MeterFirst /\ MeterOpenWithLoad

LEMMA FilesInvKept ==
  ASSUME TypeOK, FilesInv, [Next]_vars
  PROVE  FilesInv'
<1> USE DEF FilesInv, PortIsPort, MeterIsMeter, MeterFirst, MeterOpenWithLoad,
            AtOpenLoad, AtCloseMeter, None
<1>0. FilesOK /\ None \notin Files
  BY TypeParts DEF Files
<1>1. CASE OpenMeter
  <2>1. call' = call /\ call.op = "connect" /\ port' = port
    BY <1>1, Progress DEF OpenMeter, InCall
  <2>2. CASE Raises /\ UNCHANGED <<files, fd, released>>
    BY <2>1, <2>2 DEF Raises
  <2>3. ASSUME NEW n \in Files, files[n] = "free",
               files' = [files EXCEPT ![n] = "meter"], fd' = n, released' = FALSE
        PROVE  FilesInv'
    <3>1. n # None /\ port # n
      BY <1>0, <2>3
    <3>2. files'[fd'] = "meter" /\ fd' # None
      BY <1>0, <2>3, <3>1 DEF FilesOK
    <3>3. port # None => files'[port] = "port"
      BY <1>0, <2>3, <3>1 DEF FilesOK
    <3> QED BY <2>1, <3>2, <3>3
  <2> QED BY <1>1, <2>2, <2>3 DEF OpenMeter, Lowest
<1>2. CASE OpenLoad
  <2>1. /\ call' = call /\ AtOpenLoad /\ at' = 0 /\ fd' = fd /\ released' = released
    BY <1>2, Progress DEF OpenLoad, InCall, Returns, Ends, Raises
  <2>2. CASE UNCHANGED <<files, port>>
    BY <2>1, <2>2
  <2>3. ASSUME NEW n \in Files, files[n] = "free",
               files' = [k \in Files |-> IF k = n THEN "port"
                           ELSE IF k = port THEN "free" ELSE files[k]],
               port' = n
        PROVE  FilesInv'
    <3>1. fd \in Files /\ files[fd] = "meter" /\ fd # n
      BY <1>0, <2>1, <2>3 DEF FilesOK
    <3>2. fd # port
      BY <1>0, <3>1
    <3>3. files'[fd] = "meter" /\ files'[n] = "port"
      BY <2>3, <3>1, <3>2
    <3> QED BY <2>1, <2>3, <3>1, <3>3
  <2> QED BY <1>2, <2>2, <2>3 DEF OpenLoad, Lowest
<1>3. CASE CloseLoad
  <2>1. /\ call' = call /\ call.op = "disconnect" /\ fd' = fd /\ released' = released
        /\ at' \in {0, 2}
    BY <1>3, Progress DEF CloseLoad, InCall, Moves, GoesTo, Raises
  <2>2. CASE port = None /\ UNCHANGED <<files, port>>
    BY <2>1, <2>2
  <2>3. CASE port # None /\ Raises /\ UNCHANGED <<files, port>>
    BY <2>1, <2>3 DEF Raises
  <2>4. CASE port # None /\ files' = [files EXCEPT ![port] = "free"] /\ port' = None
    <3>1. port \in Files /\ files[port] = "port"
      BY <1>0, <2>4 DEF FilesOK
    <3>2. ~released /\ fd # None => files'[fd] = "meter"
      BY <1>0, <2>4, <3>1 DEF FilesOK
    <3> QED BY <2>1, <2>4, <3>2
  <2> QED BY <1>3, <2>2, <2>3, <2>4 DEF CloseLoad
<1>4. CASE CloseMeter
  <2>1. /\ call' = call /\ AtCloseMeter /\ at' = 0 /\ fd' = fd /\ port' = port
        /\ \/ files' = files /\ released' = released
           \/ released' = TRUE
    BY <1>4, Progress DEF CloseMeter, InCall, Returns, Ends, Raises
  <2> QED BY <2>1
<1>5. CASE OtherFile
  <2>1. /\ at = 0 /\ at' = 0 /\ fd' = fd /\ port' = port /\ released' = released
    BY <1>5 DEF OtherFile, Idle
  <2>2. PICK n \in Files, c \in {"other", "free"} :
          files[n] \in {"free", "other"} /\ files' = [files EXCEPT ![n] = c]
    BY <1>5 DEF OtherFile, Lowest
  <2>3. \A k \in Files : files[k] \in {"meter", "port"} => files'[k] = files[k]
    BY <1>0, <2>2 DEF FilesOK
  <2>4. fd \in Files \cup {None} /\ port \in Files \cup {None}
    BY <1>0 DEF FilesOK
  <2> QED BY <2>1, <2>3, <2>4
<1>6. ASSUME UNCHANGED <<files, fd, port, released>>,
             AtOpenLoad' => AtOpenLoad, AtCloseMeter' => AtCloseMeter
      PROVE  FilesInv'
  BY <1>6
<1>7. CASE Call
  BY <1>6, <1>7 DEF Call, fileVars
<1>8. CASE AskMeter \/ ReadMeter \/ Tells \/ AskLoad \/ ReadLoad
  <2>1. /\ call' = call
        /\ call.op \notin {"connect", "disconnect"}
    BY <1>8, Progress, StepIsOfCall DEF Step, Tells, AtReadLoad
  <2>2. UNCHANGED <<files, fd, port, released>>
    BY <1>8, TellsEffect DEF AskMeter, ReadMeter, AskLoad, ReadLoad, NoFile, fileVars
  <2> QED BY <1>6, <2>1, <2>2
<1>9. CASE LoadAnswers \/ UNCHANGED vars
  BY <1>6, <1>9 DEF LoadAnswers, vars, fileVars
<1> QED
  BY <1>1, <1>2, <1>3, <1>4, <1>5, <1>7, <1>8, <1>9 DEF Next, Tells

-----------------------------------------------------------------------------
(* The load *)

LoadInv == LoadOnAccounted /\ PointSetUp

LEMMA CommandEffect ==
  ASSUME NEW l, Written(l)
  PROVE  /\ obedient' => obedient
         /\ load' \in {load, l}
         /\ obedient' => load' = l \/ Raises
<1>1. CASE UNCHANGED obedient
  BY <1>1 DEF Written
<1>2. CASE obedient' = FALSE
  BY <1>2 DEF Written
<1> QED BY <1>1, <1>2 DEF Written

LEMMA LoadInvKept ==
  ASSUME TypeOK, LoadInv, [Next]_vars
  PROVE  LoadInv'
<1> USE DEF LoadInv, LoadOnAccounted, PointSetUp
<1>0. load \in Load /\ at \in Nat
  BY CallHasOp DEF TypeOK
<1>1. CASE set_mode_cch
  <2> DEFINE l == [load EXCEPT !.mode = "CCH"]
  <2>1. /\ Written(l) /\ last_on' = last_on /\ call' = call
        /\ call.op = "run_single_point" /\ at = 1 /\ Moves(2)
    BY <1>1, Progress, StepIsOfCall DEF Step, set_mode_cch
  <2>2. l.on = load.on /\ l.mode = "CCH"
    BY <1>0 DEF Load
  <2> HIDE DEF l
  <2>3. CASE Raises
    BY <2>1, <2>2, <2>3, CommandEffect DEF Raises
  <2>4. CASE GoesTo(2)
    BY <2>1, <2>2, <2>4, CommandEffect DEF GoesTo, Raises
  <2> QED BY <2>1, <2>3, <2>4 DEF Moves
<1>2. CASE set_current
  <2> DEFINE l == [load EXCEPT !.current = call.current]
  <2>1. /\ Written(l) /\ last_on' = last_on /\ call' = call
        /\ call.op = "run_single_point" /\ at = 2 /\ Moves(3)
    BY <1>2, Progress, StepIsOfCall DEF Step, set_current
  <2>2. l.on = load.on /\ l.mode = load.mode /\ l.current = call.current
    BY <1>0 DEF Load
  <2> HIDE DEF l
  <2>3. CASE Raises
    BY <2>1, <2>2, <2>3, CommandEffect DEF Raises
  <2>4. CASE GoesTo(3)
    BY <2>1, <2>2, <2>4, CommandEffect DEF GoesTo, Raises
  <2> QED BY <2>1, <2>3, <2>4 DEF Moves
<1>3. CASE load_on
  <2> DEFINE l == [load EXCEPT !.on = TRUE]
  <2>1. /\ Written(l) /\ last_on' = call.id /\ call' = call
        /\ call.op = "run_single_point" /\ at = 3 /\ Moves(4)
    BY <1>3, Progress, StepIsOfCall DEF Step, load_on
  <2>2. l.on /\ l.mode = load.mode /\ l.current = load.current
    BY <1>0 DEF Load
  <2> HIDE DEF l
  <2>3. CASE Raises
    BY <2>1, <2>2, <2>3, CommandEffect DEF Raises
  <2>4. CASE GoesTo(4)
    BY <2>1, <2>2, <2>4, CommandEffect DEF GoesTo, Raises
  <2> QED BY <2>1, <2>3, <2>4 DEF Moves
<1>4. CASE load_off
  <2> DEFINE l == [load EXCEPT !.on = FALSE]
  <2>1. /\ Written(l) /\ last_on' = last_on /\ call' = call
        /\ call.op = "run_single_point" /\ at = 6 /\ Returns
    BY <1>4, Progress, StepIsOfCall DEF Step, load_off
  <2>2. l.on = FALSE
    BY <1>0 DEF Load
  <2> HIDE DEF l
  <2>3. CASE Raises
    BY <2>1, <2>2, <2>3, CommandEffect DEF Raises
  <2>4. CASE Ends("ok")
    BY <2>1, <2>2, <2>4, CommandEffect DEF Ends, Raises
  <2> QED BY <2>1, <2>3, <2>4 DEF Returns
<1>5. CASE Command
  <2>1. call' = call /\ call.op = "command" /\ (raised' = raised \/ Raises)
    BY <1>5, Progress, StepIsOfCall DEF Step, Returns, Ends
  <2>2. PICK l : /\ Written(l)
                 /\ \/ l.on = load.on /\ last_on' = last_on
                    \/ l.on = FALSE /\ last_on' = last_on
                    \/ last_on' = None
    <3>1. \A m, c : /\ [load EXCEPT !.mode = m].on = load.on
                    /\ [load EXCEPT !.current = c].on = load.on
      BY <1>0 DEF Load
    <3>2. [load EXCEPT !.on = FALSE].on = FALSE
      BY <1>0 DEF Load
    <3> QED BY <1>5, <3>1, <3>2 DEF Command
  <2>3. raised \subseteq raised'
    BY <2>1 DEF Raises
  <2> QED BY <2>1, <2>2, <2>3, CommandEffect
<1>6. CASE AskMeter \/ ReadMeter
  <2>1. /\ call' = call /\ UNCHANGED <<load, obedient, last_on>>
        /\ \/ call.op # "run_single_point" /\ raised \subseteq raised'
           \/ Raises
           \/ call.op = "run_single_point" /\ at = 4 /\ GoesTo(5)
           \/ call.op = "run_single_point" /\ at = 5 /\ GoesTo(6)
    BY <1>6, Progress, StepIsOfCall DEF Step, AskMeter, ReadMeter, loadVars, Moves
  <2> QED BY <2>1 DEF GoesTo, Raises
<1>7. CASE Call
  <2>1. /\ at = 0 /\ at' = 1 /\ raised' = raised
        /\ UNCHANGED <<load, obedient, last_on>>
    BY <1>7 DEF Call, Idle, loadVars
  <2> QED BY <2>1
<1>8. CASE OpenMeter \/ OpenLoad \/ CloseLoad \/ CloseMeter \/ AskLoad \/ ReadLoad
  <2>1. /\ call' = call /\ call.op # "run_single_point"
    BY <1>8, Progress, StepIsOfCall DEF Step, AtOpenLoad, AtCloseMeter, AtReadLoad
  <2>2. raised \subseteq raised'
    BY <1>8, StepIsOfCall DEF Step
  <2>3. UNCHANGED <<load, obedient, last_on>>
    BY <1>8 DEF OpenMeter, OpenLoad, CloseLoad, CloseMeter, AskLoad, ReadLoad, loadVars
  <2> QED BY <2>1, <2>2, <2>3
<1>9. CASE LoadAnswers \/ OtherFile \/ UNCHANGED vars
  <2>1. UNCHANGED <<load, obedient, last_on, raised, call, at>>
    BY <1>9 DEF LoadAnswers, OtherFile, vars, loadVars
  <2> QED BY <2>1
<1> QED
  BY <1>1, <1>2, <1>3, <1>4, <1>5, <1>6, <1>7, <1>8, <1>9 DEF Next

-----------------------------------------------------------------------------
(* What the meter says *)

MeterInv == /\ MeterAnswersAsked /\ MeterAnswersExcused /\ MeterAnswersOwn
            /\ PointDataKept /\ DataIsOwn

\* The entries of a sequence after one step of it.
LEMMA AppendEach ==
  ASSUME NEW S, NEW q \in Seq(S), NEW x, NEW i \in DOMAIN Append(q, x)
  PROVE  (i \in DOMAIN q /\ Append(q, x)[i] = q[i]) \/ Append(q, x)[i] = x
OBVIOUS

LEMMA TailEach ==
  ASSUME NEW S, NEW q \in Seq(S), q # <<>>, NEW i \in DOMAIN Tail(q)
  PROVE  i + 1 \in DOMAIN q /\ Tail(q)[i] = q[i + 1]
OBVIOUS

LEMMA ExcusedKept ==
  ASSUME raised \subseteq raised', NEW a, Excused(a)
  PROVE  \E r \in raised' : r <= a.of
BY DEF Excused

LEMMA CallsAreNumbers ==
  ASSUME TypeOK
  PROVE  /\ calls \in Nat /\ raised \subseteq Nat
         /\ \A i \in DOMAIN meter_queue : meter_queue[i].of \in Nat
<1>1. calls \in Nat /\ raised \subseteq Nat
  BY BoundsAssumption DEF TypeOK, Ids
<1>2. \A i \in DOMAIN meter_queue : meter_queue[i] \in Answer
  BY DEF TypeOK
<1>3. \A a \in Answer : a.of \in Nat
  BY BoundsAssumption DEF Answer, Ids, None
<1> QED BY <1>1, <1>2, <1>3

LEMMA AskMeterKept ==
  ASSUME TypeOK, CallNumbered, MeterInv, AskMeter
  PROVE  MeterInv'
<1> USE DEF AtReadMeter, BeforeAskMeter
<1>0. meter_queue \in Seq(Answer)
  BY DEF TypeOK
<1>1. /\ call' = call /\ calls' = calls /\ load' = load /\ fd' = fd /\ files' = files
      /\ settled' = (meter_queue = <<>>) /\ BeforeAskMeter /\ ~AtReadMeter
      /\ at' \in {0, 2, 5} /\ (at' # 0 => AtReadMeter') /\ ~BeforeAskMeter'
      /\ raised \subseteq raised'
      /\ at' = 0 => Raises
  <2>1. /\ call' = call /\ calls' = calls /\ raised \subseteq raised'
    BY StepIsOfCall DEF Step
  <2>2. /\ load' = load /\ fd' = fd /\ files' = files
        /\ settled' = (meter_queue = <<>>)
    BY DEF AskMeter, loadVars
  <2>3. \/ call.op = "check_input_voltage" /\ at = 1 /\ Moves(2)
        \/ call.op = "run_single_point" /\ at = 4 /\ Moves(5)
    BY Progress
  <2>4. /\ at' \in {0, 2, 5} /\ (at' # 0 => AtReadMeter') /\ ~BeforeAskMeter'
        /\ at' = 0 => Raises
    BY <2>1, <2>3 DEF Moves, GoesTo, Raises
  <2> QED BY <2>1, <2>2, <2>3, <2>4
<1>2. Raises => outcome' = "raised" /\ at' = 0 /\ call.id \in raised'
  BY DEF Raises
<1>3. \A i \in DOMAIN meter_queue :
        /\ Excused(meter_queue[i])
        /\ meter_queue[i].of <= calls /\ meter_queue[i].of # call.id
  BY <1>1 DEF MeterInv, MeterAnswersExcused, MeterAnswersAsked
<1>4. call.id = calls /\ calls \in Nat /\ raised' \subseteq Nat
  BY CallsAreNumbers, StepIsOfCall DEF CallNumbered, Step
<1>5. PICK a :
        /\ a.of = call.id /\ a.load = load
        /\ \/ meter_queue' = meter_queue /\ (at' = 0 \/ (fd # None /\ files[fd] # "meter"))
           \/ /\ meter_queue' \in {<<a>>, Append(meter_queue, a)}
              /\ fd # None /\ files[fd] = "meter"
  <2>1. CASE \E a \in Values(call.id) :
               /\ meter_queue' \in {<<a>>, Append(meter_queue, a)}
               /\ fd # None /\ files[fd] = "meter"
    BY <2>1 DEF Values
  <2>2. CASE meter_queue' = meter_queue /\ (at' = 0 \/ (fd # None /\ files[fd] # "meter"))
    <3> DEFINE a == [of |-> call.id, load |-> load]
    <3>1. a.of = call.id /\ a.load = load
      OBVIOUS
    <3> HIDE DEF a
    <3> QED BY <2>2, <3>1
  <2>3. \/ \E a \in Values(call.id) :
             /\ meter_queue' \in {<<a>>, Append(meter_queue, a)}
             /\ fd # None /\ files[fd] = "meter"
        \/ meter_queue' = meter_queue /\ (at' = 0 \/ (fd # None /\ files[fd] # "meter"))
    BY <1>2 DEF AskMeter
  <2> QED BY <2>1, <2>2, <2>3
<1>6. a.of = call.id /\ a.load = load
  BY <1>5
<1>7. \A i \in DOMAIN meter_queue' :
        \/ \E k \in DOMAIN meter_queue : meter_queue'[i] = meter_queue[k]
        \/ meter_queue'[i] = a
  BY <1>0, <1>5, AppendEach
<1>8. MeterAnswersAsked'
  BY <1>1, <1>3, <1>4, <1>6, <1>7 DEF MeterAnswersAsked
<1>9. MeterAnswersOwn'
  <2>1. CASE at' # 0
    <3>1. fd' # None
      BY <1>1, <1>5, <2>1
    <3>2. \A i \in DOMAIN meter_queue' :
            meter_queue'[i].of = call.id => meter_queue'[i].load = load
      BY <1>3, <1>6, <1>7
    <3>3. settled' => \A i \in DOMAIN meter_queue' : meter_queue'[i].of = call.id
      <4>1. settled' => ~\E k : k \in DOMAIN meter_queue
        <5>1. DOMAIN <<>> = {}
          OBVIOUS
        <5> QED BY <1>1, <5>1
      <4> QED BY <1>6, <1>7, <4>1
    <3> QED BY <1>1, <3>1, <3>2, <3>3 DEF MeterAnswersOwn
  <2>2. CASE at' = 0
    BY <2>2 DEF MeterAnswersOwn
  <2> QED BY <2>1, <2>2
<1>10. MeterAnswersExcused'
  <2>1. ASSUME NEW k \in DOMAIN meter_queue
        PROVE  /\ \E r \in raised' : r <= meter_queue[k].of
               /\ \E r \in raised' : r <= a.of
    <3>1. PICK r \in raised : r <= meter_queue[k].of
      BY <1>3 DEF Excused
    <3>2. /\ r \in Nat /\ r \in raised' /\ meter_queue[k].of \in Nat
          /\ meter_queue[k].of <= call.id
      BY <1>1, <1>3, <1>4, CallsAreNumbers
    <3>3. r <= call.id
      BY <1>4, <3>1, <3>2
    <3> QED BY <1>6, <3>1, <3>2, <3>3
  <2>2. CASE \E r \in raised' : r <= a.of
    BY <1>7, <2>1, <2>2 DEF MeterAnswersExcused, Excused
  <2>3. CASE at' = 0
    <3>1. call.id \in raised' /\ call.id <= a.of
      BY <1>1, <1>2, <1>4, <1>6, <2>3
    <3> QED BY <2>2, <3>1
  <2>4. CASE meter_queue = <<>> /\ at' # 0
    <3>1. CASE meter_queue' = meter_queue
      BY <2>4, <3>1 DEF MeterAnswersExcused
    <3>2. CASE meter_queue' # meter_queue
      <4>1. meter_queue' = <<a>> /\ files[fd] = "meter"
        BY <1>5, <2>4, <3>2
      <4>2. Len(meter_queue') = 1 /\ meter_queue'[1].of = call.id
        BY <1>6, <4>1
      <4> QED BY <1>1, <2>4, <4>1, <4>2 DEF MeterAnswersExcused
    <3> QED BY <3>1, <3>2
  <2>5. CASE meter_queue # <<>>
    <3>1. 1 \in DOMAIN meter_queue
      BY <1>0, <2>5
    <3> QED BY <2>1, <2>2, <3>1
  <2> QED BY <2>3, <2>4, <2>5
<1>11. PointDataKept' /\ DataIsOwn'
  BY <1>1, <1>2 DEF PointDataKept, DataIsOwn, Idle
<1> QED BY <1>8, <1>9, <1>10, <1>11 DEF MeterInv

LEMMA ReadMeterKept ==
  ASSUME TypeOK, CallNumbered, MeterIsMeter, LoadInv, MeterInv, ReadMeter
  PROVE  MeterInv'
<1> USE DEF AtReadMeter, BeforeAskMeter
<1>0. meter_queue \in Seq(Answer) /\ load \in Load
  BY DEF TypeOK
<1>1. /\ call' = call /\ calls' = calls /\ load' = load /\ settled' = settled
      /\ released' = released /\ obedient' = obedient
      /\ AtReadMeter /\ raised \subseteq raised'
      /\ ~AtReadMeter' /\ ~BeforeAskMeter'
  <2>1. call' = call /\ calls' = calls /\ raised \subseteq raised'
    BY StepIsOfCall DEF Step
  <2>2. /\ load' = load /\ settled' = settled /\ released' = released
        /\ obedient' = obedient
    BY DEF ReadMeter, loadVars, NoFile, fileVars
  <2>3. AtReadMeter /\ ~AtReadMeter' /\ ~BeforeAskMeter'
    BY <2>1, Progress DEF Moves, GoesTo, Ends, Raises
  <2> QED BY <2>1, <2>2, <2>3
<1>2. meter_queue' = meter_queue \/ (meter_queue # <<>> /\ meter_queue' = Tail(meter_queue))
  BY DEF ReadMeter
<1>3. \A i \in DOMAIN meter_queue' :
        \E k \in DOMAIN meter_queue : meter_queue'[i] = meter_queue[k]
  BY <1>0, <1>2, TailEach
<1>4. MeterAnswersAsked'
  BY <1>1, <1>3 DEF MeterInv, MeterAnswersAsked
<1>5. MeterAnswersOwn'
  BY <1>1 DEF MeterAnswersOwn
<1>6. (\A i \in DOMAIN meter_queue : Excused(meter_queue[i])) => MeterAnswersExcused'
  BY <1>1, <1>3, ExcusedKept DEF MeterAnswersExcused, Excused
<1>7. CASE Raises
  <2>1. outcome' = "raised" /\ at' = 0 /\ call.id \in raised'
    BY <1>7 DEF Raises
  <2>2. MeterAnswersExcused'
    <3>1. CASE Len(meter_queue) = 1 /\ meter_queue[1].of = call.id
      <4>1. DOMAIN meter_queue = {1}
        BY <1>0, <3>1
      <4>2. call.id \in Nat
        BY CallsAreNumbers DEF CallNumbered
      <4>3. \A i \in DOMAIN meter_queue' : call.id <= meter_queue'[i].of
        BY <1>3, <3>1, <4>1, <4>2
      <4> QED BY <2>1, <4>3 DEF MeterAnswersExcused, Excused
    <3> QED BY <1>6, <3>1 DEF MeterInv, MeterAnswersExcused
  <2>3. PointDataKept' /\ DataIsOwn'
    BY <2>1 DEF PointDataKept, DataIsOwn, Idle
  <2> QED BY <1>4, <1>5, <2>2, <2>3 DEF MeterInv
<1>8. CASE \E a : /\ Told(a)
                  /\ \/ /\ files[fd] = "meter" /\ meter_queue # <<>>
                        /\ a = Head(meter_queue) /\ meter_queue' = Tail(meter_queue)
                     \/ /\ files[fd] # "meter" /\ a \in Values(None)
                        /\ meter_queue' = meter_queue
  <2>1. PICK a : /\ Told(a)
                 /\ \/ /\ files[fd] = "meter" /\ meter_queue # <<>>
                       /\ a = Head(meter_queue) /\ meter_queue' = Tail(meter_queue)
                    \/ /\ files[fd] # "meter" /\ a \in Values(None)
                       /\ meter_queue' = meter_queue
    BY <1>8
  <2>2. data'[1] = a
    BY <2>1 DEF Told
  <2>3. MeterAnswersExcused'
    <3>1. CASE Len(meter_queue) = 1 /\ files[fd] = "meter"
      <4>1. meter_queue' = <<>>
        BY <1>0, <2>1, <3>1
      <4> QED BY <4>1 DEF MeterAnswersExcused
    <3> QED BY <1>6, <3>1 DEF MeterInv, MeterAnswersExcused
  <2>4. OwnOrExcused'
    <3> HIDE DEF PointLoad
    <3>1. PointLoad' = PointLoad
      BY <1>1 DEF PointLoad
    <3>2. call.op = "run_single_point" /\ obedient => load = PointLoad
      <4>1. call.op = "run_single_point" /\ obedient =>
              load.mode = "CCH" /\ load.current = call.current /\ load.on = TRUE
        BY <1>0, <1>1 DEF LoadInv, PointSetUp, Load
      <4> QED BY <1>0, <4>1 DEF Load, PointLoad
    <3>3. CASE files[fd] = "meter"
      <4>1. a = meter_queue[1] /\ 1 \in DOMAIN meter_queue
        BY <1>0, <2>1, <3>3
      <4>2. /\ settled => a.of = call.id
            /\ a.of = call.id => a.load = load
        BY <1>1, <4>1 DEF MeterInv, MeterAnswersOwn
      <4>3. a.of # call.id => \E r \in raised' : r <= a.of
        BY <1>1, <4>1, ExcusedKept DEF MeterInv, MeterAnswersExcused
      <4> QED BY <1>1, <2>2, <3>1, <3>2, <4>2, <4>3 DEF OwnOrExcused, Excused
    <3>4. CASE files[fd] # "meter"
      <4>1. released
        BY <1>1, <3>4 DEF MeterIsMeter, MeterInv, MeterAnswersOwn
      <4>2. a.of # call.id
        BY <1>1, <2>1, <3>4 DEF Values, None, CallNumbered
      <4> QED BY <1>1, <2>2, <4>1, <4>2 DEF OwnOrExcused
    <3> QED BY <3>3, <3>4
  <2>5. PointDataKept' /\ DataIsOwn'
    BY <2>4 DEF PointDataKept, DataIsOwn, OwnOrExcused, PointLoad, Excused
  <2> QED BY <1>4, <1>5, <2>3, <2>5 DEF MeterInv
<1> QED BY <1>7, <1>8 DEF ReadMeter

LEMMA MeterInvKept ==
  ASSUME TypeOK, CallNumbered, MeterIsMeter, LoadInv, MeterInv, [Next]_vars
  PROVE  MeterInv'
<1> USE DEF AtReadMeter, BeforeAskMeter
<1>1. ASSUME UNCHANGED <<meter_queue, calls>>, raised \subseteq raised',
             ~AtReadMeter, ~AtReadMeter', BeforeAskMeter' => BeforeAskMeter,
             call'.id = call.id
      PROVE  MeterAnswersAsked' /\ MeterAnswersExcused' /\ MeterAnswersOwn'
  <2>1. MeterAnswersAsked'
    BY <1>1 DEF MeterInv, MeterAnswersAsked
  <2>2. MeterAnswersExcused'
    BY <1>1, ExcusedKept DEF MeterInv, MeterAnswersExcused, Excused
  <2>3. MeterAnswersOwn'
    BY <1>1 DEF MeterAnswersOwn
  <2> QED BY <2>1, <2>2, <2>3
<1>2. CASE AskMeter
  BY <1>2, AskMeterKept
<1>3. CASE ReadMeter
  BY <1>3, ReadMeterKept
<1>4. CASE load_off
  <2>1. /\ call' = call /\ calls' = calls /\ raised \subseteq raised'
        /\ call.op = "run_single_point" /\ at = 6 /\ at' = 0
        /\ UNCHANGED <<data, settled, meter_queue, released>> /\ \E l : Written(l)
    <3>1. Tells
      BY <1>4 DEF Tells
    <3>2. UNCHANGED <<data, settled, meter_queue, released>> /\ \E l : Written(l)
      BY <3>1, TellsEffect DEF NoFile, fileVars, answerVars
    <3> QED BY <1>4, <3>2, Progress, StepIsOfCall DEF Step, Returns, Ends, Raises
  <2>2. obedient' => obedient
    BY <2>1, CommandEffect
  <2>3. OwnOrExcused
    BY <2>1 DEF MeterInv, PointDataKept
  <2>4. Excused(data[1]) => \E r \in raised' : r <= data[1].of
    BY <2>1, ExcusedKept
  <2>5. PointDataKept' /\ DataIsOwn'
    BY <2>1, <2>2, <2>3, <2>4 DEF PointDataKept, DataIsOwn, OwnOrExcused, PointLoad
  <2>6. ~AtReadMeter /\ ~AtReadMeter' /\ ~BeforeAskMeter'
    BY <2>1
  <2> QED BY <1>1, <2>1, <2>5, <2>6 DEF MeterInv
<1>5. CASE Call
  <2>1. /\ calls \in Nat /\ calls' = calls + 1 /\ call'.id = calls + 1 /\ at = 0 /\ at' = 1
        /\ UNCHANGED <<meter_queue, raised>>
    BY <1>5, CallsAreNumbers DEF Call, Idle, answerVars
  <2>2. \A i \in DOMAIN meter_queue : meter_queue[i].of \in Nat /\ meter_queue[i].of <= calls
    BY CallsAreNumbers DEF MeterInv, MeterAnswersAsked
  <2>3. MeterAnswersAsked'
    BY <2>1, <2>2 DEF MeterAnswersAsked
  <2>4. MeterAnswersExcused'
    BY <2>1 DEF MeterInv, MeterAnswersExcused, Excused
  <2>5. MeterAnswersOwn' /\ PointDataKept' /\ DataIsOwn'
    BY <2>1 DEF MeterAnswersOwn, PointDataKept, DataIsOwn, Idle
  <2> QED BY <2>3, <2>4, <2>5 DEF MeterInv
<1>6. CASE set_mode_cch \/ set_current \/ load_on
  <2>1. /\ call' = call /\ calls' = calls /\ raised \subseteq raised'
        /\ call.op = "run_single_point" /\ at \in {1, 2, 3}
        /\ at' \in {0, 2, 3, 4} /\ (at' = 0 => outcome' = "raised")
    BY <1>6, Progress, StepIsOfCall DEF Step, Moves, GoesTo, Raises
  <2>2. meter_queue' = meter_queue
    BY <1>6, TellsEffect DEF Tells, answerVars
  <2>3. PointDataKept' /\ DataIsOwn'
    BY <2>1 DEF PointDataKept, DataIsOwn, Idle
  <2>4. ~AtReadMeter /\ ~AtReadMeter' /\ BeforeAskMeter
    BY <2>1
  <2> QED BY <1>1, <2>1, <2>2, <2>3, <2>4 DEF MeterInv
<1>7. CASE \/ OpenMeter \/ OpenLoad \/ CloseLoad \/ CloseMeter \/ Command
           \/ AskLoad \/ ReadLoad
  <2>1. /\ call' = call /\ calls' = calls /\ raised \subseteq raised'
        /\ call.op \notin {"check_input_voltage", "run_single_point"}
    BY <1>7, Progress, StepIsOfCall
       DEF Step, AtOpenLoad, AtCloseMeter, AtReadLoad
  <2>2. meter_queue' = meter_queue
    BY <1>7, TellsEffect DEF Tells, OpenMeter, OpenLoad, CloseLoad, CloseMeter, AskLoad,
       ReadLoad, answerVars
  <2>3. PointDataKept' /\ DataIsOwn'
    BY <2>1 DEF PointDataKept, DataIsOwn
  <2> QED BY <1>1, <2>1, <2>2, <2>3 DEF MeterInv
<1>8. CASE OtherFile
  <2>1. /\ at = 0 /\ at' = 0
        /\ UNCHANGED <<load, obedient, call, calls, raised, outcome, data, settled,
                       meter_queue, released>>
    BY <1>8 DEF OtherFile, Idle, loadVars, answerVars
  <2>2. PointDataKept' /\ DataIsOwn'
    BY <2>1 DEF MeterInv, PointDataKept, DataIsOwn, Idle
  <2>3. ~AtReadMeter /\ ~AtReadMeter' /\ ~BeforeAskMeter'
    BY <2>1
  <2> QED BY <1>1, <2>1, <2>2, <2>3 DEF MeterInv
<1>9. CASE LoadAnswers \/ UNCHANGED vars
  <2>1. UNCHANGED <<load, obedient, call, calls, raised, at, outcome, data, settled,
                    meter_queue, released, files, fd>>
    BY <1>9 DEF LoadAnswers, vars, loadVars, answerVars, fileVars
  <2> QED BY <2>1 DEF MeterInv, MeterAnswersAsked, MeterAnswersExcused, MeterAnswersOwn,
       Excused, OwnOrExcused, PointLoad, PointDataKept, DataIsOwn, Idle
<1> QED
  BY <1>2, <1>3, <1>4, <1>5, <1>6, <1>7, <1>8, <1>9 DEF Next

-----------------------------------------------------------------------------
(* What the load says *)

QueryInv == LoadAnswersOwn /\ LoadAnswerIsOwn

LEMMA QueryInvKept ==
  ASSUME TypeOK, QueryInv, [Next]_vars
  PROVE  QueryInv'
<1> USE DEF QueryInv, LoadAnswersOwn, LoadAnswerIsOwn, OwnLoadAnswer, AtReadLoad, Idle
<1>0. owed \in Seq(Answer) /\ received \in Seq(Answer)
  BY DEF TypeOK
<1>1. CASE AskLoad
  <2> DEFINE a == [of |-> call.id, question |-> call.question, load |-> load,
                   voltage |-> 0]
  <2>1. /\ call' = call /\ load' = load /\ settled' = (owed = <<>>)
        /\ call.op = "query" /\ (GoesTo(2) \/ Raises)
    BY <1>1, Progress, StepIsOfCall DEF Step, AskLoad, loadVars, Moves
  <2>2. CASE Raises
    BY <2>1, <2>2 DEF Raises
  <2>3. CASE at' = 2 /\ settled'
    <3>1. owed' = Append(owed, a) /\ received' = <<>>
      <4>1. ~Raises
        BY <2>3 DEF Raises
      <4> QED BY <1>1, <4>1 DEF AskLoad
    <3>2. a.of = call.id /\ a.question = call.question /\ a.load = load
      OBVIOUS
    <3> HIDE DEF a
    <3>3. owed' = <<a>>
      <4>1. owed = <<>>
        BY <2>1, <2>3
      <4>2. Append(<<>>, a) = <<a>>
        OBVIOUS
      <4> QED BY <3>1, <4>1, <4>2
    <3>4. /\ \A i \in DOMAIN owed' : owed'[i] = a
          /\ \A i \in DOMAIN received' : FALSE
      BY <3>1, <3>3
    <3> QED BY <2>1, <2>3, <3>2, <3>4
  <2>4. CASE at' = 2 /\ ~settled'
    BY <2>4
  <2> QED BY <2>1, <2>2, <2>3, <2>4 DEF GoesTo
<1>2. CASE LoadAnswers
  <2>1. /\ owed # <<>> /\ received' = Append(received, Head(owed))
        /\ owed' = Tail(owed)
        /\ UNCHANGED <<load, call, at, outcome, data, settled>>
    BY <1>2 DEF LoadAnswers, loadVars
  <2>2. ASSUME AtReadLoad, settled
        PROVE  /\ \A i \in DOMAIN received' : OwnLoadAnswer(received'[i])
               /\ \A i \in DOMAIN owed' : OwnLoadAnswer(owed'[i])
    <3>1. Head(owed) = owed[1] /\ 1 \in DOMAIN owed
      BY <1>0, <2>1
    <3>2. \A i \in DOMAIN received' :
            \/ i \in DOMAIN received /\ received'[i] = received[i]
            \/ received'[i] = Head(owed)
      BY <1>0, <2>1, AppendEach
    <3>3. \A i \in DOMAIN owed' : i + 1 \in DOMAIN owed /\ owed'[i] = owed[i + 1]
      <4>1. DOMAIN owed' = 1..(Len(owed) - 1) /\ DOMAIN owed = 1..Len(owed)
        BY <1>0, <2>1
      <4>2. \A i \in 1..(Len(owed) - 1) : owed'[i] = owed[i + 1]
        BY <1>0, <2>1
      <4>3. Len(owed) \in Nat
        BY <1>0
      <4> QED BY <4>1, <4>2, <4>3
    <3> HIDE DEF OwnLoadAnswer
    <3> QED BY <2>2, <3>1, <3>2, <3>3
  <2> QED BY <2>1, <2>2
<1>3. CASE ReadLoad
  <2>1. /\ call' = call /\ load' = load /\ settled' = settled
        /\ AtReadLoad /\ at' = 0
    BY <1>3, Progress, StepIsOfCall DEF Step, ReadLoad, loadVars, Returns, Ends, Raises
  <2>2. ASSUME settled, NEW q, One(q)
        PROVE  q = call.question /\ received[1].load = load /\ received[1].of = call.id
    <3>1. 1 \in DOMAIN received /\ received[1].question = q
      BY <1>0, <2>2 DEF One
    <3> QED BY <2>1, <2>2, <3>1
  <2>3. ASSUME settled PROVE outcome' = "True" => load.on
    <3>1. outcome' = "True" => call.question = "LOAD?" /\ get_load_status
      BY <1>3, <2>1, GoesOnFrom DEF ReadLoad, ConvertReading, Ends, Raises
    <3>2. outcome' = "True" =>
            \/ One("LOAD?") /\ received[1].load.on
            \/ One("number")
      BY <3>1 DEF get_load_status, Ends
    <3> QED BY <2>2, <2>3, <3>1, <3>2
  <2>4. ASSUME settled
        PROVE  outcome' = "ok" /\ call.question = "number" => data'[1].of = call.id
    <3>1. outcome' = "ok" /\ call.question = "number" => ConvertReading
      BY <1>3 DEF ReadLoad, Raises
    <3>2. outcome' = "ok" /\ call.question = "number" =>
            /\ data' = received
            /\ One("LOAD?") \/ One("number")
      BY <3>1 DEF ConvertReading, Raises
    <3> QED BY <2>2, <2>4, <3>2
  <2> QED BY <2>1, <2>3, <2>4
<1>4. CASE Call
  BY <1>4 DEF Call
<1>5. CASE \/ OpenMeter \/ OpenLoad \/ CloseLoad \/ CloseMeter
           \/ AskMeter \/ ReadMeter \/ Tells
  <2>1. call' = call /\ call.op # "query"
    BY <1>5, Progress, StepIsOfCall DEF Step, Tells, AtOpenLoad, AtCloseMeter
  <2> QED BY <2>1
<1>6. CASE OtherFile \/ UNCHANGED vars
  <2>1. UNCHANGED <<load, call, at, outcome, data, settled, owed, received>>
    BY <1>6 DEF OtherFile, vars, loadVars, answerVars
  <2> QED BY <2>1
<1> QED
  BY <1>1, <1>2, <1>3, <1>4, <1>5, <1>6 DEF Next, Tells

-----------------------------------------------------------------------------
(* The theorems *)

LEMMA InitInv == Init => Inv
<1> SUFFICES ASSUME Init PROVE Inv
  OBVIOUS
<1> USE DEF None
<1>1. ControlOK
  <2>1. /\ call = [id |-> 0, op |-> "connect", current |-> 0, question |-> "MODE?"]
        /\ at = 0 /\ outcome = "none" /\ calls = 0 /\ raised = {}
    BY DEF Init
  <2>2. "connect" \in DOMAIN Steps /\ Len(Steps["connect"]) = 2
    BY OpsAre, StepsOf DEF Ops
  <2>3. call \in [id : Ids \cup {0}, op : DOMAIN Steps, current : Currents \cup {0},
                  question : Questions]
    BY <2>1, <2>2 DEF Questions
  <2>4. call.op = "connect"
    BY <2>1
  <2>5. calls \in 0..MaxCalls /\ at \in 0..Len(Steps[call.op])
    BY <2>1, <2>2, <2>4, BoundsAssumption
  <2> QED BY <2>1, <2>3, <2>5 DEF ControlOK
<1>2. FilesOK
  BY DEF Init, FilesOK
<1>3. LoadOK
  BY DEF Init, LoadOK, Load
<1>4. AnswersOK
  <2>1. /\ data = <<>> /\ meter_queue = <<>> /\ owed = <<>> /\ received = <<>>
        /\ settled = FALSE
    BY DEF Init
  <2>2. <<>> \in Seq(Answer)
    OBVIOUS
  <2> QED BY <2>1, <2>2 DEF AnswersOK
<1>5. TypeOK
  BY <1>1, <1>2, <1>3, <1>4, TypeParts
<1>6. /\ at = 0 /\ call.op = "connect" /\ load.on = FALSE /\ fd = None /\ port = None
      /\ meter_queue = <<>> /\ call.id = calls
  BY DEF Init
<1> QED
  BY <1>5, <1>6
  DEF Inv, CallNumbered, PortIsPort, MeterIsMeter, MeterFirst, MeterOpenWithLoad,
      LoadOnAccounted, PointSetUp, MeterAnswersAsked, MeterAnswersExcused,
      MeterAnswersOwn, PointDataKept, DataIsOwn, BeforeAskMeter,
      LoadAnswersOwn, LoadAnswerIsOwn, AtOpenLoad, AtCloseMeter, AtReadMeter, AtReadLoad

LEMMA NextInv == Inv /\ [Next]_vars => Inv'
<1> SUFFICES ASSUME Inv, [Next]_vars PROVE Inv'
  OBVIOUS
<1>1. TypeOK /\ CallNumbered /\ FilesInv /\ LoadInv /\ MeterInv /\ QueryInv
  BY DEF Inv, FilesInv, LoadInv, MeterInv, QueryInv
<1>2. TypeOK' /\ CallNumbered'
  BY <1>1, TypeKept
<1>3. FilesInv' /\ LoadInv'
  BY <1>1, FilesInvKept, LoadInvKept
<1>4. MeterInv' /\ QueryInv'
  BY <1>1, MeterInvKept, QueryInvKept DEF FilesInv
<1> QED BY <1>2, <1>3, <1>4 DEF Inv, FilesInv, LoadInv, MeterInv, QueryInv

\* Whatever is opened, asked or raised, the engine and its instruments stay in
\* the states Inv describes.
THEOREM Invariance == Spec => []Inv
<1>1. Init => Inv
  BY InitInv
<1>2. Inv /\ [Next]_vars => Inv'
  BY NextInv
<1> QED BY <1>1, <1>2, PTL DEF Spec

\* The variables of the engine keep their types.
THEOREM TypeCorrectness == Spec => []TypeOK
<1>1. Inv => TypeOK
  BY DEF Inv
<1> QED BY <1>1, Invariance, PTL

\* Until disconnect has closed the meter, run_single_point returns what the
\* meter said in this point, and check_input_voltage judges what it said to this
\* check, unless a call that may have left its answer unread raised before; the
\* values of a point were measured with the load on, in CCH mode and at the
\* current asked for, if the load did what it was told.
THEOREM PointsMeasureTheirOwn == Spec => []DataIsOwn
<1>1. Inv => DataIsOwn
  BY DEF Inv
<1> QED BY <1>1, Invariance, PTL

\* A load that is on between two calls, and that has done what it was told, was
\* switched on by hand or by a point that raised: the only ways out of
\* run_single_point without load_off are exceptions.
THEOREM LoadOffAfterPoint == Spec => []LoadLeftOnByRaise
<1>1. Inv => LoadLeftOnByRaise
  BY DEF Inv, LoadOnAccounted, LoadLeftOnByRaise, Idle
<1> QED BY <1>1, Invariance, PTL

\* While the port of the load is open the descriptor of the meter is that of the
\* meter: connect opens the meter first and disconnect closes it last, also when
\* one of the calls in between raises.
THEOREM MeterOutlivesLoad == Spec => []MeterOpenWithLoad
<1>1. Inv => MeterOpenWithLoad
  BY DEF Inv
<1> QED BY <1>1, Invariance, PTL

\* get_load_status and the readings of the load report what the load said to
\* this query, if it was written with no earlier query unanswered.
THEOREM QueriesAnswered == Spec => []LoadAnswerIsOwn
<1>1. Inv => LoadAnswerIsOwn
  BY DEF Inv
<1> QED BY <1>1, Invariance, PTL

\* A file of the rest of the program is written or closed only by way of the
\* descriptor that WT310.disconnect closed and kept.
THEOREM NoHarmBeforeDisconnect == Spec => HarmOnlyAfterDisconnect
<1>1. Inv /\ [Next]_vars => [harmed' # harmed => released]_vars
  <2> SUFFICES ASSUME Inv, [Next]_vars, harmed' # harmed PROVE released
    OBVIOUS
  <2>1. AskMeter \/ CloseMeter
    BY TellsEffect DEF Next, Tells, vars, fileVars, NoFile, Call, OpenMeter, OpenLoad,
       CloseLoad, ReadMeter, AskLoad, LoadAnswers, ReadLoad, OtherFile
  <2>2. fd # None /\ files[fd] # "meter"
    <3>1. CASE AskMeter
      BY <3>1 DEF AskMeter, Inv, TypeOK
    <3>2. CASE CloseMeter
      BY <3>2 DEF CloseMeter, Inv, TypeOK
    <3> QED BY <2>1, <3>1, <3>2
  <2> QED BY <2>2 DEF Inv, MeterIsMeter
<1> QED BY <1>1, Invariance, PTL DEF HarmOnlyAfterDisconnect, Spec

=============================================================================
