------------------------- MODULE EarlierController -------------------------
(***************************************************************************)
(* The drivers before drivers/kt002: kt002_legacy_verified.py, and         *)
(* kt002_monolithic.py, the same calls on top of transport.py and          *)
(* protocol.py.  Threads share one KT002Controller and its lock; a call    *)
(* takes the first frame that comes for its answer.  One action per USB    *)
(* transfer; the libusb calls of connect and close are those USBTransport  *)
(* tells apart, and the bytes of a frame those of ShizukuFrames.           *)
(*                                                                         *)
(* Not in src/: the firmware, which answers each request in its own time,  *)
(* and the threads of the program that uses the driver.                    *)
(*                                                                         *)
(* An operator said to be a mutant is no part of the model: it is the      *)
(* definition after it with a slip of the code, to see a property fail.    *)
(***************************************************************************)
EXTENDS Naturals, Sequences

CONSTANTS Threads, Nobody,
          MaxCalls,      \* bound: calls made by all threads
          MaxReports     \* bound: frames the device sends unasked

ASSUME ThreadsAssumption == Nobody \notin Threads
ASSUME BoundsAssumption == MaxCalls \in Nat /\ MaxReports \in Nat

Ids == 1..MaxCalls
Methods == {"connect", "close", "ping", "send_command"}
Requests == {"ping", "send_command"}

\* of is the call a frame is about, or 0.
Frame == [kind : {"ack", "pong", "text", "report", "bad"}, of : Ids \cup {0}]
Plain(kind, of) == [kind |-> kind, of |-> of]

VARIABLES
  \* the controller
  lock,            \* the thread inside it
  device, claimed, \* _device is set, _claimed
  \* each thread
  pc, call, outcome,
  settled,         \* nothing was owed to another call when it wrote
  \* the KT002
  usb_in,          \* frames queued on the bulk IN endpoint
  owed,            \* frames it will send for requests it has received
  calls, reports   \* counted against the bounds

controllerVars == <<lock, device, claimed>>
threadVars == <<pc, call, outcome, settled>>
deviceVars == <<usb_in, owed>>
vars == <<controllerVars, threadVars, deviceVars, calls, reports>>

Draining == {"connect drain", "drain"}
Talking == Draining \cup {"write", "wait"}
Steps == {"idle", "lock", "body"} \cup Talking
Outcomes == {"none", "ok", "not found", "usb error", "timeout",
             "protocol error", "unexpected header"}

TypeOK ==
  /\ lock \in Threads \cup {Nobody}
  /\ device \in BOOLEAN /\ claimed \in BOOLEAN
  /\ pc \in [Threads -> Steps]
  /\ call \in [Threads -> [id : Ids \cup {0}, method : Methods]]
  /\ outcome \in [Threads -> [kind : Outcomes, of : Ids \cup {0}]]
  /\ settled \in [Threads -> BOOLEAN]
  /\ usb_in \in Seq(Frame) /\ owed \in SUBSET Frame
  /\ calls \in 0..MaxCalls /\ reports \in 0..MaxReports

Init ==
  /\ lock = Nobody /\ device = FALSE /\ claimed = FALSE
  /\ pc = [t \in Threads |-> "idle"]
  /\ call = [t \in Threads |-> [id |-> 0, method |-> "connect"]]
  /\ outcome = [t \in Threads |-> [kind |-> "none", of |-> 0]]
  /\ settled = [t \in Threads |-> FALSE]
  /\ usb_in = <<>> /\ owed = {}
  /\ calls = 0 /\ reports = 0

connected == device /\ claimed

-----------------------------------------------------------------------------
(* The KT002 *)

NoThread == UNCHANGED <<controllerVars, threadVars, calls>>

\* ACK and text report of one command come in either order.
SendOwed ==
  /\ \E f \in owed : usb_in' = Append(usb_in, f) /\ owed' = owed \ {f}
  /\ UNCHANGED reports /\ NoThread

Report ==
  /\ reports < MaxReports /\ reports' = reports + 1
  /\ \E kind \in {"report", "bad"} : usb_in' = Append(usb_in, Plain(kind, 0))
  /\ UNCHANGED owed /\ NoThread

\* What a request makes it send: the text of a command only if somebody has
\* switched text reports on.
Answers(c) ==
  IF c.method = "ping" THEN {{Plain("pong", c.id)}}
  ELSE {{Plain("ack", c.id)}, {Plain("ack", c.id), Plain("text", c.id)}}

-----------------------------------------------------------------------------
(* A thread in a method *)

Call(t, m) ==
  /\ pc[t] = "idle" /\ calls < MaxCalls
  /\ calls' = calls + 1
  /\ call' = [call EXCEPT ![t] = [id |-> calls + 1, method |-> m]]
  /\ pc' = [pc EXCEPT ![t] = "lock"]
  /\ settled' = [settled EXCEPT ![t] = FALSE]
  /\ UNCHANGED <<controllerVars, outcome, deviceVars, reports>>

\* Mutant: the method is not under the lock.
EnterAnyway(t) ==
  /\ pc[t] = "lock"
  /\ pc' = [pc EXCEPT ![t] = "body"]
  /\ UNCHANGED <<controllerVars, call, outcome, settled, deviceVars, calls,
                 reports>>

\* with self._lock, a threading.RLock.
Enter(t) ==
  /\ pc[t] = "lock" /\ lock = Nobody
  /\ lock' = t
  /\ pc' = [pc EXCEPT ![t] = "body"]
  /\ UNCHANGED <<device, claimed, call, outcome, settled, deviceVars, calls,
                 reports>>

At(t, step) == pc[t] = step /\ UNCHANGED <<call, calls, reports>>
GoesOn(t, step) ==
  pc' = [pc EXCEPT ![t] = step] /\ UNCHANGED <<lock, outcome>>

\* Mutant: an exception leaves the lock taken.
EndsHoldingLock(t, kind, of) ==
  /\ pc' = [pc EXCEPT ![t] = "idle"]
  /\ outcome' = [outcome EXCEPT ![t] = [kind |-> kind, of |-> of]]
  /\ lock' = IF kind = "ok" THEN Nobody ELSE lock

\* It returns or raises, and lets the lock go either way.
Ends(t, kind, of) ==
  /\ pc' = [pc EXCEPT ![t] = "idle"]
  /\ outcome' = [outcome EXCEPT ![t] = [kind |-> kind, of |-> of]]
  /\ lock' = Nobody

\* A claim that fails closes, under the lock it holds already.
connect(t) ==
  /\ At(t, "body") /\ call[t].method = "connect"
  /\ \/ connected /\ Ends(t, "ok", 0) /\ UNCHANGED <<device, claimed>>
     \/ ~connected /\ Ends(t, "not found", 0) /\ UNCHANGED <<device, claimed>>
     \/ ~connected /\ Ends(t, "usb error", 0) /\ device' = FALSE /\ claimed' = FALSE
     \/ ~connected /\ GoesOn(t, "connect drain") /\ device' = TRUE /\ claimed' = TRUE
  /\ UNCHANGED <<settled, deviceVars>>

\* Mutant: close does not take the lock.
CloseAnyway(t) ==
  /\ pc[t] \in {"lock", "body"} /\ At(t, pc[t]) /\ call[t].method = "close"
  /\ device' = FALSE /\ claimed' = FALSE
  /\ GoesOn(t, "idle")
  /\ UNCHANGED <<settled, deviceVars>>

close(t) ==
  /\ At(t, "body") /\ call[t].method = "close"
  /\ device' = FALSE /\ claimed' = FALSE
  /\ Ends(t, "ok", 0)
  /\ UNCHANGED <<settled, deviceVars>>

SameConnection == UNCHANGED <<device, claimed>>

\* ping and send_command start by draining.
Begin(t) ==
  /\ At(t, "body") /\ call[t].method \in Requests
  /\ IF connected THEN GoesOn(t, "drain") ELSE Ends(t, "usb error", 0)
  /\ SameConnection /\ UNCHANGED <<settled, deviceVars>>

DrainFrame(t) ==
  /\ pc[t] \in Draining /\ At(t, pc[t])
  /\ usb_in # <<>> /\ usb_in' = Tail(usb_in)
  /\ SameConnection /\ UNCHANGED <<lock, pc, outcome, settled, owed>>

\* The drain of connect raises KT002USBError, which it does not catch.
Drained(t) ==
  /\ pc[t] \in Draining /\ At(t, pc[t])
  /\ \/ usb_in = <<>> /\ (IF pc[t] = "drain" THEN GoesOn(t, "write") ELSE Ends(t, "ok", 0))
     \/ Ends(t, "usb error", 0)
  /\ SameConnection /\ UNCHANGED <<settled, deviceVars>>

\* A write that raises, or is short, may have reached the device.
Write(t) ==
  /\ At(t, "write")
  /\ \/ GoesOn(t, "wait") /\ \E answer \in Answers(call[t]) : owed' = owed \cup answer
     \/ Ends(t, "usb error", 0)
          /\ \E answer \in Answers(call[t]) \cup {{}} : owed' = owed \cup answer
  /\ settled' = [settled EXCEPT ![t] =
                   owed = {} /\ \A i \in DOMAIN usb_in : usb_in[i].of = 0]
  /\ SameConnection /\ UNCHANGED usb_in

\* One read: some frames of the queue, and of them the first, unless one is
\* damaged; the others are dropped.
Expected(method) == IF method = "ping" THEN "pong" ELSE "ack"

\* Mutant: what came is handed on for the caller to look at.
TakeUnlooked(t, chunk) ==
  IF \E i \in DOMAIN chunk : chunk[i].kind = "bad"
  THEN Ends(t, "protocol error", 0)
  ELSE Ends(t, chunk[1].kind, chunk[1].of)

TakeFirst(t, chunk) ==
  IF \E i \in DOMAIN chunk : chunk[i].kind = "bad"
  THEN Ends(t, "protocol error", 0)
  ELSE IF chunk[1].kind = Expected(call[t].method)
       THEN Ends(t, "ok", chunk[1].of)
       ELSE Ends(t, "unexpected header", chunk[1].of)

Read(t) ==
  /\ At(t, "wait")
  /\ \E n \in 1..Len(usb_in) :
       /\ TakeFirst(t, SubSeq(usb_in, 1, n))
       /\ usb_in' = SubSeq(usb_in, n + 1, Len(usb_in))
  /\ SameConnection /\ UNCHANGED <<settled, owed>>

GiveUp(t) ==
  /\ At(t, "wait")
  /\ Ends(t, "timeout", 0) \/ Ends(t, "usb error", 0)
  /\ SameConnection /\ UNCHANGED <<settled, deviceVars>>

-----------------------------------------------------------------------------
Body(t) == connect(t) \/ close(t) \/ Begin(t) \/ DrainFrame(t) \/ Drained(t)
             \/ Write(t) \/ Read(t) \/ GiveUp(t)

Next == \/ \E t \in Threads : (\E m \in Methods : Call(t, m)) \/ Enter(t) \/ Body(t)
        \/ SendOwed \/ Report

\* A thread in a method runs on, each USB transfer and each wait being limited,
\* and one that waits for the lock gets it if it stays free.  An RLock is not
\* fair: nothing is assumed where others keep taking it.
Spec == /\ Init /\ [][Next]_vars
        /\ \A t \in Threads : WF_vars(Enter(t)) /\ WF_vars(Body(t))

-----------------------------------------------------------------------------
(* What the lock and the wait promise *)

\* While a thread talks to the KT002 nobody takes the device from it: a close
\* waits for the call in progress.
DeviceWhileTalking == \A t \in Threads : pc[t] \in Talking => connected

\* If nothing was owed to another call when it wrote, an ACK that is returned
\* is that of this very call, whatever the other threads do; and a frame
\* refused as unexpected is about this call or one nobody asked for.
FirstFrameIsOwn ==
  \A t \in Threads :
    pc[t] = "idle" /\ settled[t] =>
      /\ outcome[t].kind = "ok" => outcome[t].of = call[t].id
      /\ outcome[t].kind = "unexpected header" => outcome[t].of \in {0, call[t].id}

\* Every call gets the lock and ends, whatever becomes of the others.
CallsReturn == \A t \in Threads : pc[t] # "idle" ~> pc[t] = "idle"
=============================================================================
