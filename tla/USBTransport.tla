---------------------------- MODULE USBTransport ----------------------------
(***************************************************************************)
(* drivers/kt002/transport.py: who holds the USB interface of the KT002.   *)
(* One action per call into libusb; the KT002 may be plugged or unplugged  *)
(* between any two, and a call may raise.                                  *)
(*                                                                         *)
(* Not in src/, modelled from what the code expects of them: libusb and    *)
(* the kernel, which binds a driver of its own to a device plugged in.     *)
(*                                                                         *)
(* An operator said to be a mutant is no part of the model: it is the      *)
(* definition after it with a slip of the code, to see a property fail.    *)
(***************************************************************************)
EXTENDS Naturals

CONSTANTS MaxPlugs,      \* bound: how often a KT002 is plugged in
          MaxPackets     \* bound: packets it queues before it pauses

ASSUME BoundsAssumption == MaxPlugs \in Nat /\ MaxPackets \in Nat

\* A KT002 gets a number each time it is plugged in.
NoDevice == 0
Devices == 1..MaxPlugs

VARIABLES
  \* the USB
  present,           \* the device plugged in, or NoDevice
  kernel_driver,     \* the kernel driver is bound to its interface 0
  claim,             \* the device whose interface 0 this process has claimed
  queued,            \* packets on its bulk IN endpoint
  plugged,           \* how many have been plugged in
  packets,           \* how many packets have been queued
  \* the transport
  device, claimed, detached_kernel_driver,
  op, pc,            \* the method called last and the libusb call it makes next
  outcome,           \* how that method ended
  \* history
  had_driver,        \* the kernel driver was bound when the device came
  attach_failed      \* the device whose driver could not be bound again

usbVars == <<present, kernel_driver, claim, queued, plugged, packets>>
transportVars == <<device, claimed, detached_kernel_driver>>
historyVars == <<had_driver, attach_failed>>
vars == <<usbVars, transportVars, op, pc, outcome, historyVars>>

Opening == {"detach", "claim", "drain"}
Closing == {"release", "dispose", "attach"}
Steps == {"idle"} \cup Opening \cup Closing
Methods == {"connect", "close", "drain_input", "read", "write"}
Outcomes == {"none", "ok", "time-out", "not found", "usb error"}

TypeOK ==
  /\ present \in Devices \cup {NoDevice} /\ claim \in Devices \cup {NoDevice}
  /\ kernel_driver \in BOOLEAN
  /\ queued \in 0..MaxPackets /\ packets \in 0..MaxPackets
  /\ plugged \in 0..MaxPlugs
  /\ device \in Devices \cup {NoDevice}
  /\ claimed \in BOOLEAN /\ detached_kernel_driver \in BOOLEAN
  /\ op \in Methods /\ pc \in Steps /\ outcome \in Outcomes
  /\ had_driver \in BOOLEAN
  /\ attach_failed \in Devices \cup {NoDevice}

Init ==
  /\ present = NoDevice /\ kernel_driver = FALSE /\ claim = NoDevice
  /\ queued = 0 /\ plugged = 0 /\ packets = 0
  /\ device = NoDevice /\ claimed = FALSE /\ detached_kernel_driver = FALSE
  /\ op = "close" /\ pc = "idle" /\ outcome = "none"
  /\ had_driver = FALSE /\ attach_failed = NoDevice

connected == device # NoDevice /\ claimed

-----------------------------------------------------------------------------
(* The USB *)

NoTransport == UNCHANGED <<transportVars, op, pc, outcome, attach_failed>>

\* The kernel may have a driver for the device.
Plug ==
  /\ present = NoDevice /\ plugged < MaxPlugs
  /\ plugged' = plugged + 1 /\ present' = plugged + 1
  /\ kernel_driver' \in BOOLEAN /\ had_driver' = kernel_driver'
  /\ UNCHANGED <<claim, queued, packets>> /\ NoTransport

Unplug ==
  /\ present # NoDevice
  /\ present' = NoDevice /\ kernel_driver' = FALSE /\ claim' = NoDevice
  /\ queued' = 0
  /\ UNCHANGED <<plugged, packets, had_driver>> /\ NoTransport

QueuePacket ==
  /\ present # NoDevice /\ packets < MaxPackets
  /\ queued' = queued + 1 /\ packets' = packets + 1
  /\ UNCHANGED <<present, kernel_driver, claim, plugged, had_driver>>
  /\ NoTransport

Bus == Plug \/ Unplug \/ QueuePacket

\* A call to a device that is gone raises; any other may raise.
Reachable == device = present

-----------------------------------------------------------------------------
(* The transport *)

Calls(method) == pc = "idle" /\ op' = method
GoTo(step) == pc' = step /\ outcome' = "none"
Returns(how) == pc' = "idle" /\ outcome' = how
SameBus == UNCHANGED <<present, plugged, packets, had_driver>>

\* Mutant: connects whether or not it is connected.
FindDeviceAgain ==
  /\ Calls("connect")
  /\ \/ present # NoDevice /\ device' = present /\ GoTo("detach")
     \/ Returns("not found") /\ UNCHANGED device
  /\ UNCHANGED <<usbVars, claimed, detached_kernel_driver, historyVars>>

FindDevice ==
  /\ Calls("connect") /\ ~connected
  /\ \/ present # NoDevice /\ device' = present /\ GoTo("detach")
     \/ Returns("not found") /\ UNCHANGED device
  /\ UNCHANGED <<usbVars, claimed, detached_kernel_driver, historyVars>>

\* An open transport is left as it is.
ConnectAgain ==
  /\ Calls("connect") /\ connected
  /\ Returns("ok")
  /\ UNCHANGED <<usbVars, transportVars, historyVars>>

\* is_kernel_driver_active and detach_kernel_driver; what they raise is
\* passed over.
DetachKernelDriver ==
  /\ pc = "detach"
  /\ \/ /\ Reachable /\ kernel_driver
        /\ kernel_driver' = FALSE /\ detached_kernel_driver' = TRUE
     \/ UNCHANGED <<kernel_driver, detached_kernel_driver>>
  /\ GoTo("claim")
  /\ SameBus
  /\ UNCHANGED <<op, claim, queued, device, claimed, attach_failed>>

\* claim_interface, which needs the kernel driver gone, and clear_halt on both
\* endpoints, whose errors are passed over.  Without a claim connect closes.
ClaimInterface ==
  /\ pc = "claim"
  /\ \/ /\ Reachable /\ ~kernel_driver
        /\ claim' = device /\ claimed' = TRUE
        /\ GoTo("drain")
     \/ GoTo("release") /\ UNCHANGED <<claim, claimed>>
  /\ SameBus
  /\ UNCHANGED <<op, kernel_driver, queued, device, detached_kernel_driver,
                 attach_failed>>

drain_input ==
  /\ Calls("drain_input") /\ connected
  /\ GoTo("drain")
  /\ UNCHANGED <<usbVars, transportVars, historyVars>>

\* Mutant: takes a packet that is not there.
DrainPacketUnchecked ==
  /\ pc = "drain" /\ Reachable
  /\ queued' = queued - 1
  /\ SameBus
  /\ UNCHANGED <<op, pc, outcome, kernel_driver, claim, transportVars,
                 attach_failed>>

DrainPacket ==
  /\ pc = "drain" /\ Reachable /\ queued > 0
  /\ queued' = queued - 1
  /\ SameBus
  /\ UNCHANGED <<op, pc, outcome, kernel_driver, claim, transportVars,
                 attach_failed>>

\* Mutant: an error is taken for one more packet.
DrainTriesOn ==
  /\ pc = "drain"
  /\ Reachable /\ queued = 0 /\ Returns("ok")
  /\ UNCHANGED <<usbVars, transportVars, op, historyVars>>

\* The drain of connect raises its errors as KT002USBError, which connect does
\* not catch: it ends like the drain of a user.
DrainEnds ==
  /\ pc = "drain"
  /\ \/ Reachable /\ queued = 0 /\ Returns("ok")
     \/ Returns("usb error")
  /\ UNCHANGED <<usbVars, transportVars, op, historyVars>>

write ==
  /\ Calls("write") /\ connected
  /\ (Reachable /\ Returns("ok")) \/ Returns("usb error")
  /\ UNCHANGED <<usbVars, transportVars, historyVars>>

read ==
  /\ Calls("read") /\ connected
  /\ \/ Reachable /\ queued > 0 /\ queued' = queued - 1 /\ Returns("ok")
     \/ Reachable /\ queued = 0 /\ UNCHANGED queued /\ Returns("time-out")
     \/ UNCHANGED queued /\ Returns("usb error")
  /\ SameBus
  /\ UNCHANGED <<kernel_driver, claim, transportVars, attach_failed>>

close ==
  /\ Calls("close")
  /\ IF device = NoDevice THEN Returns("ok") ELSE GoTo("release")
  /\ UNCHANGED <<usbVars, transportVars, historyVars>>

\* release_interface, if there is a claim; what it raises is passed over.
ReleaseInterface ==
  /\ pc = "release"
  /\ (claimed /\ Reachable /\ claim' = NoDevice) \/ UNCHANGED claim
  /\ GoTo("dispose")
  /\ SameBus
  /\ UNCHANGED <<op, kernel_driver, queued, transportVars, attach_failed>>

\* Mutant: does not close the handle.
DisposeNothing ==
  /\ pc = "dispose"
  /\ GoTo("attach")
  /\ UNCHANGED <<usbVars, transportVars, op, historyVars>>

\* dispose_resources closes the handle, and with it ends any claim.
DisposeResources ==
  /\ pc = "dispose"
  /\ claim' = NoDevice
  /\ GoTo("attach")
  /\ SameBus
  /\ UNCHANGED <<op, kernel_driver, queued, transportVars, attach_failed>>

\* close has done its work, for itself or for a connect without a claim.
Closed ==
  /\ device' = NoDevice /\ claimed' = FALSE /\ detached_kernel_driver' = FALSE
  /\ Returns(IF op = "connect" THEN "usb error" ELSE "ok")

\* Mutant: the flag is cleared before it is looked at.
AttachNothing ==
  /\ pc = "attach" /\ Closed
  /\ UNCHANGED <<usbVars, op, historyVars>>

\* attach_kernel_driver, whose errors are passed over, and the reset of the
\* fields.
AttachKernelDriver ==
  /\ pc = "attach" /\ Closed
  /\ \/ /\ detached_kernel_driver /\ Reachable
        /\ kernel_driver' = TRUE /\ UNCHANGED attach_failed
     \/ /\ attach_failed' = IF detached_kernel_driver THEN device ELSE attach_failed
        /\ UNCHANGED kernel_driver
  /\ SameBus
  /\ UNCHANGED <<op, claim, queued>>

Proceeds == DetachKernelDriver \/ ClaimInterface \/ DrainPacket \/ DrainEnds
           \/ ReleaseInterface \/ DisposeResources \/ AttachKernelDriver

Transport == \/ FindDevice \/ ConnectAgain \/ drain_input \/ read \/ write \/ close
             \/ Proceeds

Next == Bus \/ Transport

\* A method that was called runs on.
Spec == Init /\ [][Next]_vars /\ WF_vars(Proceeds)

-----------------------------------------------------------------------------
(* What the transport promises *)

\* Between calls the interface is claimed only for the device the transport
\* holds, and the transport holds a device only if it has claimed it, as long
\* as that device is plugged in: neither a connect that fails, at any of its
\* calls, nor a close leaves a claim nobody knows of.
ClaimIsOurs ==
  pc = "idle" =>
    /\ claim # NoDevice => connected /\ device = claim
    /\ device # NoDevice => connected /\ (device = present => claim = device)

\* While nothing is held, the kernel has its driver of the device back, unless
\* the kernel refused to take it.
KernelDriverIsBack ==
  pc = "idle" /\ device = NoDevice /\ present # NoDevice /\ had_driver =>
    kernel_driver \/ attach_failed = present

\* A handle is given up by close and by nothing else, and the claim before it.
HandleGivenUpLast ==
  [][device # NoDevice /\ device' # device =>
       device' = NoDevice /\ claim' # device]_vars

\* Every call ends, if the device pauses.
CallsEnd == pc # "idle" ~> pc = "idle"

\* transport.py:74: connected is to "Return True when the KT002 USB interface
\* is currently claimed."
ConnectedMeansClaimed == pc = "idle" /\ connected => claim = device

\* transport.py:3: the module owns "interface claiming, endpoint I/O, input
\* draining, and resource cleanup"; a with statement whose connect raises has
\* no other one.
FailedConnectHoldsNothing ==
  pc = "idle" /\ op = "connect" /\ outcome \in {"not found", "usb error"} =>
    device = NoDevice
=============================================================================
