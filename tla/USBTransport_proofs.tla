------------------------- MODULE USBTransport_proofs -------------------------
(* What the transport promises, for any number of plugs and packets. *)
EXTENDS USBTransport, TLAPS

-----------------------------------------------------------------------------
(* The inductive invariant *)

\* A device plugged in later has a higher number than any the transport or the
\* kernel still remembers, so what is true of an old device stays true.
NumbersInOrder ==
  /\ present <= plugged /\ device <= plugged /\ attach_failed <= plugged
  /\ queued <= packets

\* The kernel drops a claim with its device.
ClaimIsPresent == claim # NoDevice => claim = present

\* Who holds what at each call of connect, drain_input and close.
Holding ==
  /\ pc # "idle" => device # NoDevice
  /\ device = NoDevice => ~claimed
  /\ pc \in {"detach", "claim", "attach"} => claim = NoDevice
  /\ pc \in {"detach", "claim"} => ~claimed
  /\ pc \in {"drain", "release", "dispose"} =>
       (claim # NoDevice => claimed /\ claim = device)
  /\ pc = "drain" => claimed /\ (device = present => claim = device)

\* The driver the transport took from the kernel is the one it will give back.
DriverAccounted ==
  /\ present # NoDevice /\ had_driver =>
       kernel_driver \/ attach_failed = present
         \/ (device = present /\ detached_kernel_driver)
  /\ device = NoDevice => ~detached_kernel_driver
  /\ device # NoDevice /\ present # NoDevice /\ device # present =>
       attach_failed # present

IInv == /\ TypeOK /\ NumbersInOrder /\ ClaimIsPresent /\ Holding
        /\ ClaimIsOurs /\ DriverAccounted

-----------------------------------------------------------------------------

LEMMA InitInv == Init => IInv
<1> SUFFICES ASSUME Init PROVE IInv
  OBVIOUS
<1>1. TypeOK
  <2>1. 0 \in 0..MaxPlugs /\ 0 \in 0..MaxPackets
    BY BoundsAssumption
  <2> QED
    BY <2>1 DEF Init, TypeOK, Methods, Steps, Outcomes
<1>2. NumbersInOrder
  BY DEF Init, NumbersInOrder, NoDevice
<1>3. ClaimIsPresent /\ Holding /\ ClaimIsOurs /\ DriverAccounted
  BY DEF Init, ClaimIsPresent, Holding, ClaimIsOurs, DriverAccounted
<1> QED
  BY <1>1, <1>2, <1>3 DEF IInv

\* The numbers, without the sets they come from.
LEMMA AllNatural ==
  ASSUME TypeOK
  PROVE  /\ present \in Nat /\ device \in Nat /\ claim \in Nat
         /\ attach_failed \in Nat /\ plugged \in Nat /\ plugged <= MaxPlugs
         /\ queued \in Nat /\ queued <= MaxPackets
         /\ packets \in Nat /\ packets <= MaxPackets
<1>1. \A d \in Devices \cup {NoDevice} : d \in Nat
  BY BoundsAssumption DEF Devices, NoDevice
<1>2. plugged \in 0..MaxPlugs /\ queued \in 0..MaxPackets /\ packets \in 0..MaxPackets
  BY DEF TypeOK
<1>3. /\ plugged \in Nat /\ plugged <= MaxPlugs
      /\ queued \in Nat /\ queued <= MaxPackets
      /\ packets \in Nat /\ packets <= MaxPackets
  BY <1>2, BoundsAssumption
<1> QED
  BY <1>1, <1>3 DEF TypeOK

-----------------------------------------------------------------------------
(* The bus: plugging gives a number nothing else has; unplugging takes the   *)
(* claim along.                                                              *)

LEMMA PlugKeeps == IInv /\ Plug => IInv'
<1> SUFFICES ASSUME IInv, Plug PROVE IInv'
  OBVIOUS
<1>n. /\ TypeOK /\ NumbersInOrder /\ ClaimIsPresent /\ Holding /\ ClaimIsOurs
      /\ DriverAccounted
  BY DEF IInv
<1>p. /\ present = NoDevice /\ plugged < MaxPlugs
      /\ plugged' = plugged + 1 /\ present' = plugged + 1
      /\ kernel_driver' \in BOOLEAN /\ had_driver' = kernel_driver'
      /\ claim' = claim /\ queued' = queued /\ packets' = packets
      /\ device' = device /\ claimed' = claimed
      /\ detached_kernel_driver' = detached_kernel_driver
      /\ op' = op /\ pc' = pc /\ outcome' = outcome
      /\ attach_failed' = attach_failed
  BY DEF Plug, NoTransport, transportVars
<1>1. /\ plugged + 1 \in 1..MaxPlugs /\ plugged + 1 \in 0..MaxPlugs
      /\ plugged + 1 # device /\ plugged + 1 # NoDevice
      /\ plugged + 1 # attach_failed
  BY <1>n, <1>p, AllNatural, BoundsAssumption DEF NumbersInOrder, NoDevice
<1>2. TypeOK'
  BY <1>n, <1>p, <1>1 DEF TypeOK, Devices
<1>3. NumbersInOrder'
  BY <1>n, <1>p, AllNatural DEF NumbersInOrder
<1>4. claim = NoDevice
  BY <1>n, <1>p DEF ClaimIsPresent
<1>5. ClaimIsPresent' /\ Holding' /\ ClaimIsOurs' /\ DriverAccounted'
  BY <1>n, <1>p, <1>1, <1>4 DEF ClaimIsPresent, Holding, ClaimIsOurs,
     DriverAccounted, connected
<1> QED
  BY <1>2, <1>3, <1>5 DEF IInv

LEMMA UnplugKeeps == IInv /\ Unplug => IInv'
<1> SUFFICES ASSUME IInv, Unplug PROVE IInv'
  OBVIOUS
<1> USE DEF IInv, Unplug, NoTransport, transportVars
<1>1. TypeOK'
  <2>1. 0 \in 0..MaxPackets
    BY BoundsAssumption
  <2> QED
    BY <2>1 DEF TypeOK
<1>2. NumbersInOrder'
  <2>1. 0 <= plugged /\ 0 <= packets
    BY AllNatural
  <2> QED
    BY <2>1 DEF NumbersInOrder, NoDevice
<1>3. ClaimIsPresent' /\ Holding' /\ ClaimIsOurs' /\ DriverAccounted'
  BY DEF ClaimIsPresent, Holding, ClaimIsOurs, DriverAccounted, connected
<1> QED
  BY <1>1, <1>2, <1>3

LEMMA QueueKeeps == IInv /\ QueuePacket => IInv'
<1> SUFFICES ASSUME IInv, QueuePacket PROVE IInv'
  OBVIOUS
<1> USE DEF IInv, QueuePacket, NoTransport, transportVars
<1>1. /\ queued + 1 \in 0..MaxPackets /\ packets + 1 \in 0..MaxPackets
      /\ queued + 1 <= packets + 1
  BY AllNatural, BoundsAssumption DEF NumbersInOrder
<1>2. TypeOK'
  BY <1>1 DEF TypeOK
<1>3. NumbersInOrder'
  BY <1>1 DEF NumbersInOrder
<1>4. ClaimIsPresent' /\ Holding' /\ ClaimIsOurs' /\ DriverAccounted'
  BY DEF ClaimIsPresent, Holding, ClaimIsOurs, DriverAccounted, connected
<1> QED
  BY <1>2, <1>3, <1>4

-----------------------------------------------------------------------------
(* The methods: Holding hands the claim on from call to call.                *)

\* Nothing a method writes leaves its type.
LEMMA TransportTypes == IInv /\ Transport => TypeOK'
<1> SUFFICES ASSUME IInv, Transport PROVE TypeOK'
  OBVIOUS
<1>t. TypeOK
  BY DEF IInv
<1>q. queued \in 0..MaxPackets /\ (queued > 0 => queued - 1 \in 0..MaxPackets)
  BY <1>t, AllNatural, BoundsAssumption
<1> USE DEF Transport, Proceeds, FindDevice, ConnectAgain, drain_input, read, write,
            close, DetachKernelDriver, ClaimInterface, DrainPacket, DrainEnds,
            ReleaseInterface, DisposeResources, AttachKernelDriver, Closed,
            Calls, GoTo, Returns, SameBus, usbVars, transportVars, historyVars
<1>1. /\ present' = present /\ plugged' = plugged /\ packets' = packets
      /\ had_driver' = had_driver
  OBVIOUS
<1>2. queued' \in 0..MaxPackets
  <2>1. queued' = queued \/ (queued > 0 /\ queued' = queued - 1)
    OBVIOUS
  <2> QED
    BY <1>q, <2>1
<1>3. /\ device' \in {device, present, NoDevice}
      /\ claim' \in {claim, device, NoDevice}
      /\ attach_failed' \in {attach_failed, device}
  OBVIOUS
<1>4. claimed' \in BOOLEAN /\ detached_kernel_driver' \in BOOLEAN
  BY <1>t DEF TypeOK
<1>5. kernel_driver' \in BOOLEAN
  BY <1>t DEF TypeOK
<1>6. op' \in Methods
  BY <1>t DEF TypeOK, Methods
<1>7. pc' \in Steps
  BY <1>t DEF TypeOK, Steps, Opening, Closing
<1>8. outcome' \in Outcomes
  BY <1>t DEF TypeOK, Outcomes
<1> QED
  BY <1>1, <1>2, <1>3, <1>4, <1>5, <1>6, <1>7, <1>8, <1>t DEF TypeOK

LEMMA TransportOrder == IInv /\ Transport => NumbersInOrder'
<1> SUFFICES ASSUME IInv, Transport PROVE NumbersInOrder'
  OBVIOUS
<1>t. TypeOK /\ NumbersInOrder
  BY DEF IInv
<1>q. NoDevice <= plugged /\ queued - 1 <= packets
  BY <1>t, AllNatural DEF NoDevice, NumbersInOrder
<1> USE DEF NumbersInOrder, SameBus, usbVars, transportVars, historyVars
<1>1. CASE FindDevice \/ ConnectAgain \/ drain_input \/ close \/ write
  BY <1>1, <1>t DEF FindDevice, ConnectAgain, drain_input, close, write
<1>2. CASE read \/ DrainPacket \/ DrainEnds
  BY <1>2, <1>t, <1>q DEF read, DrainPacket, DrainEnds
<1>3. CASE DetachKernelDriver \/ ClaimInterface \/ ReleaseInterface \/ DisposeResources
  BY <1>3, <1>t DEF DetachKernelDriver, ClaimInterface, ReleaseInterface,
     DisposeResources
<1>4. CASE AttachKernelDriver
  BY <1>4, <1>t, <1>q DEF AttachKernelDriver, Closed
<1> QED
  BY <1>1, <1>2, <1>3, <1>4 DEF Transport, Proceeds

LEMMA TransportHolds ==
  IInv /\ Transport => (ClaimIsPresent /\ Holding /\ ClaimIsOurs /\ DriverAccounted)'
<1> SUFFICES ASSUME IInv, Transport
             PROVE  (ClaimIsPresent /\ Holding /\ ClaimIsOurs /\ DriverAccounted)'
  OBVIOUS
<1>i. ClaimIsPresent /\ Holding /\ ClaimIsOurs /\ DriverAccounted
  BY DEF IInv
<1> USE DEF ClaimIsPresent, Holding, ClaimIsOurs, DriverAccounted, Calls, GoTo,
            Returns, SameBus, Reachable, connected, usbVars, transportVars,
            historyVars
<1>1. CASE FindDevice
  <2>1. pc = "idle" /\ device = NoDevice /\ claim = NoDevice /\ ~detached_kernel_driver
    BY <1>1, <1>i DEF FindDevice
  <2>2. ~claimed /\ claimed' = claimed
    BY <1>1, <1>i DEF FindDevice
  <2>3. CASE pc' = "detach"
    <3>1. present # NoDevice /\ device' = present
      BY <1>1, <2>3 DEF FindDevice
    <3> QED
      BY <1>1, <1>i, <2>1, <2>2, <2>3, <3>1 DEF FindDevice
  <2>4. CASE pc' = "idle"
    <3>1. /\ UNCHANGED <<present, kernel_driver, claim, had_driver>>
          /\ UNCHANGED <<device, claimed, detached_kernel_driver, attach_failed>>
      BY <1>1, <2>4 DEF FindDevice
    <3> QED
      BY <1>i, <2>1, <2>4, <3>1
  <2> QED
    BY <1>1, <2>3, <2>4 DEF FindDevice
<1>2. CASE ConnectAgain \/ drain_input \/ close \/ write
  <2>1. CASE ConnectAgain \/ write
    <3>1. /\ pc' = pc /\ UNCHANGED <<present, kernel_driver, claim, had_driver>>
          /\ UNCHANGED <<device, claimed, detached_kernel_driver, attach_failed>>
      BY <2>1 DEF ConnectAgain, write
    <3> QED
      BY <3>1, <1>i
  <2>2. CASE drain_input
    BY <2>2, <1>i DEF drain_input
  <2>3. CASE close
    BY <2>3, <1>i DEF close
  <2> QED
    BY <1>2, <2>1, <2>2, <2>3
<1>3. CASE read
  BY <1>3, <1>i DEF read
<1>4. CASE DetachKernelDriver
  BY <1>4, <1>i DEF DetachKernelDriver
<1>5. CASE ClaimInterface
  BY <1>5, <1>i DEF ClaimInterface
<1>6. CASE DrainPacket
  BY <1>6, <1>i DEF DrainPacket
<1>e. CASE DrainEnds
  <2>1. /\ pc = "drain" /\ pc' = "idle"
        /\ UNCHANGED <<present, kernel_driver, claim, had_driver>>
        /\ UNCHANGED <<device, claimed, detached_kernel_driver, attach_failed>>
    BY <1>e DEF DrainEnds
  <2> QED
    BY <2>1, <1>i
<1>7. CASE ReleaseInterface
  BY <1>7, <1>i DEF ReleaseInterface
<1>8. CASE DisposeResources
  BY <1>8, <1>i DEF DisposeResources
<1>9. CASE AttachKernelDriver
  BY <1>9, <1>i DEF AttachKernelDriver, Closed
<1> QED
  BY <1>1, <1>2, <1>3, <1>4, <1>5, <1>6, <1>e, <1>7, <1>8, <1>9
     DEF Transport, Proceeds

LEMMA NextInv == IInv /\ [Next]_vars => IInv'
<1> SUFFICES ASSUME IInv, [Next]_vars PROVE IInv'
  OBVIOUS
<1>1. CASE Bus
  BY <1>1, PlugKeeps, UnplugKeeps, QueueKeeps DEF Bus
<1>2. CASE Transport
  BY <1>2, TransportTypes, TransportOrder, TransportHolds DEF IInv
<1>3. CASE UNCHANGED vars
  <2>1. TypeOK'
    BY <1>3 DEF IInv, TypeOK, vars, usbVars, transportVars, historyVars
  <2>2. (NumbersInOrder /\ ClaimIsPresent /\ Holding)'
    BY <1>3 DEF IInv, NumbersInOrder, ClaimIsPresent, Holding, vars, usbVars,
       transportVars, historyVars
  <2>3. (ClaimIsOurs /\ DriverAccounted)'
    BY <1>3 DEF IInv, ClaimIsOurs, DriverAccounted, connected, vars, usbVars,
       transportVars, historyVars
  <2> QED
    BY <2>1, <2>2, <2>3 DEF IInv
<1> QED
  BY <1>1, <1>2, <1>3 DEF Next

LEMMA Invariance == Spec => []IInv
BY InitInv, NextInv, PTL DEF Spec

-----------------------------------------------------------------------------
(* The theorems *)

\* The fields of the transport and of the USB keep their types.
THEOREM TypeCorrect == Spec => []TypeOK
<1>1. IInv => TypeOK
  BY DEF IInv
<1> QED
  BY <1>1, Invariance, PTL

\* No connect that fails and no close leaves a claim the transport has lost
\* sight of, wherever the device is pulled out and whatever call raises.
THEOREM ClaimCorrect == Spec => []ClaimIsOurs
<1>1. IInv => ClaimIsOurs
  BY DEF IInv
<1> QED
  BY <1>1, Invariance, PTL

\* A kernel driver that was detached is bound again once the transport holds
\* nothing, unless the kernel refused.
THEOREM KernelDriverCorrect == Spec => []KernelDriverIsBack
<1>1. IInv => KernelDriverIsBack
  BY DEF IInv, DriverAccounted, KernelDriverIsBack, NoDevice
<1> QED
  BY <1>1, Invariance, PTL

\* A handle is given up only when its claim is gone, and never replaced.
THEOREM HandleCorrect == Spec => HandleGivenUpLast
<1> DEFINE Good == device # NoDevice /\ device' # device =>
                     device' = NoDevice /\ claim' # device
<1>1. ASSUME IInv, Next PROVE Good
  <2> USE DEF IInv, TypeOK, Devices, NoDevice
  <2>1. CASE FindDevice
    BY <1>1, <2>1 DEF FindDevice, Calls, ClaimIsOurs
  <2>2. CASE AttachKernelDriver
    BY <1>1, <2>2 DEF AttachKernelDriver, Closed, Holding
  <2>3. CASE ~FindDevice /\ ~AttachKernelDriver
    BY <1>1, <2>3 DEF Next, Bus, Transport, Proceeds, Plug, Unplug, QueuePacket,
       NoTransport, ConnectAgain, DetachKernelDriver, ClaimInterface,
       drain_input, DrainPacket, DrainEnds, write, read, close, ReleaseInterface,
       DisposeResources, transportVars
  <2> QED
    BY <2>1, <2>2, <2>3
<1>2. ASSUME IInv, [Next]_vars PROVE [Good]_vars
  BY <1>1, <1>2
<1> QED
  BY <1>2, Invariance, PTL DEF Spec, HandleGivenUpLast
=============================================================================
