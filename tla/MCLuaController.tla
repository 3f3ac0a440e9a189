-------------------------- MODULE MCLuaController --------------------------
(* Three chargers: one with 5 V only, one with 5 V, a PPS range and 20 V, and *)
(* one that never advertises anything.                                     *)
EXTENDS LuaController

CONSTANTS small, big, mute

MCChargers == {small, big, mute}
MCChargersToSwap == {small, big}
Fixed(v) == [type |-> "FIXED", voltage |-> v]
MCCapabilitiesOf(set) ==
  [c \in set |->
     CASE c = small -> <<Fixed(5)>>
       [] c = big -> <<Fixed(5), [type |-> "AUGMENTED", voltage |-> 20], Fixed(20)>>
       [] c = mute -> <<>>]
MCCapabilities == MCCapabilitiesOf(MCChargers)
MCCapabilitiesToSwap == MCCapabilitiesOf(MCChargersToSwap)

MCCommands == {PD(5), PD(20), Ping}
=============================================================================
