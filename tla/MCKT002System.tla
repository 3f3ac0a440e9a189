--------------------------- MODULE MCKT002System ---------------------------
(* A charger with 5 V only and one with 5 V and 20 V. *)
EXTENDS KT002System

CONSTANTS small, big

MCChargers == {small, big}
Fixed(v) == [type |-> "FIXED", voltage |-> v]
MCCapabilities ==
  [c \in MCChargers |-> IF c = small THEN <<Fixed(5)>> ELSE <<Fixed(5), Fixed(20)>>]
MCCommands == {PD(20)}
MCApis == {"send_command_result"}
=============================================================================
