---------------------------- MODULE FrameService ----------------------------
(***************************************************************************)
(* What controller.py builds its calls on: of the frames the KT002 sends,  *)
(* a call loses those that began before its drain and is then given the    *)
(* others one at a time, in the order they were sent, none left out and    *)
(* none twice, until it ends.  How many bytes a USB read brings, and what  *)
(* stands between the frames, makes no difference.                         *)
(* ShizukuFrames implements this.                                          *)
(***************************************************************************)
EXTENDS Integers, Sequences, SequencesExt

VARIABLES sent,      \* the frames the device sends, each with its place
          drained,   \* the frames that begin up to here are lost to the call
          taken,     \* the frames the call has been given
          calling

vars == <<sent, drained, taken, calling>>

Init == drained = 0 /\ taken = <<>> /\ calling = FALSE

Start == /\ ~calling /\ calling' = TRUE
         /\ drained' \in Nat /\ drained' >= drained
         /\ taken' = <<>>
         /\ UNCHANGED sent

Owed == {f \in sent : f.at > drained /\ f \notin ToSet(taken)}

\* A frame may be the one the call waited for, or the one it raises for.
Give == /\ calling
        /\ \E f \in Owed : /\ \A g \in Owed : f.at <= g.at
                           /\ taken' = Append(taken, f)
        /\ calling' \in BOOLEAN
        /\ UNCHANGED <<sent, drained>>

\* The deadline passes, or a damaged frame raises.
End == /\ calling /\ calling' = FALSE
       /\ UNCHANGED <<sent, drained, taken>>

Next == Start \/ Give \/ End

Spec == Init /\ [][Next]_vars
=============================================================================
