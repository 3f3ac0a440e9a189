----------------------------- MODULE LuaService -----------------------------
(***************************************************************************)
(* What onBoot.lua promises whoever sends it a command: it takes one       *)
(* command at a time, says exactly one conclusive thing about it, chosen   *)
(* from the lines that may settle that command, and is then ready for the  *)
(* next.  LuaController implements this.                                   *)
(***************************************************************************)
EXTENDS LuaLines

CONSTANT Commands                 \* the commands a sender may write

VARIABLES phase,    \* "ready", "working" or "answered"
          job,      \* the command being worked on, or the last one
          reply     \* the conclusive reply given to it

vars == <<phase, job, reply>>

Init == phase = "ready" /\ job = NoCommand /\ reply = NoLine

Accept == /\ phase = "ready"
          /\ phase' = "working"
          /\ job' \in Commands \cup {Jumble}
          /\ reply' = NoLine

Answer == /\ phase = "working"
          /\ phase' = "answered"
          /\ reply' \in Replies(job)
          /\ UNCHANGED job

Rest == /\ phase = "answered"
        /\ phase' = "ready"
        /\ UNCHANGED <<job, reply>>

Next == Accept \/ Answer \/ Rest

\* Every command taken is answered, and the next one can then be taken.
Spec == Init /\ [][Next]_vars /\ WF_vars(Answer) /\ WF_vars(Rest)
=============================================================================
