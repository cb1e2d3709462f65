---------------------------- MODULE UciProtocol ----------------------------
(***************************************************************************)
(* What a GUI may rely on when it drives the engine, as a machine with one *)
(* search slot.  UciEngine is shown to implement it.                       *)
(***************************************************************************)
EXTENDS Naturals, Sequences

VARIABLES
  running,  \* the search under way, 0 if there is none
  mustEnd,  \* it will end without being told to: bounded, or told already
  asked,    \* number of searches asked for
  out,      \* the lines of searches, oldest first
  over      \* the process has ended

vars == <<running, mustEnd, asked, out, over>>

Init == running = 0 /\ mustEnd = FALSE /\ asked = 0 /\ out = <<>> /\ over = FALSE

\* A go is accepted only when the one before it has been answered.
Accept ==
  /\ running = 0 /\ ~over
  /\ asked' = asked + 1 /\ running' = asked + 1
  /\ mustEnd' \in BOOLEAN
  /\ UNCHANGED <<out, over>>

Inform ==
  /\ running # 0
  /\ out' = Append(out, [line |-> "info", go |-> running])
  /\ UNCHANGED <<running, mustEnd, asked, over>>

Cancel ==
  /\ running # 0 /\ mustEnd' = TRUE
  /\ UNCHANGED <<running, asked, out, over>>

Answer ==
  /\ running # 0
  /\ out' = Append(out, [line |-> "bestmove", go |-> running])
  /\ running' = 0 /\ mustEnd' = FALSE
  /\ UNCHANGED <<asked, over>>

End ==
  /\ running = 0 /\ over' = TRUE
  /\ UNCHANGED <<running, mustEnd, asked, out>>

Next == Accept \/ Inform \/ Cancel \/ Answer \/ End

Safety == Init /\ [][Next]_vars
Spec == Safety /\ WF_vars(mustEnd /\ Answer)
=============================================================================
