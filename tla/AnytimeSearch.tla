--------------------------- MODULE AnytimeSearch ---------------------------
(***************************************************************************)
(* What a search promises whoever waits for its bestmove, whatever its     *)
(* window, caps and aborts: it deepens one ply at a time, and it answers   *)
(* once, with the deepest iteration it completed.  A search that waits     *)
(* does not answer before it is released.  SearchDriver implements it.     *)
(***************************************************************************)
EXTENDS Naturals

CONSTANTS None, MaxDepth, Moves, Scores

VARIABLES
  best,     \* the deepest completed iteration, or None
  answer,   \* the answer, or None
  waits,    \* it must not answer before it is released
  released, \* the stop, the deadline or the node limit has come
  failed    \* the process is gone

Iterations ==
  [depth : 0 .. MaxDepth, bestmove : Moves \cup {None}, score : Scores]

vars == <<best, answer, waits, released, failed>>

Init ==
  /\ best = None /\ answer = None /\ released \in BOOLEAN /\ failed = FALSE
  /\ waits \in BOOLEAN

DepthOf(iteration) == IF iteration = None THEN 0 ELSE iteration.depth

Deepen ==
  /\ answer = None /\ ~failed
  /\ DepthOf(best) < MaxDepth
  /\ best' \in {i \in Iterations : i.depth = DepthOf(best) + 1}
  /\ UNCHANGED <<answer, waits, released, failed>>

\* Without a completed iteration the answer is at depth 0.
Answer ==
  /\ answer = None /\ ~failed /\ waits => released
  /\ answer' \in IF best = None THEN {i \in Iterations : i.depth = 0} ELSE {best}
  /\ UNCHANGED <<best, waits, released, failed>>

Release == released' \in BOOLEAN /\ UNCHANGED <<best, answer, waits, failed>>

Fail ==
  /\ answer = None /\ failed' = TRUE
  /\ UNCHANGED <<best, answer, waits, released>>

Next == Deepen \/ Answer \/ Release \/ Fail

Spec == Init /\ [][Next]_vars
=============================================================================
