----------------------------- MODULE MCSelfPlay -----------------------------
(***************************************************************************)
(* Instances of SelfPlay for TLC.                                          *)
(***************************************************************************)
EXTENDS SelfPlay

\* Game 0 repeats a position and overflows the per-game cap, game 1 adds
\* nothing new, and game 2 meets positions that the cap took from game 0.
MCRecords == <<<<"a", "b", "a", "c">>, <<"b">>, <<"c", "a", "d">>>>
MCDraws == <<<<0, 0, 2, 3>>, <<0>>, <<0, 0, 3>>>>

Lane == INSTANCE LaneCommit WITH
  Records <- [g \in 0 .. 2 |-> MCRecords[g + 1]],
  Draws <- [g \in 0 .. 2 |-> MCDraws[g + 1]],
  PerGameCap <- 2
MCSurvivors(g, seen) == IF g \in 0 .. 2 THEN Lane!DedupAndCap(g, seen) ELSE <<>>
=============================================================================
