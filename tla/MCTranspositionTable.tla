------------------------ MODULE MCTranspositionTable ------------------------
(***************************************************************************)
(* An instance of TranspositionTable for TLC.                              *)
(***************************************************************************)
EXTENDS TranspositionTable

\* Three positions: two share a slot in every table, and one is worth a mate.
MCKeys == {1, 2, 3}
MCTruth == [k \in MCKeys |->
              CASE k = 1 -> [mate |-> 1, in |-> 0]
                [] k = 2 -> [mate |-> 0, cp |-> 1]
                [] k = 3 -> [mate |-> -1, in |-> 1]]
\* A move of its own for each position, but no search finds one for 2.
MCBestMoves == [k \in MCKeys |-> IF k = 2 THEN {} ELSE {6 + k}]
=============================================================================
