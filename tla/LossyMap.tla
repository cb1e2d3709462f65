------------------------------ MODULE LossyMap ------------------------------
(***************************************************************************)
(* What a search may rely on in its transposition table: a map from        *)
(* positions to results.  It may refuse a result, and forget other         *)
(* positions to take one in, but it never makes one up, and it keeps the   *)
(* best move it knows of a position when a new result for it has none.     *)
(* TranspositionTable implements it.                                       *)
(***************************************************************************)
CONSTANTS
  Keys,
  Results,        \* Results[k]: what a search may find for position k
  None, NoMove

VARIABLES
  known,    \* what a probe of each key gives: a result or None
  stored    \* the results stored for each key since the map was last cleared

vars == <<known, stored>>

Init ==
  /\ known = [k \in Keys |-> None]
  /\ stored = [k \in Keys |-> {}]

\* The result r as the map keeps it for k.
Kept(k, r) ==
  IF r.best_move = NoMove /\ known[k] # None
  THEN [r EXCEPT !.best_move = known[k].best_move] ELSE r

Store(k, r) ==
  /\ stored' = [stored EXCEPT ![k] = @ \cup {r}]
  /\ known' = [j \in Keys |-> known'[j]]
  /\ known'[k] \in {known[k], Kept(k, r)}
  /\ \A j \in Keys \ {k} : known'[j] \in {known[j], None}

Clear ==
  /\ known' = [k \in Keys |-> None]
  /\ stored' = [k \in Keys |-> {}]

Next ==
  \/ \E k \in Keys : \E r \in Results[k] : Store(k, r)
  \/ Clear

Spec == Init /\ [][Next]_vars

\* What the map gives for a position was stored for that position since the
\* last clear, and so was the move it gives with it.
NothingMadeUp ==
  \A k \in Keys :
    known[k] # None =>
      /\ \E r \in stored[k] : known[k] = [r EXCEPT !.best_move = known[k].best_move]
      /\ known[k].best_move # NoMove =>
           \E r \in stored[k] : r.best_move = known[k].best_move
=============================================================================
