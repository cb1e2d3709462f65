------------------------------ MODULE Minimax ------------------------------
(***************************************************************************)
(* What a score of the search may claim.  For a node and a depth the       *)
(* envelope [lo, hi] is the minimax value of the game, widened exactly by  *)
(* what each technique of search.rs takes for granted:                     *)
(*   - the table may answer a search with an entry of a deeper one;        *)
(*   - reverse futility: a side is worth its static score less a margin;   *)
(*   - null move: a side is worth what it has after passing;               *)
(*   - frontier futility: a quiet move gains at most a margin;             *)
(*   - late move reduction: a late quiet move that fails low in a          *)
(*     shallower search would fail low;                                    *)
(*   - quiescence: a side may stand pat, even in a stalemate, and losing   *)
(*     captures are left out.                                              *)
(* A claim that the value is at most s needs s >= lo, one that it is at    *)
(* least s needs s <= hi, an exact score both.  Scores are counted from    *)
(* the node.  The nodes of an acyclic game are numbered so that moves and  *)
(* passes lead to greater numbers.                                         *)
(***************************************************************************)
EXTENDS SearchState, TLC

CONSTANT MaxDepth       \* the deepest iteration

MaxOf(S) == CHOOSE x \in S : \A y \in S : x >= y
MinOf(S) == CHOOSE x \in S : \A y \in S : x <= y

\* The same value, seen by the other side one ply earlier.
Before(v) == IF -v > MATE_IN_MAX_PLY THEN -v - 1
             ELSE IF -v < -MATE_IN_MAX_PLY THEN -v + 1 ELSE -v

\* env holds the envelopes of the nodes after this one.
LeastOf(env, mv, d) == Before(env[mv.to][d].hi)  \* a move is worth at least this ...
MostOf(env, mv, d) == Before(env[mv.to][d].lo)   \* ... and at most this

Quiets(node) == {m \in Range(node.moves) : is_quiet(m)}
Trusted(node) == ~node.check

MoveLo(env, node, mv, d) ==
  LET r == IF is_quiet(mv) /\ Trusted(node)
           THEN late_move_reduction(d, Cardinality(Quiets(node))) ELSE 0
      searched == LeastOf(env, mv, d - 1 - r)
  IN  IF is_quiet(mv) /\ Trusted(node) /\ d <= FFP_MAX_DEPTH
      THEN Smaller(searched, node.static + frontier_futility_margin(d)) ELSE searched

\* Mate or stalemate; the techniques are tried before the moves are counted,
\* so that they apply to a stalemate as well.
Ended(node) == IF node.moves # <<>> THEN {} ELSE IF node.check THEN {-MATE} ELSE {0}

Interior(env, node, d) ==
  LET moves == Range(node.moves)
      rfp == IF Trusted(node) /\ d <= RFP_MAX_DEPTH
             THEN {node.static - reverse_futility_margin(d)} ELSE {}
      null == IF Trusted(node) /\ node.pieces /\ d >= NMP_MIN_DEPTH
              THEN {Before(env[node.pass][d - 1 - null_move_reduction(d)].lo)} ELSE {}
  IN  [lo |-> MaxOf({MoveLo(env, node, m, d) : m \in moves} \cup Ended(node)),
       hi |-> MaxOf({MostOf(env, m, d - 1) : m \in moves} \cup Ended(node) \cup rfp \cup null)]

Quiescent(env, node) ==
  LET moves == Range(node.moves)
      forced == Len(node.moves) = 1 /\ ~\E m \in moves : qsearch_move_filter(m)
      safe == {m \in moves : m.kind = "queen" \/ (m.kind = "capture" /\ m.see >= 0)}
      all == node.check \/ forced
      standing == IF node.check THEN {} ELSE {node.eval}
  IN  [lo |-> MaxOf({LeastOf(env, m, 0) : m \in IF all THEN moves ELSE safe}
                      \cup Ended(node) \cup (IF forced \/ moves = {} THEN {} ELSE standing)),
       hi |-> MaxOf({MostOf(env, m, 0) : m \in IF all THEN moves ELSE moves \ Quiets(node)}
                      \cup Ended(node) \cup standing)]

Own(env, node, d) == IF d = 0 THEN Quiescent(env, node) ELSE Interior(env, node, d)

Row(env, node) ==
  LET own == [d \in 0 .. MaxDepth |-> Own(env, node, d)]
  IN  [d \in 0 .. MaxDepth |-> [lo |-> MinOf({own[k].lo : k \in d .. MaxDepth}),
                                hi |-> MaxOf({own[k].hi : k \in d .. MaxDepth})]]

RECURSIVE Rows(_, _)
Rows(g, n) ==
  IF n > Len(g.node) THEN <<>>
  ELSE CHOOSE rows \in {(n :> Row(env, g.node[n])) @@ env : env \in {Rows(g, n + 1)}} : TRUE

Envelope == [g \in DOMAIN Games |-> IF Games[g].acyclic THEN Rows(Games[g], 1) ELSE <<>>]
=============================================================================
