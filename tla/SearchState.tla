----------------------------- MODULE SearchState -----------------------------
(***************************************************************************)
(* What AlphaBetaMover keeps between the calls of its recursion: the       *)
(* position and the history of keys, the triangular PV, the killer and     *)
(* history tables, the transposition table, the node count and the abort   *)
(* flag; and the pieces of negamax and qsearch that read or write one of   *)
(* them (search.rs, search/ordering.rs, history.rs).                       *)
(*                                                                         *)
(* The recursion is written as recursive operators that take a state st    *)
(* and return [score, st].  Chess itself is a game graph: what a search    *)
(* sees of a position is the side to move, its evaluation (evaluate) and    *)
(* the running one without the terms that only evaluate adds (static),     *)
(* whether it is in check, whether it has pieces for the null move, and    *)
(* its moves in the order of the generator.  A node of the graph stands for a Zobrist   *)
(* key; the halfmove clock is kept beside it, as in Position.              *)
(***************************************************************************)
EXTENDS SearchParams, Sequences, SequencesExt, FiniteSets

CONSTANTS
  Games,       \* the game graphs of this instance
  Slots        \* entries of the transposition table

NoMove == 0
\* A move has an id, a from-to pair, a kind (quiet, capture, queen, rook or
\* bishop: the last three are promotions), its MVV-LVA value, what static
\* exchange says of it, whether it zeroes the clock, and where it leads.
is_quiet(mv) == mv.kind = "quiet"
qsearch_move_filter(mv) == mv.kind \in {"capture", "queen"}

Graph(st) == Games[st.game]
NodeOf(st) == Graph(st).node[st.pos.node]
MovesOf(st) == NodeOf(st).moves
Ids(moves) == [i \in 1 .. Len(moves) |-> moves[i].id]
PairsOf(g) == UNION {{m.at : m \in Range(g.node[n].moves)} : n \in DOMAIN g.node}

-----------------------------------------------------------------------------
\* Making and unmaking: the position and the history of keys move together.
Descend(st, pos) == [st EXCEPT !.pos = pos, !.history = Append(@, pos.node)]

\* Mutant: an abort returns before the key is popped.
AscendUnlessAborted(st, pos) ==
  IF st.aborted THEN st ELSE [st EXCEPT !.pos = pos, !.history = Front(@)]
Ascend(st, pos) == [st EXCEPT !.pos = pos, !.history = Front(@)]

Made(pos, mv) ==
  [node |-> mv.to, clock |-> IF mv.zeroes THEN 0 ELSE pos.clock + 1]
Passed(st) == [node |-> NodeOf(st).pass, clock |-> st.pos.clock + 1]

is_fifty_move_draw(clock) == clock >= 100
is_repetition(history, clock) ==
  LET n == Len(history)
  IN  \E i \in 2 .. Smaller(clock, n - 1) : i % 2 = 0 /\ history[n - i] = history[n]

\* Another node is counted.  The clock, the node limit and the stop flag are
\* read every 4096 nodes; here the abort may come at any node.
Poll(st) ==
  [st EXCEPT !.nodes = @ + 1, !.aborted = @ \/ st.nodes + 1 = st.abort_at]

-----------------------------------------------------------------------------
\* PvTable.  Mutant: the row keeps what an earlier node of this ply left.
keep_ply(st, ply) == st
clear_ply(st, ply) == [st EXCEPT !.pv[ply] = <<>>]
pv_update(st, ply, mv) == [st EXCEPT !.pv[ply] = <<mv.id>> \o st.pv[ply + 1]]

NoKillers == [p \in 0 .. MAX_PLY - 1 |-> <<NoMove, NoMove>>]
NoLines == [p \in 0 .. MAX_PLY |-> <<>>]

update_killers(st, ply, mv) ==
  IF st.killers[ply][1] = mv.id THEN st
  ELSE [st EXCEPT !.killers[ply] = <<mv.id, @[1]>>]

\* HistoryTable::update, and its use at a quiet cutoff: a bonus for the move
\* that cut, a malus for the quiet moves searched before it.
Bonus(table, side, at, bonus) ==
  [table EXCEPT ![side, at] = Clamp(@ + bonus, -MAX_HISTORY, MAX_HISTORY)]
RECURSIVE Malus(_, _, _, _)
Malus(table, side, quiets, malus) ==
  IF quiets = <<>> THEN table
  ELSE Malus(Bonus(table, side, Head(quiets).at, -malus), side, Tail(quiets), malus)
update_history_on_quiet_cutoff(st, mv, quiets, depth) ==
  LET side == NodeOf(st).side
  IN  [st EXCEPT !.table = Malus(Bonus(@, side, mv.at, depth * depth), side,
                                 quiets, depth * depth)]

-----------------------------------------------------------------------------
\* The transposition table, as TranspositionTable has it, without the packing
\* of an entry: a slot holds one key, a mate is counted from the position.
score_to_tt(score, ply) ==
  IF score > MATE_IN_MAX_PLY THEN score + ply
  ELSE IF score < -MATE_IN_MAX_PLY THEN score - ply ELSE score
score_from_tt(score, ply) ==
  IF score > MATE_IN_MAX_PLY THEN score - ply
  ELSE IF score < -MATE_IN_MAX_PLY THEN score + ply ELSE score

NoEntry ==
  [key |-> 0, age |-> 0, best_move |-> NoMove, depth |-> -1, bound |-> Exact, score |-> 0]
EmptyTable == [i \in 0 .. Slots - 1 |-> NoEntry]
SlotOf(key) == key % Slots

\* probe, with the score counted from the root of the search.
Probe(st, ply) ==
  LET e == st.tt[SlotOf(st.pos.node)]
  IN  IF e.key # st.pos.node THEN NoEntry
      ELSE [e EXCEPT !.score = score_from_tt(@, ply)]

\* store: an entry gives way when it is empty, old, or not deeper; the move
\* it knew for the same position stays if the new one knows none.
MayStore(st) == ~st.aborted

Store(st, ply, score, depth, bound, best_move) ==
  LET key == st.pos.node
      old == st.tt[SlotOf(key)]
      replaces == old = NoEntry \/ old.age # st.generation \/ old.depth <= depth
      kept == IF best_move = NoMove /\ old.key = key THEN old.best_move ELSE best_move
  IN  IF MayStore(st) /\ replaces
      THEN [st EXCEPT !.tt[SlotOf(key)] =
              [key |-> key, age |-> st.generation, best_move |-> kept, depth |-> depth,
               bound |-> bound, score |-> score_to_tt(score, ply)]]
      ELSE st

\* Whether an entry answers a search between alpha and beta.
Answers(e, alpha, beta) ==
  \/ e.bound = Exact
  \/ e.bound = Lower /\ e.score >= beta
  \/ e.bound = Upper /\ e.score <= alpha

-----------------------------------------------------------------------------
\* MoveStager::new: a stable sort, best first, then the table's move in front.
Sorted(moves, Rank(_)) ==
  LET before(i, j) == \/ Rank(moves[i]) > Rank(moves[j])
                      \/ Rank(moves[i]) = Rank(moves[j]) /\ i < j
      place == [i \in 1 .. Len(moves) |->
                  Cardinality({j \in 1 .. Len(moves) : j = i \/ before(j, i)})]
  IN  [k \in 1 .. Len(moves) |-> moves[CHOOSE i \in 1 .. Len(moves) : place[i] = k]]

InFront(moves, id) ==
  SelectSeq(moves, LAMBDA m : m.id = id) \o SelectSeq(moves, LAMBDA m : m.id # id)

\* The tiers of negamax_move_order_score: captures and promotions, the two
\* killers, the other quiet moves by their history.
CAPTURE_OFFSET == 1000000
KILLER0_SCORE == 100001
KILLER1_SCORE == 100000
negamax_move_order_score(st, ply, mv) ==
  IF ~is_quiet(mv) THEN mv.value + CAPTURE_OFFSET
  ELSE IF mv.id = st.killers[ply][1] THEN KILLER0_SCORE
  ELSE IF mv.id = st.killers[ply][2] THEN KILLER1_SCORE
  ELSE st.table[NodeOf(st).side, mv.at]

MoveStager(st, ply, tt_move) ==
  LET allowed == IF ply = 0 /\ st.searchmoves # {} THEN st.searchmoves
                 ELSE Range(Ids(MovesOf(st)))
      moves == SelectSeq(MovesOf(st), LAMBDA m : m.id \in allowed)
  IN  InFront(Sorted(moves, LAMBDA m : negamax_move_order_score(st, ply, m)), tt_move)

-----------------------------------------------------------------------------
\* Mate-distance pruning: nothing is better than mating now, or worse than
\* being mated now.
MateDistance(w, ply) ==
  [w EXCEPT !.alpha = Larger(@, -(MATE - ply)), !.beta = Smaller(@, MATE - ply)]
\* w is the window of the call.  Either bound settles the node if it meets the
\* other side of the window; a window that was empty before is not looked at.
MateSettles(w, ply) ==
  \/ MATE - ply < w.beta /\ w.alpha >= MATE - ply
  \/ -(MATE - ply) > w.alpha /\ w.beta <= -(MATE - ply)
MateBound(w, ply) == IF w.beta <= -(MATE - ply) THEN -(MATE - ply) ELSE MATE - ply

Mated(ply) == -(MATE - ply)
Return(score, st) == [score |-> IF st.aborted THEN 0 ELSE score, st |-> st]
=============================================================================
