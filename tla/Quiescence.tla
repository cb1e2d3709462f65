----------------------------- MODULE Quiescence -----------------------------
(***************************************************************************)
(* qsearch (search.rs): the search of captures and queen promotions below  *)
(* the horizon, or of every move when in check.  It consults and fills the *)
(* transposition table whatever the depth of the entry, extends a forced   *)
(* quiet move, and tries the rook and the bishop where a new queen would   *)
(* stalemate.                                                              *)
(***************************************************************************)
EXTENDS SearchState

\* qsearch_see_pruneable: the exchange loses more than this iteration allows.
Pruneable(st, mv) ==
  /\ ~NodeOf(st).check /\ mv.kind = "capture"
  /\ mv.see < qs_see_prune_threshold(st.root_depth)

\* qsearch_short_circuit_at_ply_ceiling
AtCeiling(st, ply) == ply >= MAX_PLY - 1 /\ ~NodeOf(st).check

Stalemates(g, mv) == g.node[mv.to].moves = <<>> /\ ~g.node[mv.to].check
stalemate_avoiding_under_promos(moves, queen) ==
  SelectSeq(moves, LAMBDA m : m.at = queen.at /\ m.kind = "rook")
    \o SelectSeq(moves, LAMBDA m : m.at = queen.at /\ m.kind = "bishop")

\* qsearch_store_and_return: nothing is stored once the search is aborted.
StoreAndReturn(st, ply, score, bound, best_move) ==
  Return(score, Store(st, ply, score, 0, bound, best_move))

RECURSIVE QSearch(_, _, _), QTry(_, _), QLoop(_, _, _)

\* The score of one move at this node.
QAscended(r, pos) == [score |-> -r.score, st |-> Ascend(r.st, pos)]
QChild(st, mv, alpha, beta, ply) ==
  QAscended(QSearch(Descend(st, Made(st.pos, mv)), [alpha |-> -beta, beta |-> -alpha],
                    ply + 1), st.pos)

\* l is the state of the loop: where it stands in the moves, its alpha and
\* best score, and the move that cut.  The window may be empty from the start:
\* the pieces tried instead of a stalemating queen are searched even when the
\* draw is enough for a cutoff.
Better(l, r) ==
  [l EXCEPT !.st = r.st, !.best = Larger(@, r.score), !.alpha = Larger(@, r.score)]

\* The moves of one try share one from-to pair: a move, or a stalemating queen
\* and the pieces tried in its stead, which the queen's own score does not stop.
AfterTry(l, moves, r) ==
  IF r.st.aborted THEN [l EXCEPT !.st = r.st]
  ELSE IF \/ Larger(l.alpha, r.score) < l.beta
          \/ Head(moves).kind = "queen" /\ Len(moves) > 1
       THEN QTry(Better(l, r), Tail(moves))
  ELSE [Better(l, r) EXCEPT !.cutoff = Head(moves).id]
QTry(l, moves) ==
  IF moves = <<>> \/ l.st.aborted THEN l
  ELSE AfterTry(l, moves, QChild(l.st, Head(moves), l.alpha, l.beta, l.ply))

Instead(l, mv, all) ==
  IF mv.kind = "queen" /\ Stalemates(Graph(l.st), mv)
  THEN <<mv>> \o stalemate_avoiding_under_promos(all, mv) ELSE <<mv>>
QLoop(l, moves, all) ==
  IF moves = <<>> \/ l.st.aborted \/ l.cutoff # NoMove THEN l
  ELSE QLoop(IF Pruneable(l.st, Head(moves)) THEN l ELSE QTry(l, Instead(l, Head(moves), all)),
             Tail(moves), all)

\* The moves that qsearch looks at.
QMoves(st) ==
  IF NodeOf(st).check THEN MovesOf(st) ELSE SelectSeq(MovesOf(st), qsearch_move_filter)
StandPat(st) == IF NodeOf(st).check THEN -INF ELSE NodeOf(st).eval

\* No move to look at: mate, stalemate, a single reply, or nothing forced.
\* w is the window at entry; the reply is searched with alpha raised to the
\* stand-pat score.
SingleReply(w, ply, r, mv) ==
  StoreAndReturn(r.st, ply, r.score, BoundOf(r.score, w.alpha, w.beta), mv.id)
QTerminal(st, w, ply) ==
  IF NodeOf(st).check THEN StoreAndReturn(st, ply, Mated(ply), Exact, NoMove)
  ELSE IF MovesOf(st) = <<>> THEN StoreAndReturn(st, ply, 0, Exact, NoMove)
  ELSE IF Len(MovesOf(st)) = 1
       THEN SingleReply(w, ply, QChild(st, MovesOf(st)[1], Larger(w.alpha, StandPat(st)),
                                       w.beta, ply), MovesOf(st)[1])
  ELSE StoreAndReturn(st, ply, StandPat(st), Upper, NoMove)

QCompleted(l, bound) ==
  StoreAndReturn(l.st, l.ply, l.best, bound, IF bound = Lower THEN l.cutoff ELSE NoMove)
\* In an empty window the first move that is searched ends the loop, whatever
\* it scored: the cutoff compares alpha with beta.  cut_short records that.
CutShort(l) == l.cutoff # NoMove /\ l.best < l.beta
QResult(l, w) ==
  QCompleted([l EXCEPT !.st.cut_short = @ \/ CutShort(l)], BoundOf(l.best, w.alpha, w.beta))

\* Stand pat unless in check, then the moves.
QExpand(st, w, ply, moves) ==
  IF StandPat(st) >= w.beta THEN StoreAndReturn(st, ply, StandPat(st), Lower, NoMove)
  ELSE IF moves = <<>> THEN QTerminal(st, w, ply)
  ELSE QResult(QLoop([st |-> st, ply |-> ply, alpha |-> Larger(w.alpha, StandPat(st)),
                      beta |-> w.beta, best |-> StandPat(st), cutoff |-> NoMove],
                     moves, MovesOf(st)), w)

\* w0 is the window of the call, w the one that mate distance leaves of it.
QEnter(st, w0, w, ply, e) ==
  IF MateSettles(w0, ply) THEN Return(MateBound(w0, ply), st)
  ELSE IF e # NoEntry /\ Answers(e, w.alpha, w.beta) THEN Return(e.score, st)
  ELSE QExpand(st, w, ply, InFront(Sorted(QMoves(st), LAMBDA m : m.value), e.best_move))
QCounted(st, w, ply) ==
  IF st.aborted THEN Return(0, st)
  ELSE IF AtCeiling(st, ply) THEN Return(NodeOf(st).eval, st)
  ELSE QEnter(st, w, MateDistance(w, ply), ply, Probe(st, ply))
QSearch(st, w, ply) == QCounted(Poll(st), w, ply)
=============================================================================
