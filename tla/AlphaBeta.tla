----------------------------- MODULE AlphaBeta -----------------------------
(***************************************************************************)
(* negamax (search.rs) and the iterations that AlphaBetaMover::go runs of  *)
(* it.  SearchDriver takes what a root search returns as an oracle; here   *)
(* it is computed, node by node, over the game graphs of the instance.     *)
(*                                                                         *)
(* One call of negamax is a record a:                                      *)
(*   depth, ply, alpha, beta, is_pv, allow_null, excluded                  *)
(* and each of its numbered steps is an operator below.  A step of the     *)
(* specification is one search of the root, which the stop flag or a limit *)
(* may abort at any node.                                                  *)
(***************************************************************************)
EXTENDS Quiescence, Minimax

CONSTANTS
  ASPIRATION_MIN_DEPTH,  \* the first depth that is searched around the last score
  HalfWidths,     \* half-widths of the aspiration windows
  SearchMoves,    \* searchmoves of the go commands; {} for none
  AbortAt,        \* bound: for each go, the node counts it may be aborted at
  NeverAbort      \* a node count that no search reaches

MaxSearches == Len(AbortAt)

RECURSIVE Negamax(_, _), MoveLoop(_, _, _)

\* search_child: a child of the node a, searched with this depth and window,
\* and whether that is the full depth.
Ascended(r, full, pos) == [score |-> -r.score, full |-> full, st |-> Ascend(r.st, pos)]
Child(st, a, mv, depth, alpha, beta, is_pv) ==
  Ascended(Negamax([depth |-> depth, ply |-> a.ply + 1, alpha |-> -beta, beta |-> -alpha,
                    is_pv |-> is_pv, allow_null |-> TRUE, excluded |-> NoMove],
                   Descend(st, Made(st.pos, mv))), depth >= a.depth - 1, st.pos)

-----------------------------------------------------------------------------
\* What may end a node before its moves are generated.
IsDraw(st) ==
  is_fifty_move_draw(st.pos.clock) \/ is_repetition(st.history, st.pos.clock)

TtCuts(a, e) ==
  /\ e # NoEntry /\ a.excluded = NoMove /\ ~a.is_pv /\ e.depth >= a.depth
  /\ Answers(e, a.alpha, a.beta)

\* A node at which the pruning heuristics are trusted.
Quieted(a, st) == a.ply > 0 /\ ~a.is_pv /\ ~NodeOf(st).check

FutilityScore(a, st) == NodeOf(st).static - reverse_futility_margin(a.depth)
RfpCuts(a, st) ==
  /\ Quieted(a, st) /\ a.depth <= RFP_MAX_DEPTH /\ ~IsMate(a.beta)
  /\ FutilityScore(a, st) >= a.beta

NmpAllowed(a, st) ==
  /\ Quieted(a, st) /\ a.allow_null /\ a.depth >= NMP_MIN_DEPTH
  /\ NodeOf(st).pieces /\ NodeOf(st).static >= a.beta

\* The opponent to move after a pass, in a null window around beta.
NullSearch(a, st) ==
  Ascended(Negamax([depth |-> a.depth - 1 - null_move_reduction(a.depth),
                    ply |-> a.ply + 1, alpha |-> -a.beta, beta |-> -a.beta + 1,
                    is_pv |-> FALSE, allow_null |-> FALSE, excluded |-> NoMove],
                   Descend(st, Passed(st))), FALSE, st.pos)

-----------------------------------------------------------------------------
\* Singular extension: the move of the table's entry stands out when the
\* others fail low in a shallower search without it.
SeEligible(a, st, e, first) ==
  /\ e # NoEntry /\ first = e.best_move /\ e.best_move # NoMove
  /\ a.excluded = NoMove /\ Quieted(a, st) /\ a.depth >= SE_MIN_DEPTH
  /\ e.bound = Lower /\ e.depth >= Larger(0, a.depth - SE_TT_DEPTH_DELTA)
  /\ ~IsMate(e.score)

Verification(a, st, e) ==
  LET s_beta == singular_beta(e.score, a.depth)
      r == Negamax([depth |-> verification_depth(a.depth), ply |-> a.ply,
                    alpha |-> s_beta - 1, beta |-> s_beta, is_pv |-> FALSE,
                    allow_null |-> TRUE, excluded |-> e.best_move], st)
  IN  [done |-> TRUE, score |-> r.score, st |-> r.st]

-----------------------------------------------------------------------------
\* The move loop.  n is the node: its call a with the window narrowed, the
\* killers at entry, the extension of the first move and the static score that
\* frontier futility uses, if it applies.  l is the loop: i, alpha, best,
\* best_is_full_depth, cutoff, quiets_searched, quiet_index, first, st.

\* ffp_pruned_bound
FfpBound(n) == n.static + frontier_futility_margin(n.a.depth)
FfpSkips(n, l, mv) == n.ffp /\ is_quiet(mv) /\ FfpBound(n) <= l.alpha

Skip(n, l) ==
  [l EXCEPT !.i = @ + 1, !.best = Larger(@, FfpBound(n)),
            !.best_is_full_depth =
               best_is_full_depth_after_score(l.best, @, FfpBound(n), FALSE)]

\* is_lmr_eligible_quiet and late_move_reduction
Reduction(n, l, mv) ==
  IF /\ n.lmr /\ is_quiet(mv) /\ l.quiet_index + 1 >= LMR_MIN_QUIET_INDEX
     /\ mv.id \notin {n.killers[1], n.killers[2]}
     /\ l.st.table[NodeOf(l.st).side, mv.at] < LMR_HIGH_HISTORY_THRESHOLD
  THEN late_move_reduction(n.a.depth, l.quiet_index + 1) ELSE 0

\* A later move: a pilot, at reduced depth if it is a late quiet move and in a
\* null window if it is scouted; verified at full depth if the reduced pilot
\* beat alpha; resolved in the full window if the scout came out inside it.
Scouted(n, l) == should_scout(l.i, l.st.root_depth)
ScoutBeta(n, l) == IF Scouted(n, l) THEN l.alpha + 1 ELSE n.a.beta

Pilot(n, l, mv) ==
  Child(l.st, n.a, mv, n.a.depth - 1 - Reduction(n, l, mv), l.alpha, ScoutBeta(n, l), FALSE)
Verified(n, l, mv, r) ==
  IF ~r.st.aborted /\ ~r.full /\ lmr_needs_full_research(r.score, l.alpha)
  THEN Child(r.st, n.a, mv, n.a.depth - 1, l.alpha, ScoutBeta(n, l), FALSE) ELSE r
Resolved(n, l, mv, r) ==
  IF ~r.st.aborted /\ Scouted(n, l) /\ pvs_needs_research(r.score, l.alpha, n.a.beta)
  THEN Child(r.st, n.a, mv, n.a.depth - 1, l.alpha, n.a.beta, n.a.is_pv) ELSE r

First(n, l, mv) ==
  Child(l.st, n.a, mv, n.a.depth - 1 + IF l.i = 0 THEN n.extension ELSE 0,
        l.alpha, n.a.beta, n.a.is_pv)

\* A move that raises alpha enters the PV; at the root its score is kept for
\* a search that is aborted later.
Improve(n, st, mv, score) ==
  LET updated == pv_update(st, n.a.ply, mv)
  IN  IF n.a.ply = 0 THEN [updated EXCEPT !.root_score = score] ELSE updated

\* A quiet move that cuts is remembered.
Remember(n, l, st, mv) ==
  IF is_quiet(mv)
  THEN update_history_on_quiet_cutoff(update_killers(st, n.a.ply, mv), mv,
                                      l.quiets, n.a.depth)
  ELSE st

Raises(l, r) == r.score > l.best /\ r.score > l.alpha
RaisedAlpha(l, r) == IF Raises(l, r) THEN r.score ELSE l.alpha
Cuts(n, l, r) == r.score > l.best /\ RaisedAlpha(l, r) >= n.a.beta

\* The loop after the search r of a move.
Searched(n, l, mv, r) ==
  LET st == IF Raises(l, r) THEN Improve(n, r.st, mv, r.score) ELSE r.st
  IN  IF r.st.aborted THEN [l EXCEPT !.st = r.st]
      ELSE [i |-> l.i + 1, alpha |-> RaisedAlpha(l, r), best |-> Larger(l.best, r.score),
            best_is_full_depth |->
              best_is_full_depth_after_score(l.best, l.best_is_full_depth, r.score, r.full),
            first |-> FALSE, cutoff |-> IF Cuts(n, l, r) THEN mv.id ELSE NoMove,
            quiets |-> IF ~Cuts(n, l, r) /\ is_quiet(mv) /\ r.full
                       THEN Append(l.quiets, mv) ELSE l.quiets,
            quiet_index |-> l.quiet_index + IF is_quiet(mv) THEN 1 ELSE 0,
            st |-> IF Cuts(n, l, r) THEN Remember(n, l, st, mv) ELSE st]

Tried(n, l, mv) ==
  IF mv.id = n.a.excluded THEN [l EXCEPT !.i = @ + 1]
  ELSE IF FfpSkips(n, l, mv) THEN Skip(n, l)
  ELSE Searched(n, l, mv, IF l.first THEN First(n, l, mv)
                          ELSE Resolved(n, l, mv, Verified(n, l, mv, Pilot(n, l, mv))))

MoveLoop(n, l, moves) ==
  IF moves = <<>> \/ l.st.aborted \/ l.cutoff # NoMove THEN l
  ELSE MoveLoop(n, Tried(n, l, Head(moves)), Tail(moves))

-----------------------------------------------------------------------------
\* What a completed node stores; nothing in the game without one move, and
\* nothing on the strength of a reduced search alone.
StoredMove(a, bound, l) ==
  IF bound = Lower THEN l.cutoff
  ELSE IF bound = Exact /\ l.st.pv[a.ply] # <<>> THEN Head(l.st.pv[a.ply])
  ELSE NoMove
NodeStore(a, bound, l) ==
  IF a.excluded = NoMove /\ l.best_is_full_depth
  THEN Store(l.st, a.ply, l.best, a.depth, bound, StoredMove(a, bound, l)) ELSE l.st
Completed(a, original_alpha, l) ==
  Return(l.best, NodeStore(a, BoundOf(l.best, original_alpha, a.beta), l))

\* The gates of the node, and the loop; v is the verification search.
Singular(a, e, v) == v.done /\ v.score < singular_beta(e.score, a.depth)
NodeGates(a, st, extends) ==
  [a |-> a, killers |-> st.killers[a.ply], static |-> NodeOf(st).static,
   extension |-> IF extends THEN 1 ELSE 0,
   lmr |-> Quieted(a, st) /\ a.depth >= LMR_MIN_DEPTH,
   ffp |-> Quieted(a, st) /\ a.depth \in 1 .. FFP_MAX_DEPTH /\ ~IsMate(a.alpha)]
LoopStart(a, st) ==
  [i |-> 0, alpha |-> a.alpha, best |-> -INF, best_is_full_depth |-> FALSE, first |-> TRUE,
   cutoff |-> NoMove, quiets |-> <<>>, quiet_index |-> 0, st |-> st]
Loop(a, original_alpha, gates, st, moves) ==
  IF st.aborted THEN Return(0, st)
  ELSE Completed(a, original_alpha, MoveLoop(gates, LoopStart(a, st), moves))
Verify(a, original_alpha, e, st, v, moves) ==
  Loop(a, original_alpha, NodeGates(a, st, Singular(a, e, v)), v.st, moves)

\* The moves in order, none left out but by searchmoves; mate, stalemate or
\* the loop.
Expand(a, original_alpha, e, st, moves) ==
  IF moves = <<>>
  THEN Return(IF NodeOf(st).check /\ ~(a.ply = 0 /\ st.searchmoves # {})
              THEN Mated(a.ply) ELSE 0, st)
  ELSE Verify(a, original_alpha, e, st,
              IF SeEligible(a, st, e, moves[1].id) THEN Verification(a, st, e)
              ELSE [done |-> FALSE, st |-> st], moves)

\* The null move, then the rest.  A pass proves no mate.
AfterNull(a, original_alpha, e, null) ==
  IF null.st.aborted THEN Return(0, null.st)
  ELSE IF null.score >= a.beta
       THEN LET score == IF null.score >= MATE_IN_MAX_PLY THEN a.beta ELSE null.score
            IN  Return(score, IF a.excluded # NoMove THEN null.st
                              ELSE Store(null.st, a.ply, score, a.depth, Lower, NoMove))
  ELSE Expand(a, original_alpha, e, null.st, MoveStager(null.st, a.ply, e.best_move))

Consult(a, original_alpha, st, e) ==
  IF TtCuts(a, e) THEN Return(e.score, st)
  ELSE IF RfpCuts(a, st) THEN Return(FutilityScore(a, st), st)
  ELSE AfterNull(a, original_alpha, e, IF NmpAllowed(a, st) THEN NullSearch(a, st)
                                       ELSE [score |-> -INF, st |-> st])

\* The tables have MAX_PLY rows: a deeper node indexes past their end, which
\* is a panic and the end of the process.
Overflow(st) == [st EXCEPT !.panicked = TRUE, !.aborted = TRUE]

\* A node that is counted; a is the call with the window narrowed.
Enter(a0, a, st) ==
  IF st.aborted \/ (a.ply > 0 /\ IsDraw(st)) THEN Return(0, st)
  ELSE IF MateSettles(a0, a.ply) THEN Return(MateBound(a0, a.ply), st)
  ELSE Consult(a, a0.alpha, st, Probe(st, a.ply))

Negamax(a, st) ==
  IF a.ply >= MAX_PLY THEN Return(0, Overflow(st))
  ELSE IF a.depth = 0
       THEN QSearch(clear_ply(st, a.ply), [alpha |-> a.alpha, beta |-> a.beta], a.ply)
  ELSE Enter(a, MateDistance(a, a.ply), Poll(clear_ply(st, a.ply)))

-----------------------------------------------------------------------------
VARIABLES
  st,          \* AlphaBetaMover, with the position it searches
  last,        \* the last search of the root in this go
  searches,    \* go commands so far
  \* history variable, read by properties only; so is st.cut_short
  restricted   \* some go so far had searchmoves

vars == <<st, last, searches, restricted>>

NoSearch == [depth |-> 0, alpha |-> -INF, beta |-> INF, score |-> 0, done |-> TRUE, tries |-> 2]
RootOf(g, k) == Games[g].roots[k]

\* A new AlphaBetaMover and an empty table, before the first go.
Fresh(g) ==
  [game |-> g, root |-> 1, pos |-> RootOf(g, 1).pos, history |-> RootOf(g, 1).history,
   tt |-> EmptyTable, generation |-> 0, killers |-> NoKillers, pv |-> NoLines,
   table |-> [p \in {"white", "black"} \X PairsOf(Games[g]) |-> 0],
   nodes |-> 0, aborted |-> FALSE, abort_at |-> 0, panicked |-> FALSE,
   root_score |-> 0, root_depth |-> 0, searchmoves |-> {}, cut_short |-> FALSE]

Init ==
  /\ \E g \in DOMAIN Games : st = Fresh(g)
  /\ last = NoSearch /\ searches = 0 /\ restricted = FALSE

\* The start of go, at one of the positions of the game: the table is kept,
\* in a new generation, and so is the history table.
Go(k, only) ==
  /\ searches < MaxSearches /\ ~st.panicked
  /\ st' = [st EXCEPT !.root = k, !.pos = RootOf(st.game, k).pos,
                      !.history = RootOf(st.game, k).history,
                      !.generation = (@ + 1) % 64, !.killers = NoKillers, !.pv = NoLines,
                      !.nodes = 0, !.aborted = FALSE, !.root_score = 0, !.searchmoves = only]
  /\ last' = NoSearch /\ searches' = searches + 1
  /\ restricted' = (restricted \/ only # {})

\* One search of the root between alpha and beta, aborted at node k unless it
\* is done by then.  The killers are cleared for an iteration, not for a try.
RootReady(depth, tries, k) ==
  [st EXCEPT !.aborted = FALSE, !.root_score = 0, !.pv = NoLines, !.root_depth = depth,
             !.abort_at = k, !.killers = IF tries = 1 THEN NoKillers ELSE @]
RootCall(depth, alpha, beta) ==
  [depth |-> depth, ply |-> 0, alpha |-> alpha, beta |-> beta, is_pv |-> TRUE,
   allow_null |-> TRUE, excluded |-> NoMove]
RootSearched(a, tries, r) ==
  /\ st' = [r.st EXCEPT !.abort_at = 0]
  /\ last' = [depth |-> a.depth, alpha |-> a.alpha, beta |-> a.beta, score |-> r.score,
              done |-> ~r.st.aborted, tries |-> tries]
  /\ UNCHANGED <<searches, restricted>>
RootSearch(a, tries, k) == RootSearched(a, tries, Negamax(a, RootReady(a.depth, tries, k)))

Contained == last.alpha < last.score /\ last.score < last.beta
Over == Contained \/ last.tries = 2

\* aspiration_window: full at first, then around the last score.
Window(score, half, depth) ==
  IF depth < ASPIRATION_MIN_DEPTH THEN <<-INF, INF>> ELSE <<score - half, score + half>>

\* The next iteration.
Iterate(h, k) ==
  /\ searches > 0 /\ last.done /\ (last.depth = 0 \/ Over)
  /\ last.depth < MaxDepth /\ ~st.panicked
  /\ LET w == Window(last.score, h, last.depth + 1)
     IN  RootSearch(RootCall(last.depth + 1, w[1], w[2]), 1, k)

\* One more try after a fail.
widen_after_fail(score, beta) == IF score >= beta THEN <<score, INF>> ELSE <<-INF, score>>
ReSearch(k) ==
  /\ last.done /\ last.depth > 0 /\ ~Over /\ ~st.panicked
  /\ LET w == widen_after_fail(last.score, last.beta)
     IN  RootSearch(RootCall(last.depth, w[1], w[2]), 2, k)

Aborts == {k \in AbortAt[Larger(searches, 1)] : k > st.nodes} \cup {NeverAbort}

Next ==
  \/ \E k \in DOMAIN Games[st.game].roots, only \in SearchMoves : Go(k, only)
  \/ \E h \in HalfWidths, k \in Aborts : Iterate(h, k)
  \/ \E k \in Aborts : ReSearch(k)

Spec == Init /\ [][Next]_vars

-----------------------------------------------------------------------------
\* Every score that leaves the search is proven: an entry of the table, and
\* what a search of the root returns, say no more than the minimax value of
\* their depth allows, given what each pruning technique takes for granted
\* (Minimax); whatever was aborted before, whatever the windows, and however
\* the table was shared between depths, plies and searches.  Not claimed
\* once an empty window has cut a loop short (search.rs:2520): the node below
\* ends after its first move (2551) and stores the score of that move as an
\* upper bound without having looked at the others.
Proven(bound, score, e) ==
  /\ bound \in {Exact, Upper} => score >= e.lo
  /\ bound \in {Exact, Lower} => score <= e.hi

TableIsProven ==
  \A i \in DOMAIN st.tt :
    st.tt[i] # NoEntry =>
      Proven(st.tt[i].bound, st.tt[i].score, Envelope[st.game][st.tt[i].key][st.tt[i].depth])
RootIsProven ==
  last.done /\ last.depth > 0 =>
    Proven(BoundOf(last.score, last.alpha, last.beta), last.score,
           Envelope[st.game][st.pos.node][last.depth])
Judged == Games[st.game].acyclic /\ ~restricted /\ ~st.panicked
ScoresAreProven == Judged /\ ~st.cut_short => TableIsProven /\ RootIsProven

\* The PV that an iteration leaves, aborted or not, can be played from the
\* root, and its first move is one that searchmoves allows; a search that
\* was not aborted leaves one exactly when its score beat alpha, as the
\* driver of the iterations takes for granted.
RECURSIVE Playable(_, _, _)
Playable(g, node, line) ==
  line = <<>> \/ \E m \in Range(g.node[node].moves) :
                   m.id = Head(line) /\ Playable(g, m.to, Tail(line))
PvIsPlayable ==
  last.depth > 0 /\ ~st.panicked =>
    /\ Playable(Graph(st), st.pos.node, st.pv[0])
    /\ st.pv[0] # <<>> /\ st.searchmoves # {} => Head(st.pv[0]) \in st.searchmoves
    /\ last.done /\ MoveStager(st, 0, NoMove) # <<>> =>
         (st.pv[0] # <<>> <=> last.score > last.alpha)

\* A search of the root, aborted or not, leaves the position and the history
\* of keys as it found them: every move and every pass was taken back.
LeavesNoTrace ==
  ~st.panicked => /\ st.pos = RootOf(st.game, st.root).pos
                  /\ st.history = RootOf(st.game, st.root).history
=============================================================================
