---------------------------- MODULE MCMatchGame ----------------------------
(***************************************************************************)
(* Command lines, engines and a small game graph for MatchGame.            *)
(***************************************************************************)
EXTENDS MatchGame

Mv(id, zeroes, to) == [id |-> id, zeroes |-> zeroes, to |-> to]
N(side, moves) == [side |-> side, moves |-> moves, check |-> FALSE, bare |-> FALSE]

\* Pieces that go back and forth, with ways out: a mate, a stalemate and an
\* exchange that leaves the kings.
MCGraph == <<
  N("white", {Mv(1, FALSE, 2), Mv(2, TRUE, 2)}),
  N("black", {Mv(3, FALSE, 3)}),
  N("white", {Mv(4, FALSE, 4), Mv(5, FALSE, 6)}),
  N("black", {Mv(6, FALSE, 5), Mv(7, TRUE, 7)}),
  N("white", {Mv(8, FALSE, 2), Mv(9, TRUE, 8)}),
  [N("black", {}) EXCEPT !.check = TRUE],
  [N("white", {Mv(10, FALSE, 2)}) EXCEPT !.bare = TRUE],
  N("black", {})>>

Tc(i, inc) == [initial |-> i, increment |-> inc]
Pair(a, b) == [p \in Players |-> IF p = "engine" THEN a ELSE b]
Plain ==
  [spsa |-> FALSE, wallclock |-> TRUE, tc |-> Pair(Tc(9, 0), Tc(9, 0)), pairs |-> 1,
   max_plies |-> 4, clears |-> FALSE, scores |-> Pair({}, {}), infos |-> 0,
   illegal |-> FALSE, ticks |-> 0, nap |-> 0, faults |-> {}, chatter |-> 0]

\* Unequal clocks; a long game; scores; faults; two pairs of a tuning run and of a test; a nap.
MCScenarios == {
  [Plain EXCEPT !.tc = Pair(Tc(1, 1), Tc(0, 0)), !.ticks = 4, !.max_plies = 3],
  [Plain EXCEPT !.wallclock = FALSE, !.max_plies = 10],
  [Plain EXCEPT !.wallclock = FALSE, !.infos = 1,
                !.scores = Pair({Cp(0), Mate(-1)}, {Cp(1)})],
  [Plain EXCEPT !.infos = 1, !.scores = Pair({Cp(-9)}, {Cp(-7), Mate(1)})],
  [Plain EXCEPT !.faults = {"crash", "hang", "slow"}, !.illegal = TRUE, !.max_plies = 3],
  [Plain EXCEPT !.faults = {"babble"}, !.chatter = 2, !.max_plies = 2],
  [Plain EXCEPT !.spsa = TRUE, !.pairs = 2, !.faults = {"crash", "slow"}, !.max_plies = 2],
  [Plain EXCEPT !.pairs = 2, !.faults = {"crash", "slow"}, !.max_plies = 2, !.ticks = 3],
  [Plain EXCEPT !.nap = 3, !.ticks = 3, !.scores = Pair({Cp(0)}, {}), !.infos = 1,
                !.faults = {"hang"}, !.max_plies = 1]}
=============================================================================
