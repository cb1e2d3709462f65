---------------------------- MODULE MCAlphaBeta ----------------------------
(***************************************************************************)
(* Game graphs for AlphaBeta.                                              *)
(***************************************************************************)
EXTENDS AlphaBeta

\* A move; the from-to pair is the id unless it is a promotion.
Mv(id, at, kind, value, see, zeroes, to) ==
  [id |-> id, at |-> at, kind |-> kind, value |-> value, see |-> see,
   zeroes |-> zeroes, to |-> to]
Q(id, to) == Mv(id, id, "quiet", 0, 0, FALSE, to)
C(id, value, see, to) == Mv(id, id, "capture", value, see, TRUE, to)
P(id, at, kind, value, to) == Mv(id, at, kind, value, 0, TRUE, to)

\* The terms that only evaluate counts favour white by 30.
N(side, eval, pass, moves) ==
  [side |-> side, eval |-> eval,
   static |-> IF side = "white" THEN eval - 30 ELSE eval + 30, check |-> FALSE, pieces |-> TRUE, pass |-> pass,
   moves |-> moves]
Checked(node) == [node EXCEPT !.check = TRUE]
Pawns(node) == [node EXCEPT !.pieces = FALSE]
W(eval, pass, moves) == N("white", eval, pass, moves)
B(eval, pass, moves) == N("black", eval, pass, moves)

Root(node, clock, past) ==
  [pos |-> [node |-> node, clock |-> clock], history |-> Append(past, node)]

\* Transpositions, captures and a mate for either side.
Tactics(e5, e6) ==
  [acyclic |-> TRUE,
   roots |-> <<Root(1, 0, <<>>), Root(4, 0, <<1, 2>>)>>,
   node |-> <<
     W(10, 3, <<Q(1, 2), Q(2, 3), C(3, 400, 100, 3)>>),
     B(-10, 4, <<Q(4, 4), Q(5, 5), C(6, 300, -50, 6)>>),
     B(-120, 5, <<Q(7, 5), Q(8, 6), Q(9, 4)>>),
     W(20, 8, <<Q(10, 7), C(11, 500, 200, 8), Q(12, 9)>>),
     W(e5, 8, <<Q(13, 8), Q(14, 9)>>),
     W(e6, 7, <<Q(15, 7), C(16, 600, 300, 9)>>),
     Checked(B(0, 10, <<Q(17, 10), Q(18, 11)>>)),
     B(-30, 10, <<C(19, 200, 0, 10), Q(20, 12)>>),
     B(-200, 11, <<Q(21, 11), Q(22, 12)>>),
     W(40, 13, <<Q(23, 13), Q(24, 14)>>),
     W(60, 14, <<C(25, 900, 500, 14), Q(26, 15)>>),
     Checked(W(-500, 14, <<Q(27, 15)>>)),
     Checked(B(0, 13, <<>>)),
     B(-70, 15, <<Q(28, 16)>>),
     Pawns(B(90, 16, <<Q(29, 16)>>)),
     Checked(W(0, 16, <<>>))>>]

\* A new queen that stalemates, replies that are the only ones, a stalemate.
Promotions ==
  [acyclic |-> TRUE,
   roots |-> <<Root(1, 0, <<>>), Root(3, 4, <<>>)>>,
   node |-> <<
     W(60, 2, <<P(1, 1, "queen", 900, 4), P(2, 1, "rook", 500, 5),
                P(3, 1, "bishop", 330, 6), Q(4, 2)>>),
     B(-40, 3, <<Q(5, 3)>>),
     W(80, 7, <<P(6, 6, "queen", 900, 7), P(7, 6, "rook", 500, 5), Q(8, 5)>>),
     Pawns(B(-900, 8, <<>>)),
     Pawns(B(-500, 8, <<Q(9, 8)>>)),
     Pawns(B(-330, 8, <<Q(10, 8), Q(11, 9)>>)),
     Checked(B(-950, 8, <<Q(12, 8)>>)),
     W(700, 10, <<C(13, 100, 100, 10), Q(14, 9)>>),
     Checked(B(-300, 10, <<>>)),
     Pawns(B(-650, 11, <<Q(15, 11)>>)),
     Checked(W(600, 12, <<>>))>>]

\* New queens that stalemate and save a lost position: with a draw in hand the
\* rook and the bishop are tried in an empty window, where black has captures
\* left (from the first root) or stands pat (from both).
Saves ==
  [acyclic |-> TRUE,
   roots |-> <<Root(1, 0, <<>>), Root(2, 0, <<>>)>>,
   node |-> <<
     B(100, 3, <<Q(1, 3), Q(2, 4)>>),
     B(90, 3, <<Q(3, 3), Q(4, 5)>>),
     W(-20, 8, <<Q(5, 8), Q(6, 9)>>),
     W(-150, 9, <<P(7, 7, "queen", 900, 6), P(8, 7, "rook", 500, 7),
                  P(9, 7, "bishop", 330, 8), Q(10, 9)>>),
     W(-80, 9, <<P(11, 11, "queen", 900, 6), P(12, 11, "rook", 500, 8),
                 P(13, 11, "bishop", 330, 9), Q(14, 9)>>),
     Pawns(B(-900, 10, <<>>)),
     B(-300, 10, <<C(15, 500, 0, 10), C(16, 100, 100, 11), Q(17, 11)>>),
     B(120, 10, <<Q(18, 10), C(19, 300, 0, 11)>>),
     B(40, 10, <<Q(20, 10), Q(21, 11)>>),
     W(200, 12, <<Q(22, 12), Q(23, 13)>>),
     W(-250, 12, <<Q(24, 12), Q(25, 13)>>),
     B(-60, 14, <<Q(26, 14)>>),
     B(70, 14, <<Q(27, 14), C(28, 100, 100, 14)>>),
     Checked(W(0, 14, <<>>))>>]

\* Two pieces that go back and forth, near the fiftieth move, and a capture
\* that ends the dance.
Shuffles ==
  [acyclic |-> FALSE,
   roots |-> <<Root(1, 0, <<>>), Root(1, 4, <<1, 2, 3, 4>>), Root(3, 97, <<>>)>>,
   node |-> <<
     W(30, 5, <<Q(1, 2), Q(2, 4)>>),
     B(-30, 6, <<Q(3, 3), Q(4, 5)>>),
     W(-50, 2, <<Q(5, 4), C(6, 100, -200, 7)>>),
     B(50, 1, <<Q(7, 1), Q(8, 3)>>),
     W(-20, 4, <<Q(9, 4), Q(10, 2)>>),
     B(10, 3, <<Q(11, 1), Q(12, 3)>>),
     Checked(B(150, 8, <<Q(13, 8)>>)),
     W(-150, 7, <<Q(14, 2), Q(15, 7)>>)>>]

MCGames == <<Tactics(0, 0), Tactics(250, -150), Promotions, Saves, Shuffles>>
MCFloor == -64
MCSearchMoves == {{}, {1, 2}}
MCRaw == [p \in (1 .. 8) \X (1 .. 8) |-> 1]
MCMargin == [d \in 1 .. 3 |-> IF d = 1 THEN 100 ELSE IF d = 2 THEN 150 ELSE 250]
MCAbortAt == <<{2, 5, 9, 15, 24, 40}, {6, 20}>>
=============================================================================
