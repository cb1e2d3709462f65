----------------------------- MODULE MCMakeMove -----------------------------
(***************************************************************************)
(* Small games for ChessValues. Each start has little material, placed so  *)
(* that the special cases meet within a few moves: en passant with the     *)
(* capturer pinned along the rank and along the diagonal, a push that      *)
(* gives check, castling with every rook in reach of an enemy piece,       *)
(* promotion by push and by capture of a rook that still has its right,    *)
(* double check, clocks at their limits, and en passant targets nobody     *)
(* can use.                                                                *)
(***************************************************************************)
EXTENDS ChessValues

(* The material of eval/data.rs, with a small term in the place of its     *)
(* tables that no symmetry of the board leaves alone.                      *)
MCPieceSquare ==
  LET mg == [Pawn |-> 82, Knight |-> 337, Bishop |-> 365, Rook |-> 477, Queen |-> 1025, King |-> 0]
      eg == [Pawn |-> 94, Knight |-> 281, Bishop |-> 297, Rook |-> 512, Queen |-> 936, King |-> 0]
  IN [k \in PieceKind |-> [s \in Square |-> <<mg[k] + ((7 * s) % 23) - 11, eg[k] + ((11 * s) % 29) - 14>>]]

(* The tuned weights of eval/data.rs, as a vector. *)
MCCore ==
  <<4, -1, -23, -14, -7, -7>>
  \o <<3, 7, 7, 32, 37, 0, 11, 9, 15, 27, 33, 0>>
  \o <<-28, -14, 23, 36, 40, 15, 37, 38, 35, 5, 0, -1, 12, 22, 28, 35, 0, 6, 3>>
  \o <<-28, -10, 1, 5, 10, 13, 17, 24, 30, -35, -27, -11, 4, 14, 24, 21, 11, -10>>
  \o <<-30, -19, -9, -3, 3, 5, 9, 11, 14, 18, 22, 30, 21, 21, -38, -31, -25, -14, 3, 17, 22, 24,
      26, 25, 23, 19, 23, 18>>
  \o <<-33, -18, -13, -5, -4, 4, 8, 15, 20, 24, 26, 28, 28, 29, 47, -36, -29, -25, -21, -6, 2, 7,
      11, 17, 22, 25, 25, 26, 23, -15>>
  \o <<-8, -8, -13, -13, -12, -12, -11, -6, -2, 2, 6, 10, 17, 20, 23, 28, 29, 30, 35, 37, 38, 37,
      34, 32, 21, 14, 2, -3, -28, -34, -34, -33, -31, -24, -8, -3, 11, 20, 26, 28, 29, 33,
      35, 37, 39, 40, 40, 40, 40, 37, 35, 21, 15, 3, 1, -12>>
  \o <<7, 1, 4, -7, -20, -42, -15, -23>>
  \o <<11, 19, 18, 14, 16, 23, 22, 22, 12, 6, 1, -1>>
  \o <<28, 16, 19, 6>>

(* What a tune leaves alone: nothing at the ranks no term reads, and the   *)
(* scales, which the outer sweep sets.                                     *)
MCShipped ==
  LET ranks == [k \in 0..7 |-> Zero]
  IN [iso |-> Zero, dbl |-> Zero, bwd |-> Zero, conn |-> ranks, passed |-> ranks, free |-> [k \in 0..7 |-> 0],
      kdistOwn |-> 0, kdistEnemy |-> 0, mobility |-> [kind \in MobileKind |-> [n \in 0..(Buckets[kind] - 1) |-> Zero]],
      shield |-> <<Zero, Zero>>, kfileSemi |-> 0, kfileOpen |-> 0, adjSemi |-> 0, bothSemi |-> 0,
      outpost |-> [kind \in {"Knight", "Bishop"} |-> ranks], rookOpen |-> Zero, rookSemi |-> Zero,
      ocbScale |-> 32, pawnlessScale |-> 8, fiftyFloor |-> 16]

MCWeights == WithCore(MCShipped, MCCore)

(* A move of a pawn that takes nothing keeps its slot. *)
MCPawnSlot(key) == Cardinality(key) % 2

W(k) == [color |-> "White", kind |-> k]
B(k) == [color |-> "Black", kind |-> k]
Blank == <<Empty(8)>>
Row(n, piece) == IF n = 0 THEN <<piece, Empty(7)>>
                 ELSE IF n = 7 THEN <<Empty(7), piece>> ELSE <<Empty(n), piece, Empty(7 - n)>>
Start(placement, side, castling, ep, halfmove) ==
  [placement |-> placement, side |-> side, castling |-> castling, ep |-> ep, halfmove |-> halfmove, fullmove |-> 1]

(* Black king and rook on the rank of two white pawns and the white king. *)
EpOnRank ==
  Start(<<Blank, <<Empty(2), B("Pawn"), Empty(1), B("Pawn"), Empty(3)>>, Blank,
        <<W("King"), Empty(2), W("Pawn"), Empty(3), B("Rook")>>, Blank, Blank, Blank, Row(7, B("King"))>>,
      "Black", <<>>, NoSquare, 254)

(* The double push opens a diagonal through both pawns. *)
EpOnDiagonal ==
  Start(<<Row(0, B("King")), <<Empty(6), B("Bishop"), Empty(1)>>, Blank,
        <<Empty(3), W("Pawn"), B("Pawn"), Empty(3)>>, Blank, Row(2, W("King")), Blank, Blank>>,
      "White", <<>>, 44, 3)

(* A target that is on the wrong rank for the side to move. *)
EpPhantom ==
  Start(<<Row(4, B("King")), Blank, Blank, Blank, Row(0, B("Pawn")), Blank,
        <<Empty(1), W("Pawn"), Empty(6)>>, Row(4, W("King"))>>, "White", <<>>, 44, 0)

Castles ==
  Start(<<<<B("Rook"), Empty(3), B("King"), Empty(2), B("Rook")>>, Blank, Blank, Blank, Blank, Blank, Blank,
        <<W("Rook"), Empty(3), W("King"), Empty(2), W("Rook")>>>>, "White", CastlingLetters, NoSquare, 255)

Promotes ==
  Start(<<<<B("Rook"), Empty(3), B("King"), Empty(3)>>, <<Empty(1), W("Pawn"), Empty(6)>>, Blank, Blank, Blank,
        Blank, <<Empty(6), B("Pawn"), Empty(1)>>, <<Empty(4), W("King"), Empty(2), W("Rook")>>>>,
      "White", <<"WhiteKing", "BlackQueen">>, NoSquare, 0)

Knights ==
  Start(<<Row(4, B("King")), Row(4, B("Queen")), Blank, Blank, Row(4, W("Knight")), Row(1, B("Bishop")),
        Row(3, W("Queen")), Row(4, W("King"))>>, "White", <<>>, NoSquare, 10)

(* Rejected: no rook for the right, and a pawn on the last rank. *)
NoRook == [Promotes EXCEPT !.castling = <<"WhiteQueen">>]
LastRank == [Promotes EXCEPT !.placement[1] = Row(0, W("Pawn"))]

(* Isolated, doubled, backward, connected and passed pawns, outposts of    *)
(* both sides, rooks on open and half-open files, a shield with a hole.    *)
PawnStructures ==
  Start(<<<<B("Rook"), Empty(5), B("King"), Empty(1)>>, <<B("Pawn"), Empty(4), B("Pawn"), B("Pawn"), Empty(1)>>,
          <<Empty(4), B("Pawn"), Empty(2), B("Pawn")>>, <<Empty(2), W("Knight"), B("Pawn"), Empty(4)>>,
          <<Empty(3), W("Pawn"), B("Bishop"), Empty(2), W("Pawn")>>, <<W("Pawn"), Empty(4), W("Pawn"), Empty(2)>>,
          <<Empty(5), W("Pawn"), W("Pawn"), Empty(1)>>, <<Empty(1), W("Rook"), Empty(4), W("King"), Empty(1)>>>>,
      "White", <<>>, NoSquare, 2)

(* A race: a free passed pawn, one stopped by an enemy, one by a friend. *)
Race ==
  Start(<<Row(1, B("King")), <<Empty(6), W("Pawn"), Empty(1)>>, Row(6, B("Knight")), <<W("Pawn"), Empty(7)>>,
          <<W("Rook"), Empty(3), B("Pawn"), Empty(3)>>, Blank, Row(4, W("King")), Blank>>, "White", <<>>, NoSquare, 88)

(* Bishops of opposite colours with pawns; of one colour, and a pawn to    *)
(* take; two knights.                                                      *)
OppositeBishops ==
  Start(<<Blank, Row(3, B("King")), Row(2, B("Pawn")), Row(3, W("Bishop")), <<Empty(2), W("King"), Empty(2), B("Bishop"), Empty(2)>>,
          Row(7, W("Pawn")), Blank, Blank>>, "Black", <<>>, NoSquare, 90)
SameBishops ==
  Start(<<Row(4, B("King")), Row(5, B("Bishop")), Blank, Blank, Blank, Row(1, W("Pawn")), Row(2, W("Bishop")),
          Row(0, W("King"))>>, "Black", <<>>, NoSquare, 0)
TwoKnights ==
  Start(<<Row(7, B("King")), Blank, <<Empty(5), W("King"), W("Knight"), Empty(1)>>, Blank, Row(3, W("Knight")), Blank, Blank,
          Blank>>, "Black", <<>>, NoSquare, 79)

(* Queen behind rook against queen behind rook on one file, bishops behind *)
(* pawns on the diagonals of the square they fight for.                    *)
Batteries ==
  Start(<<<<Empty(3), B("Queen"), Empty(3), B("King")>>, <<Empty(3), B("Rook"), Empty(2), B("Bishop"), Empty(1)>>,
          <<Empty(4), B("Pawn"), Empty(3)>>, Row(3, B("Pawn")), <<Empty(4), W("Pawn"), Empty(3)>>,
          <<Empty(2), W("Knight"), Empty(5)>>, <<Empty(3), W("Rook"), Empty(2), W("Bishop"), Empty(1)>>,
          <<Empty(3), W("Queen"), Empty(3), W("King")>>>>, "White", <<>>, NoSquare, 0)

(* The recapture promotes, and a king stands by. *)
SeePromotion ==
  Start(<<<<Empty(1), B("Knight"), Empty(3), B("Rook"), Empty(2)>>, <<B("King"), Empty(1), W("Pawn"), Empty(5)>>, Blank, Blank,
          Blank, Blank, Blank, <<Empty(1), W("Rook"), Empty(2), W("King"), Empty(3)>>>>, "White", <<>>, NoSquare, 0)

(* Where the pieces have many moves the line is shorter. *)
MCMaxLine(p) ==
  LET officers == UNION {p.pieceBb[k] : k \in MobileKind} IN
  IF Cardinality(OccupiedAll(p)) > 10 THEN 1 ELSE IF Cardinality(officers) > 1 THEN 2 ELSE 3

MCGames == {EpOnRank, EpOnDiagonal, EpPhantom, Castles, Promotes, Knights, NoRook, LastRank, PawnStructures, Race,
            OppositeBishops, SameBishops, TwoKnights, Batteries, SeePromotion}
=============================================================================
