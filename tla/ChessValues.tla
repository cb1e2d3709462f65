----------------------------- MODULE ChessValues -----------------------------
(***************************************************************************)
(* What the values given to a position promise, at every position of the   *)
(* lines of MakeMove: the exchange a capture starts, the evaluation, and   *)
(* the tuner's two scorers.                                                *)
(***************************************************************************)
EXTENDS ChessRules, See, TexelFeatures

CONSTANTS TunedCore,        \* the vector whose weights the engine plays
          ScoredLine        \* bound: moves on a line whose position the tuner scores

-----------------------------------------------------------------------------
(* The exchange by playing it on a board, with no set of attackers kept.   *)

(* The attacker of s to recapture with: of the least value, then on the    *)
(* lowest square.                                                          *)
Attackers(m, c, s) == {a \in Square : m[a].color = c /\ Attacks(m, a, s)}

Cheapest(m, S) ==
  CHOOSE a \in S : \A b \in S :
    \/ SeeValue[m[a].kind] < SeeValue[m[b].kind]
    \/ m[a].kind = m[b].kind /\ a <= b

(* What the side c makes by capturing on s, where it need not: the piece   *)
(* that stands there, and a queen for a pawn on the last rank, less what   *)
(* the other side then makes.  A king captures only what is not defended;  *)
(* pins count for nothing.                                                 *)
RECURSIVE Exchange(_, _, _)
Exchange(m, s, c) ==
  LET S == Attackers(m, c, s)
      a == Cheapest(m, S)
      queens == m[a].kind = "Pawn" /\ Rank(s) \in {0, 7}
      piece == [color |-> c, kind |-> IF queens THEN "Queen" ELSE m[a].kind]
      next == BoardAfter(m, a, s, piece, s)
      made == SeeValue[m[s].kind] + (IF queens THEN SeeValue["Queen"] - SeeValue["Pawn"] ELSE 0)
                - Exchange(next, s, Flip(c))
  IN IF S = {} \/ (m[a].kind = "King" /\ Attackers(next, Flip(c), s) # {}) \/ made < 0 THEN 0 ELSE made

CaptureOutcome(p, mv) ==
  LET m == p.mailbox
      victim == CaptureSquare(p.side, mv)
      piece == IF IsPromotion(mv) THEN [color |-> p.side, kind |-> "Queen"] ELSE m[mv.from]
      gained == IF IsPromotion(mv) THEN SeeValue["Queen"] - SeeValue["Pawn"] ELSE 0
  IN SeeValue[m[victim].kind] + gained - Exchange(BoardAfter(m, mv.from, mv.to, piece, victim), mv.to, Flip(p.side))

(* The position with the colours exchanged and the board turned over. *)
Mirrored(p) ==
  LET flipped(S) == {FlipRank(s) : s \in S}
      other(piece) == IF piece = NoPiece THEN NoPiece ELSE [color |-> Flip(piece.color), kind |-> piece.kind]
      board == [p EXCEPT
                  !.pieceBb = [k \in PieceKind |-> flipped(@[k])],
                  !.colorBb = [c \in Color |-> flipped(@[Flip(c)])],
                  !.mailbox = [s \in Square |-> other(@[FlipRank(s)])],
                  !.kingSq = [c \in Color |-> FlipRank(@[Flip(c)])],
                  !.side = Flip(@)]
  IN [board EXCEPT !.score = ScoreFromScratch(board), !.phase = PhaseFromScratch(board)]

(* played is what the engine gives, for White. *)
PlaysAsScored(p, played) ==
  /\ ShippedCore = TunedCore
  /\ ReferenceScoreWhite(p) = played
  /\ (EndgameScale(p) = ScaleDen /\ ~IsInsufficientMaterial(p))
       => Abs(ModelScoreWhite(Extract(p), TunedCore) - FullPhase * played) < FullPhase

(* The pawn hash after the positions of a line went through it. *)
HashAfter(positions) == FoldLeft(LAMBDA table, p : PawnHashGet(table, p).table, NewPawnHash, positions)

-----------------------------------------------------------------------------
(* Properties *)

(* What see says of a capture, from a set of attackers it keeps by looking *)
(* along the lines of sight again, is what playing the exchange out on the *)
(* board gives: batteries, a recapture that promotes, an en passant        *)
(* capture that opens a file, and a king that stops before a defended      *)
(* square included.  Quiescence search throws captures away on its word.   *)
SeeIsTheExchange ==
  \A mv \in {mv \in GenerateMoves(pos) : IsCapture(mv)} : SeeOf(pos, mv) = CaptureOutcome(pos, mv)

(* No colour is favoured: with the colours exchanged and the board turned  *)
(* over the side to move has the same evaluation, to the centipawn.        *)
EvaluationIsFair == Evaluate(Mirrored(pos)) = Evaluate(pos)

(* evaluate_cached gives what evaluate gives, whatever positions went      *)
(* through the pawn hash before (ADR-0032, section 5): pawns that moved,   *)
(* and moved back, slots that were taken over, and a key of no bits.       *)
CacheIsTransparent == EvaluateCached(pos, HashAfter(before)) = Evaluate(pos)

(* The weights a tune found are the weights that play: read back from the  *)
(* evaluation's tables they are the same vector, the reference scorer      *)
(* gives exactly what evaluate gives, and the linear model the tune        *)
(* trained on is less than a centipawn away where nothing is scaled        *)
(* (ADR-0037, section 2).                                                  *)
TunedIsPlayed ==
  Len(line) <= ScoredLine => PlaysAsScored(pos, (IF pos.side = "White" THEN 1 ELSE -1) * Evaluate(pos))

=============================================================================
