------------------------------ MODULE MakeMove ------------------------------
(***************************************************************************)
(* Making and taking back moves on one position (src/mov.rs), the way the  *)
(* search and the protocol drive it: from a parsed position, any legal     *)
(* move or a null move is made and pushed on the line with its undo        *)
(* token, and the last one made is the first one taken back.               *)
(***************************************************************************)
EXTENDS MoveGen, Fen

CONSTANTS Games,        \* the FENs a line may start from
          MaxLine(_)    \* bound: moves on a line that has come to a position

ASSUME GamesAssumption == Games \subseteq FenType

VARIABLES pos,          \* the position
          line,         \* the moves made, each with its undo token
          before        \* history: the position each of them was made in

vars == <<pos, line, before>>

-----------------------------------------------------------------------------
(* The castling rights that survive a move from or to a square. *)
CastlingMask ==
  [s \in Square |-> {r \in Right : s \notin {CastlingHome[r][1], CastlingHome[r][2]}}]

CastleRookSquares(us, flag) ==
  CASE us = "White" /\ flag = KingCastle  -> <<H1, F1>>
    [] us = "White" /\ flag = QueenCastle -> <<A1, D1>>
    [] us = "Black" /\ flag = KingCastle  -> <<H8, F8>>
    [] us = "Black" /\ flag = QueenCastle -> <<A8, D8>>

IsCastling(mv) == mv.flag \in {KingCastle, QueenCastle}

(* Where the captured piece stands: beside the pawn for en passant. *)
CaptureSquare(us, mv) == IF mv.flag = EnPassant THEN mv.to - PushStep(us) ELSE mv.to

UndoOf(p, captured) ==
  [captured |-> captured, castling |-> p.castling, ep |-> p.ep, halfmove |-> p.halfmove,
   zobrist |-> p.zobrist, pawnZobrist |-> p.pawnZobrist, score |-> p.score, phase |-> p.phase]

(* The piece that stands on the destination afterwards. *)
LandsAs(mover, mv) == IF IsPromotion(mv) THEN [color |-> mover.color, kind |-> PromotionKind(mv)] ELSE mover

MoveBoard(p, mv, mover) ==
  LET us == mover.color
      cleared == ClearSquare(p, mv.from)
      emptied == IF IsCapture(mv) THEN ClearSquare(cleared, CaptureSquare(us, mv)) ELSE cleared
      rook == CastleRookSquares(us, mv.flag)
  IN IF IsCastling(mv)
     THEN SetPiece(SetPiece(ClearSquare(cleared, rook[1]), mv.to, mover), rook[2], [color |-> us, kind |-> "Rook"])
     ELSE SetPiece(emptied, mv.to, LandsAs(mover, mv))

\* Mutant: every double push leaves a target.
EveryPush(board, mv, us) == IF mv.flag = DoublePush THEN mv.from + PushStep(us) ELSE NoSquare

(* A target is left behind only when a pawn of theirs could use it. *)
NewEp(board, mv, us) ==
  IF mv.flag = DoublePush /\ EpCapturerExists(board, Flip(us), File(mv.from), Rank(mv.to))
  THEN mv.from + PushStep(us) ELSE NoSquare

(* The key by its parts: mover, victim, castling rook, rights lost, the    *)
(* en passant files before and after, the turn.                            *)
ZobristAfterMake(mv, mover, undo, priorEpFile, newEpFile, newCastling) ==
  LET us == mover.color
      captureSq == CaptureSquare(us, mv)
      rook == CastleRookSquares(us, mv.flag)
      rookPiece == [color |-> us, kind |-> "Rook"]
      rights == (undo.castling \ newCastling) \cup (newCastling \ undo.castling)
      z1 == Xor(Xor(undo.zobrist, {PieceKey(mover, mv.from)}), {PieceKey(LandsAs(mover, mv), mv.to)})
      z2 == IF undo.captured # NoPiece THEN Xor(z1, {PieceKey(undo.captured, captureSq)}) ELSE z1
      z3 == IF IsCastling(mv) THEN Xor(z2, {PieceKey(rookPiece, rook[1]), PieceKey(rookPiece, rook[2])}) ELSE z2
      z4 == Xor(z3, {CastlingKey(r) : r \in rights})
  IN Xor(Xor(Xor(z4, EpKeys(priorEpFile)), EpKeys(newEpFile)), {TurnKey})

PawnZobristAfterMake(mv, mover, undo) ==
  LET pk(c, s) == {PieceKey([color |-> c, kind |-> "Pawn"], s)}
      us == mover.color
      isPawn == mover.kind = "Pawn"
      z1 == IF isPawn THEN Xor(undo.pawnZobrist, pk(us, mv.from)) ELSE undo.pawnZobrist
      z2 == IF isPawn /\ ~IsPromotion(mv) THEN Xor(z1, pk(us, mv.to)) ELSE z1
  IN IF undo.captured.kind = "Pawn" THEN Xor(z2, pk(Flip(us), CaptureSquare(us, mv))) ELSE z2

(* The evaluation delta: what moved, what was captured, the castling rook. *)
ScoreDelta(mv, mover, captured) ==
  LET us == mover.color
      rook == CastleRookSquares(us, mv.flag)
      value(piece, s) == Psqt[piece.color][piece.kind][s]
      moved == Minus(value(LandsAs(mover, mv), mv.to), value(mover, mv.from))
      taken == IF captured # NoPiece THEN value(captured, CaptureSquare(us, mv)) ELSE Zero
      castled == IF IsCastling(mv) THEN Minus(Psqt[us]["Rook"][rook[2]], Psqt[us]["Rook"][rook[1]]) ELSE Zero
  IN Plus(Minus(moved, taken), castled)

PhaseDeltaOf(mv, captured) ==
  (IF IsPromotion(mv) THEN PhaseDelta[PromotionKind(mv)] ELSE 0)
    - (IF captured # NoPiece THEN PhaseDelta[captured.kind] ELSE 0)

Undo(p, mv) ==
  LET mover == PieceAt(p, mv.from)
  IN UndoOf(p, IF IsCapture(mv) THEN PieceAt(p, CaptureSquare(mover.color, mv)) ELSE NoPiece)

MakeMove(p, mv) ==
  LET mover == PieceAt(p, mv.from)
      us == mover.color
      undo == Undo(p, mv)
      board == MoveBoard(p, mv, mover)
      castling == undo.castling \cap CastlingMask[mv.from] \cap CastlingMask[mv.to]
      halfmove == IF mover.kind = "Pawn" \/ IsCapture(mv) THEN 0
                  ELSE IF p.halfmove = HalfmoveMax THEN HalfmoveMax ELSE p.halfmove + 1
      fullmove == (p.fullmove + IF us = "Black" THEN 1 ELSE 0) % FullmoveSpan
      aux == SetAuxState(board, Flip(us), castling, NewEp(board, mv, us), halfmove, fullmove)
  IN [aux EXCEPT !.zobrist = ZobristAfterMake(mv, mover, undo, EpFileToHash(p), EpFileToHash(aux), castling),
                 !.pawnZobrist = PawnZobristAfterMake(mv, mover, undo),
                 !.score = Plus(@, ScoreDelta(mv, mover, undo.captured)),
                 !.phase = @ + PhaseDeltaOf(mv, undo.captured)]

(* Nothing of the move is recomputed: the board is moved back and the rest *)
(* restored from the token; only the move number is counted down.          *)
UnmakeBoard(p, mv, us, captured) ==
  LET rook == CastleRookSquares(us, mv.flag)
      mover == IF IsPromotion(mv) THEN [color |-> us, kind |-> "Pawn"] ELSE PieceAt(p, mv.to)
      back == SetPiece(ClearSquare(p, mv.to), mv.from, mover)
  IN IF IsCastling(mv)
     THEN SetPiece(SetPiece(ClearSquare(ClearSquare(p, mv.to), rook[2]), mv.from, PieceAt(p, mv.to)),
                   rook[1], PieceAt(p, rook[2]))
     ELSE IF IsCapture(mv) THEN SetPiece(back, CaptureSquare(us, mv), captured) ELSE back

\* Mutant: the move number is not counted down.
FullmoveKept(p, us) == p.fullmove

RestoredFullmove(p, us) == (p.fullmove - IF us = "Black" THEN 1 ELSE 0) % FullmoveSpan

UnmakeMove(p, mv, undo) ==
  LET us == Flip(p.side)
      aux == SetAuxState(UnmakeBoard(p, mv, us, undo.captured), us, undo.castling, undo.ep, undo.halfmove,
                         RestoredFullmove(p, us))
  IN [aux EXCEPT !.zobrist = undo.zobrist, !.pawnZobrist = undo.pawnZobrist,
                 !.score = undo.score, !.phase = undo.phase]

(* Passing the turn.  The token holds less: nothing on the board moves. *)
NullUndo(p) == [ep |-> p.ep, halfmove |-> p.halfmove, zobrist |-> p.zobrist]

MakeNullMove(p) ==
  LET halfmove == IF p.halfmove = HalfmoveMax THEN HalfmoveMax ELSE p.halfmove + 1
      fullmove == (p.fullmove + IF p.side = "Black" THEN 1 ELSE 0) % FullmoveSpan
      zobrist == Xor(Xor(p.zobrist, EpKeys(EpFileToHash(p))), {TurnKey})
  IN [SetAuxState(p, Flip(p.side), p.castling, NoSquare, halfmove, fullmove) EXCEPT !.zobrist = zobrist]

UnmakeNullMove(p, undo) ==
  LET us == Flip(p.side)
  IN [SetAuxState(p, us, p.castling, undo.ep, undo.halfmove, RestoredFullmove(p, us)) EXCEPT !.zobrist = undo.zobrist]

-----------------------------------------------------------------------------

Init ==
  /\ pos \in {Parse(fen).pos : fen \in {fen \in Games : Parse(fen).err = "None"}}
  /\ line = <<>>
  /\ before = <<>>

Push(entry, p) ==
  /\ Len(line) < MaxLine(pos)
  /\ line' = Append(line, entry)
  /\ before' = Append(before, pos)
  /\ pos' = p

Make ==
  \E mv \in GenerateMoves(pos) : Push([null |-> FALSE, mv |-> mv, undo |-> Undo(pos, mv)], MakeMove(pos, mv))

(* The callers of make_null_move never do it in check. *)
MakeNull ==
  /\ ~InCheck(pos)
  /\ Push([null |-> TRUE, mv |-> MoveOf(A1, A1, Quiet), undo |-> NullUndo(pos)], MakeNullMove(pos))

Pop(p) ==
  /\ line' = SubSeq(line, 1, Len(line) - 1)
  /\ before' = SubSeq(before, 1, Len(before) - 1)
  /\ pos' = p

Unmake ==
  /\ line # <<>>
  /\ ~line[Len(line)].null
  /\ Pop(UnmakeMove(pos, line[Len(line)].mv, line[Len(line)].undo))

UnmakeNull ==
  /\ line # <<>>
  /\ line[Len(line)].null
  /\ Pop(UnmakeNullMove(pos, line[Len(line)].undo))

Next == Make \/ MakeNull \/ Unmake \/ UnmakeNull

Spec == Init /\ [][Next]_vars

=============================================================================
