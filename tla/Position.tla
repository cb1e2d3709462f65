------------------------------ MODULE Position ------------------------------
(***************************************************************************)
(* A position (src/position.rs) with the redundant copies it keeps: two    *)
(* families of bitboards, a mailbox and the king squares, which say the    *)
(* same thing; and three values maintained by small steps that a full      *)
(* computation over the board would also give, the Zobrist key, the        *)
(* Zobrist key of the pawns and the tapered evaluation                     *)
(* (src/zobrist.rs, src/eval.rs).                                          *)
(*                                                                         *)
(* A Zobrist key is the XOR of random words, one per fact that holds.  It  *)
(* is modelled as the set of the facts that have been XORed in an odd      *)
(* number of times; Xor is the symmetric difference.  Two positions with   *)
(* the same set have the same key, and the other way round but for a       *)
(* collision of the 64-bit words.                                          *)
(***************************************************************************)
EXTENDS Board, FiniteSetsExt

CONSTANT PieceSquare    \* material and piece-square tables: PieceSquare[kind][square],
                        \* a tapered value, the squares counted from a8 along the ranks

ASSUME PieceSquareAssumption == PieceSquare \in [PieceKind -> [Square -> Int \X Int]]

(* A tapered value: <<middlegame, endgame>>. *)
Zero == <<0, 0>>
Plus(a, b) == <<a[1] + b[1], a[2] + b[2]>>
Times(n, a) == <<n * a[1], n * a[2]>>
Minus(a, b) == Plus(a, Times(-1, b))
Total(term(_), S) == FoldSet(LAMBDA x, sum : Plus(term(x), sum), Zero, S)

(* The square on the other side of the board's middle: sq ^ 56. *)
FlipRank(s) == 8 * (7 - Rank(s)) + File(s)

(* The tables as they are read, from White's point of view. *)
Psqt ==
  [White |-> [k \in PieceKind |-> [s \in Square |-> PieceSquare[k][FlipRank(s)]]],
   Black |-> [k \in PieceKind |-> [s \in Square |-> Times(-1, PieceSquare[k][s])]]]

PhaseDelta == [Pawn |-> 0, Knight |-> 1, Bishop |-> 1, Rook |-> 2, Queen |-> 4, King |-> 0]

(* The four castling rights. *)
Right == {"WhiteKing", "WhiteQueen", "BlackKing", "BlackQueen"}

HalfmoveMax == 255              \* u8, saturating
FullmoveSpan == 65536           \* u16, wrapping

-----------------------------------------------------------------------------
(* Reading a position. *)

Pieces(p, c, k) == p.pieceBb[k] \cap p.colorBb[c]
Occupied(p, c) == p.colorBb[c]
OccupiedAll(p) == p.colorBb["White"] \cup p.colorBb["Black"]
PieceAt(p, s) == p.mailbox[s]

-----------------------------------------------------------------------------
(* The two primitive board updates. *)

ClearSquare(p, s) ==
  LET prev == p.mailbox[s] IN
  IF prev = NoPiece THEN p
  ELSE [p EXCEPT !.pieceBb[prev.kind] = @ \ {s},
                 !.colorBb[prev.color] = @ \ {s},
                 !.mailbox[s] = NoPiece]

SetPiece(p, s, piece) ==
  LET q == ClearSquare(p, s) IN
  [q EXCEPT !.pieceBb[piece.kind] = @ \cup {s},
            !.colorBb[piece.color] = @ \cup {s},
            !.mailbox[s] = piece,
            !.kingSq[piece.color] = IF piece.kind = "King" THEN s ELSE @]

SetAuxState(p, side, castling, ep, halfmove, fullmove) ==
  [p EXCEPT !.side = side, !.castling = castling, !.ep = ep,
            !.halfmove = halfmove, !.fullmove = fullmove]

EmptyPosition ==
  [pieceBb |-> [k \in PieceKind |-> {}], colorBb |-> [c \in Color |-> {}],
   mailbox |-> [s \in Square |-> NoPiece], kingSq |-> [c \in Color |-> A1],
   side |-> "White", castling |-> {}, ep |-> NoSquare, halfmove |-> 0, fullmove |-> 1,
   zobrist |-> {}, pawnZobrist |-> {}, score |-> Zero, phase |-> 0]

-----------------------------------------------------------------------------
(* Zobrist keys. *)

Xor(z, keys) == (z \ keys) \cup (keys \ z)

PieceKey(piece, s) == <<piece.color, piece.kind, s>>
CastlingKey(right) == <<"Castling", right, 0>>
EpFileKey(f) == <<"EpFile", "Pawn", f>>
TurnKey == <<"Turn", "White", 0>>

KeyWord == {"White", "Black", "None", "Castling", "EpFile", "Turn"}
KeyPart == {"Pawn", "Knight", "Bishop", "Rook", "Queen", "King", "None", "White"} \cup Right
Keys == SUBSET (KeyWord \X KeyPart \X Int)

NoFile == -1

(* The en passant file takes part in the key only when a pawn of the side  *)
(* to move stands beside the pawn that was pushed.                         *)
EpFileToHash(p) ==
  LET capturerRank == IF p.side = "White" THEN 4 ELSE 3
      f == File(p.ep)
      adjacent == {FromFileRank(f - 1, capturerRank), FromFileRank(f + 1, capturerRank)}
  IN IF p.ep # NoSquare /\ Pieces(p, p.side, "Pawn") \cap adjacent # {} THEN f ELSE NoFile

EpKeys(f) == IF f = NoFile THEN {} ELSE {EpFileKey(f)}

FromScratch(p) ==
  {PieceKey(p.mailbox[s], s) : s \in {s \in Square : p.mailbox[s] # NoPiece}}
    \cup {CastlingKey(r) : r \in p.castling}
    \cup EpKeys(EpFileToHash(p))
    \cup (IF p.side = "White" THEN {TurnKey} ELSE {})

PawnZobristFromScratch(p) ==
  UNION {{PieceKey([color |-> c, kind |-> "Pawn"], s) : s \in Pieces(p, c, "Pawn")} : c \in Color}

-----------------------------------------------------------------------------
(* The evaluation state. *)

ScoreFromScratch(p) == Total(LAMBDA s : Psqt[p.mailbox[s].color][p.mailbox[s].kind][s], OccupiedAll(p))
PhaseFromScratch(p) == MapThenSumSet(LAMBDA s : PhaseDelta[p.mailbox[s].kind], OccupiedAll(p))

(* refresh_zobrist, refresh_pawn_zobrist and refresh_static_eval. *)
Refresh(p) ==
  [p EXCEPT !.zobrist = FromScratch(p), !.pawnZobrist = PawnZobristFromScratch(p),
            !.score = ScoreFromScratch(p), !.phase = PhaseFromScratch(p)]

-----------------------------------------------------------------------------
(* What debug_assert_consistent demands of the copies. *)

Consistent(p) ==
  /\ \A s \in Square :
       p.mailbox[s] = IF \E c \in Color, k \in PieceKind : s \in Pieces(p, c, k)
                      THEN CHOOSE piece \in Piece : s \in Pieces(p, piece.color, piece.kind)
                      ELSE NoPiece
  /\ \A k1, k2 \in PieceKind : k1 # k2 => p.pieceBb[k1] \cap p.pieceBb[k2] = {}
  /\ Occupied(p, "White") \cap Occupied(p, "Black") = {}
  /\ UNION {p.pieceBb[k] : k \in PieceKind} = OccupiedAll(p)
  /\ \A c \in Color : Pieces(p, c, "King") = {p.kingSq[c]}

(* The type of a position, and what validate_post_parse demands: one king  *)
(* a side, and for each castling right the king and rook it speaks of.     *)
PositionType ==
  [pieceBb : [PieceKind -> SUBSET Square], colorBb : [Color -> SUBSET Square],
   mailbox : [Square -> Piece \cup {NoPiece}], kingSq : [Color -> Square],
   side : Color, castling : SUBSET Right, ep : Square \cup {NoSquare},
   halfmove : 0..HalfmoveMax, fullmove : 0..(FullmoveSpan - 1),
   zobrist : Keys, pawnZobrist : Keys, score : Int \X Int, phase : 0..255]

CastlingHome ==
  [WhiteKing |-> <<E1, H1, "White">>, WhiteQueen |-> <<E1, A1, "White">>,
   BlackKing |-> <<E8, H8, "Black">>, BlackQueen |-> <<E8, A8, "Black">>]

ValidPostParse(p) ==
  /\ \A c \in Color : Cardinality(Pieces(p, c, "King")) = 1
  /\ \A r \in p.castling :
       LET home == CastlingHome[r] IN
       /\ PieceAt(p, home[1]) = [color |-> home[3], kind |-> "King"]
       /\ PieceAt(p, home[2]) = [color |-> home[3], kind |-> "Rook"]

=============================================================================
