------------------------------- MODULE MoveGen -------------------------------
(***************************************************************************)
(* Legal move generation (src/movegen.rs and src/movegen/): no move is     *)
(* tried and taken back.  One bundle of masks is computed for the          *)
(* position (checkers, pinned pieces and their rays, the squares that      *)
(* answer a check, the squares the king must not enter), and every piece   *)
(* filters its attack set through it.                                      *)
(***************************************************************************)
EXTENDS Position

(* Flag nibble of a move: bit 2 says capture, bit 3 promotion. *)
Quiet == 0
DoublePush == 1
KingCastle == 2
QueenCastle == 3
Capture == 4
EnPassant == 5
MoveFlag == (0..5) \cup (8..15)

Move == [from : Square, to : Square, flag : MoveFlag]
MoveOf(from, to, flag) == [from |-> from, to |-> to, flag |-> flag]

IsCapture(mv) == (mv.flag \div 4) % 2 = 1
IsPromotion(mv) == mv.flag >= 8
PromoKind == [i \in 0..3 |-> CASE i = 0 -> "Knight" [] i = 1 -> "Bishop" [] i = 2 -> "Rook" [] i = 3 -> "Queen"]
PromotionKind(mv) == IF IsPromotion(mv) THEN PromoKind[mv.flag % 4] ELSE "None"

-----------------------------------------------------------------------------
(* Masks. *)

CheckersOf(p, us, kingSq, occ) ==
  LET them == Flip(us)
      diag == Pieces(p, them, "Bishop") \cup Pieces(p, them, "Queen")
      orth == Pieces(p, them, "Rook") \cup Pieces(p, them, "Queen")
  IN (PawnAttacks[us][kingSq] \cap Pieces(p, them, "Pawn"))
       \cup (KnightAttacks[kingSq] \cap Pieces(p, them, "Knight"))
       \cup (MagicBishop(kingSq, occ) \cap diag)
       \cup (MagicRook(kingSq, occ) \cap orth)

AttackedSquares(p, attacker, occ) ==
  LET pawns == Pieces(p, attacker, "Pawn")
      diag == Pieces(p, attacker, "Bishop") \cup Pieces(p, attacker, "Queen")
      orth == Pieces(p, attacker, "Rook") \cup Pieces(p, attacker, "Queen")
  IN (IF attacker = "White" THEN ShiftNorthEast(pawns) \cup ShiftNorthWest(pawns)
                            ELSE ShiftSouthEast(pawns) \cup ShiftSouthWest(pawns))
       \cup (UNION {KnightAttacks[s] : s \in Pieces(p, attacker, "Knight")})
       \cup (UNION {MagicBishop(s, occ) : s \in diag})
       \cup (UNION {MagicRook(s, occ) : s \in orth})
       \cup KingAttacks[p.kingSq[attacker]]

(* Our pieces that stand alone between our king and a slider of theirs,    *)
(* each with that slider: <<piece, slider>>.                               *)
Pins(p, us, kingSq) ==
  LET them == Flip(us)
      occ == OccupiedAll(p)
      orth == Pieces(p, them, "Rook") \cup Pieces(p, them, "Queen")
      diag == Pieces(p, them, "Bishop") \cup Pieces(p, them, "Queen")
      candidates == (MagicRook(kingSq, {}) \cap orth) \cup (MagicBishop(kingSq, {}) \cap diag)
  IN UNION {LET between == Between[kingSq][slider] \cap occ IN
            IF Cardinality(between) = 1 THEN (between \cap Occupied(p, us)) \X {slider} ELSE {} :
              slider \in candidates}

IsSliderAt(p, c, s) == \E k \in {"Bishop", "Rook", "Queen"} : s \in Pieces(p, c, k)

Masks(p, us, kingSq, checkers, pins) ==
  LET them == Flip(us)
      occ == OccupiedAll(p)
      pinned == {pin[1] : pin \in pins}
      n == Cardinality(checkers)
  IN [checkers |-> checkers,
      pinned |-> pinned,
      pinRay |-> [s \in Square |->
                    IF s \in pinned
                    THEN LET pin == CHOOSE pin \in pins : pin[1] = s IN Line[kingSq][pin[2]]
                    ELSE Square],
      captureMask |-> CASE n = 0 -> Occupied(p, them) [] n = 1 -> checkers [] OTHER -> {},
      pushMask |-> CASE n = 0 -> Square \ occ
                     [] n = 1 -> UNION {IF IsSliderAt(p, them, c) THEN Between[kingSq][c] ELSE {} : c \in checkers}
                     [] OTHER -> {},
      kingDanger |-> AttackedSquares(p, them, occ \ {kingSq})]

MaskInfo(p, us, kingSq) ==
  Masks(p, us, kingSq, CheckersOf(p, us, kingSq, OccupiedAll(p)), Pins(p, us, kingSq))

InCheck(p) == CheckersOf(p, p.side, p.kingSq[p.side], OccupiedAll(p)) # {}

-----------------------------------------------------------------------------
(* The emitters. *)

CaptureOrQuiet(p, us, to) == IF to \in Occupied(p, Flip(us)) THEN Capture ELSE Quiet

(* King, rook, the squares that must be empty, the squares the king        *)
(* stands on or passes.                                                    *)
CastlingPath ==
  [WhiteKing |-> [us |-> "White", king |-> <<E1, G1>>, flag |-> KingCastle,
                  clear |-> {F1, G1}, safe |-> {E1, F1, G1}],
   WhiteQueen |-> [us |-> "White", king |-> <<E1, C1>>, flag |-> QueenCastle,
                   clear |-> {B1, C1, D1}, safe |-> {E1, D1, C1}],
   BlackKing |-> [us |-> "Black", king |-> <<E8, G8>>, flag |-> KingCastle,
                  clear |-> {F8, G8}, safe |-> {E8, F8, G8}],
   BlackQueen |-> [us |-> "Black", king |-> <<E8, C8>>, flag |-> QueenCastle,
                   clear |-> {B8, C8, D8}, safe |-> {E8, D8, C8}]]

CastlingMoves(p, us, info) ==
  {MoveOf(CastlingPath[r].king[1], CastlingPath[r].king[2], CastlingPath[r].flag) :
     r \in {r \in p.castling :
              /\ info.checkers = {}
              /\ CastlingPath[r].us = us
              /\ CastlingPath[r].clear \cap OccupiedAll(p) = {}
              /\ CastlingPath[r].safe \cap info.kingDanger = {}}}

KingMoves(p, us, kingSq, info) ==
  {MoveOf(kingSq, to, CaptureOrQuiet(p, us, to)) :
     to \in (KingAttacks[kingSq] \ Occupied(p, us)) \ info.kingDanger}
    \cup CastlingMoves(p, us, info)

KnightMoves(p, us, info) ==
  UNION {{MoveOf(from, to, CaptureOrQuiet(p, us, to)) :
            to \in (KnightAttacks[from] \ Occupied(p, us)) \cap (info.captureMask \cup info.pushMask)} :
          from \in Pieces(p, us, "Knight") \ info.pinned}

SliderMoves(p, us, info) ==
  LET attacks(k, from) == CASE k = "Bishop" -> MagicBishop(from, OccupiedAll(p))
                            [] k = "Rook"   -> MagicRook(from, OccupiedAll(p))
                            [] k = "Queen"  -> MagicQueen(from, OccupiedAll(p))
      dests(k, from) == (attacks(k, from) \ Occupied(p, us))
                          \cap (info.captureMask \cup info.pushMask) \cap info.pinRay[from]
  IN UNION {UNION {{MoveOf(from, to, CaptureOrQuiet(p, us, to)) : to \in dests(k, from)} :
                     from \in Pieces(p, us, k)} : k \in {"Bishop", "Rook", "Queen"}}

PushStep(us) == IF us = "White" THEN 8 ELSE -8
StartRank(us) == IF us = "White" THEN 1 ELSE 6
PromoRank(us) == IF us = "White" THEN 7 ELSE 0

(* A pawn move fans out to the four promotions on the last rank. *)
PawnMove(us, from, to, flag) ==
  IF Rank(to) = PromoRank(us)
  THEN {MoveOf(from, to, (IF flag = Capture THEN 12 ELSE 8) + i) : i \in 0..3}
  ELSE {MoveOf(from, to, flag)}

PawnPushes(p, us, info, from) ==
  LET one == from + PushStep(us)
      two == one + PushStep(us)
      allowed == info.pushMask \cap info.pinRay[from]
  IN IF one \notin Square \ OccupiedAll(p) THEN {}
     ELSE (IF one \in allowed THEN PawnMove(us, from, one, Quiet) ELSE {})
            \cup (IF Rank(from) = StartRank(us) /\ two \in allowed
                  THEN {MoveOf(from, two, DoublePush)} ELSE {})

PawnCaptures(p, us, info, from) ==
  UNION {PawnMove(us, from, to, Capture) :
           to \in PawnAttacks[us][from] \cap Occupied(p, Flip(us))
                    \cap info.captureMask \cap info.pinRay[from]}

\* Mutant: the king is not looked at again once both pawns have moved.
EnPassantUnguarded(p, us) ==
  IF p.ep = NoSquare THEN {}
  ELSE {MoveOf(from, p.ep, EnPassant) : from \in PawnAttacks[Flip(us)][p.ep] \cap Pieces(p, us, "Pawn")}

(* En passant takes neither the masks nor the pins: what counts is whether *)
(* a slider reaches the king once both pawns have moved.                   *)
EnPassantMoves(p, us) ==
  LET them == Flip(us)
      kingSq == p.kingSq[us]
      captured == p.ep - PushStep(us)
      orth == Pieces(p, them, "Rook") \cup Pieces(p, them, "Queen")
      diag == Pieces(p, them, "Bishop") \cup Pieces(p, them, "Queen")
      after(from) == (OccupiedAll(p) \ {from, captured}) \cup {p.ep}
  IN IF p.ep = NoSquare THEN {}
     ELSE {MoveOf(from, p.ep, EnPassant) :
             from \in {from \in PawnAttacks[them][p.ep] \cap Pieces(p, us, "Pawn") :
                         /\ MagicRook(kingSq, after(from)) \cap orth = {}
                         /\ MagicBishop(kingSq, after(from)) \cap diag = {}}}

PawnMoves(p, us, info) ==
  (UNION {PawnPushes(p, us, info, from) \cup PawnCaptures(p, us, info, from) : from \in Pieces(p, us, "Pawn")})
    \cup EnPassantMoves(p, us)

MovesThrough(p, us, kingSq, info) ==
  KingMoves(p, us, kingSq, info)
    \cup (IF Cardinality(info.checkers) <= 1
          THEN PawnMoves(p, us, info) \cup KnightMoves(p, us, info) \cup SliderMoves(p, us, info)
          ELSE {})

GenerateMoves(p) ==
  MovesThrough(p, p.side, p.kingSq[p.side], MaskInfo(p, p.side, p.kingSq[p.side]))

(* from_uci: the moves a <<from, to, promotion>> text could name; the code *)
(* takes the first one.                                                    *)
NamedBy(moves, text) == {mv \in moves : <<mv.from, mv.to, PromotionKind(mv)>> = text}

=============================================================================
