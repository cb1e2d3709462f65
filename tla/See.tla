--------------------------------- MODULE See ---------------------------------
(***************************************************************************)
(* Static exchange evaluation (src/see.rs): what a capture wins or loses   *)
(* when both sides go on recapturing on its square, each with its least    *)
(* valuable attacker, and each stops when going on would cost it.  The     *)
(* set of attackers is kept up to date by asking the magic tables again    *)
(* over the shrinking occupancy, never the board.                          *)
(***************************************************************************)
EXTENDS MoveGen, Sequences, SequencesExt

SeeValue == [Pawn |-> 82, Knight |-> 337, Bishop |-> 365, Rook |-> 477, Queen |-> 1025, King |-> 30000]

(* PieceKind::ALL, from the least to the most valuable. *)
KindsByValue == <<"Pawn", "Knight", "Bishop", "Rook", "Queen", "King">>

PromotionGain == SeeValue["Queen"] - SeeValue["Pawn"]

(* Every piece of either side that attacks s over the occupancy occ. *)
AttackersTo(p, s, occ) ==
  LET bishopLike == p.pieceBb["Bishop"] \cup p.pieceBb["Queen"]
      rookLike == p.pieceBb["Rook"] \cup p.pieceBb["Queen"]
  IN (PawnAttacks["Black"][s] \cap Pieces(p, "White", "Pawn"))
       \cup (PawnAttacks["White"][s] \cap Pieces(p, "Black", "Pawn"))
       \cup (KnightAttacks[s] \cap p.pieceBb["Knight"])
       \cup (MagicBishop(s, occ) \cap bishopLike)
       \cup (MagicRook(s, occ) \cap rookLike)
       \cup (KingAttacks[s] \cap p.pieceBb["King"])

(* The first kind that is there, and of its squares the lowest. *)
FindLva(p, attackers) ==
  LET present == {i \in 1..6 : attackers \cap p.pieceBb[KindsByValue[i]] # {}}
      kind == KindsByValue[Min(present)]
  IN [kind |-> kind, square |-> Min(attackers \cap p.pieceBb[kind])]

IsPromotionRank(to, side) == Rank(to) = IF side = "White" THEN 7 ELSE 0

\* Mutant: the sliders behind a piece that has captured are not looked for.
NoXrays(p, to, occ) == {}

(* The sliders that see the square over what is left on the board. *)
XraySliders(p, to, occ) ==
  ((MagicBishop(to, occ) \cap (p.pieceBb["Bishop"] \cup p.pieceBb["Queen"]))
     \cup (MagicRook(to, occ) \cap (p.pieceBb["Rook"] \cup p.pieceBb["Queen"]))) \cap occ

(* What each recapture takes, in order; stake is the value of the piece    *)
(* that stands on the square.  The king does not step into a defended      *)
(* square.  A side has at most sixteen pieces, so that the array of        *)
(* MAX_SEE_DEPTH gains never fills up.                                     *)
RECURSIVE Gains(_, _, _, _, _, _)
Gains(p, to, occ, attackers, side, stake) ==
  LET ours == attackers \cap occ \cap Occupied(p, side)
      theirs == attackers \cap occ \cap Occupied(p, Flip(side))
      lva == FindLva(p, ours)
      promotes == lva.kind = "Pawn" /\ IsPromotionRank(to, side)
      left == occ \ {lva.square}
  IN IF ours = {} \/ (lva.kind = "King" /\ theirs # {}) THEN <<>>
     ELSE <<stake + (IF promotes THEN PromotionGain ELSE 0)>>
            \o Gains(p, to, left, (attackers \ {lva.square}) \cup XraySliders(p, to, left), Flip(side),
                     SeeValue[IF promotes THEN "Queen" ELSE lva.kind])

(* Folded from the last gain to the first: nobody has to go on. *)
Backup(gains) == FoldRight(LAMBDA gain, next : gain - (IF next > 0 THEN next ELSE 0), gains, 0)

(* mv is a capture.  Every capture that promotes is taken for a queen. *)
SeeOf(p, mv) ==
  LET passant == mv.flag = EnPassant
      victimSq == IF passant THEN 8 * Rank(mv.from) + File(mv.to) ELSE mv.to
      promotes == IsPromotion(mv)
      victim == SeeValue[IF passant THEN "Pawn" ELSE PieceAt(p, mv.to).kind]
      stake == SeeValue[IF promotes THEN "Queen" ELSE PieceAt(p, mv.from).kind]
      occ == (IF passant THEN OccupiedAll(p) \ {victimSq} ELSE OccupiedAll(p)) \ {mv.from}
      first == victim + (IF promotes THEN PromotionGain ELSE 0)
  IN Backup(<<first>> \o Gains(p, mv.to, occ, AttackersTo(p, mv.to, occ), Flip(p.side), stake))

=============================================================================
