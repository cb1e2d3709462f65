----------------------------- MODULE Evaluation -----------------------------
(***************************************************************************)
(* The static evaluation (src/eval.rs and src/eval/): tapered terms from   *)
(* White's point of view, blended by the phase with one division, scaled   *)
(* down in drawish endings, and the pawn hash that serves the pawn         *)
(* structure to quiescence search.  A position carries its material and    *)
(* piece-square sum (Position); every other term is computed each time.    *)
(***************************************************************************)
EXTENDS Position, Sequences, SequencesExt

CONSTANTS Weights,          \* eval/data.rs
          HashSlots,        \* slots of the pawn hash
          PawnSlot(_)       \* the slot a pawn key's low bits select

\* Mutant: the quotient is rounded down.
DivEuclid(a, b) == a \div b

(* Integer division truncates towards zero. *)
Quot(a, b) == IF a < 0 THEN -((-a) \div b) ELSE a \div b

ToI16(n) == ((n + 32768) % 65536) - 32768

(* What White has of something less what Black has of it. *)
Balance(has) == Minus(has["White"], has["Black"])

-----------------------------------------------------------------------------
(* Fills and spans. *)

ShiftEast(B) == Shift(B \ FileH, 1)
ShiftWest(B) == Shift(B \ FileA, -1)
Sideways(B) == ShiftEast(B) \cup ShiftWest(B)

(* Three doubling shifts, by n, 2n and 4n. *)
Fill(B, n) ==
  LET once == B \cup Shift(B, n)
      twice == once \cup Shift(once, 2 * n)
  IN twice \cup Shift(twice, 4 * n)

NorthFill(B) == Fill(B, 8)
SouthFill(B) == Fill(B, -8)
FileFill(B) == NorthFill(B) \cup SouthFill(B)

Forward(c) == IF c = "White" THEN 8 ELSE -8

(* The squares strictly ahead, on the file; and with the files beside it. *)
FrontSpans(c, B) == Fill(Shift(B, Forward(c)), Forward(c))
AttackFrontSpans(c, B) == FrontSpans(c, B) \cup Sideways(FrontSpans(c, B))

AttackedByPawns(c, B) ==
  IF c = "White" THEN ShiftNorthEast(B) \cup ShiftNorthWest(B) ELSE ShiftSouthEast(B) \cup ShiftSouthWest(B)

RelativeRank(c, s) == IF c = "White" THEN Rank(s) ELSE 7 - Rank(s)

-----------------------------------------------------------------------------
(* Pawn structure. *)

IsolatedPawns(own) == own \ Sideways(FileFill(own))

(* One less than the pawns of a file, whichever of them. *)
DoubledPawns(own) == own \cap FrontSpans("Black", own)

BackwardPawns(own, enemy, side) ==
  LET stops == Shift(own, Forward(side)) \cap AttackedByPawns(Flip(side), enemy)
  IN Shift(stops \ Sideways(FrontSpans(side, own)), -Forward(side))

ConnectedPawns(own, side) == own \cap (Sideways(own) \cup AttackedByPawns(side, own))

PassedPawns(own, enemy, side) == own \ AttackFrontSpans(Flip(side), enemy)

PawnEval(p) ==
  LET own == [c \in Color |-> Pieces(p, c, "Pawn")]
      structure == [c \in Color |->
        Plus(Plus(Times(Cardinality(IsolatedPawns(own[c])), Weights.iso),
                  Times(Cardinality(DoubledPawns(own[c])), Weights.dbl)),
             Plus(Times(Cardinality(BackwardPawns(own[c], own[Flip(c)], c)), Weights.bwd),
                  Total(LAMBDA s : Weights.conn[RelativeRank(c, s)], ConnectedPawns(own[c], c))))]
  IN [score |-> Balance(structure), passed |-> [c \in Color |-> PassedPawns(own[c], own[Flip(c)], c)]]

(* The pawn hash.  A key of no bits marks an empty slot, so that a         *)
(* position with that key is computed each time.                           *)
EmptySlot == [key |-> {}, score |-> Zero, passed |-> [c \in Color |-> {}]]
NewPawnHash == [slot \in 0..(HashSlots - 1) |-> EmptySlot]

\* Mutant: whatever is in the slot is taken.
AnyOccupant(table, key) == table[PawnSlot(key)].key # {}

IsHit(table, key) == table[PawnSlot(key)].key = key

Entry(key, pe) == [key |-> key, score |-> <<ToI16(pe.score[1]), ToI16(pe.score[2])>>, passed |-> pe.passed]

ComputeAndStore(table, key, pe) ==
  [eval |-> pe, table |-> IF key = {} THEN table ELSE [table EXCEPT ![PawnSlot(key)] = Entry(key, pe)]]

PawnHashGet(table, p) ==
  LET key == p.pawnZobrist
      entry == table[PawnSlot(key)]
  IN IF key # {} /\ IsHit(table, key)
     THEN [eval |-> [score |-> entry.score, passed |-> entry.passed], table |-> table]
     ELSE ComputeAndStore(table, key, PawnEval(p))

-----------------------------------------------------------------------------
(* Material. *)

Light == {s \in Square : (File(s) + Rank(s)) % 2 = 1}

Bishops(p, c) == Pieces(p, c, "Bishop")
OneBishopEach(p) == \A c \in Color : Cardinality(Bishops(p, c)) = 1
SameComplex(p) == (Bishops(p, "White") \cap Light # {}) <=> (Bishops(p, "Black") \cap Light # {})

KbkbSameColor(p) == OneBishopEach(p) /\ SameComplex(p)

IsInsufficientMaterial(p) ==
  LET count == Cardinality(OccupiedAll(p))
      alone(kind) == Cardinality(p.pieceBb[kind]) = 1
  IN \/ count = 2
     \/ count = 3 /\ (alone("Knight") \/ alone("Bishop"))
     \/ count = 4 /\ KbkbSameColor(p)

BishopPairBonus == <<30, 50>>

BishopPairTerm(p) ==
  Balance([c \in Color |->
    IF Bishops(p, c) \cap Light # {} /\ Bishops(p, c) \ Light # {} THEN BishopPairBonus ELSE Zero])

-----------------------------------------------------------------------------
(* The mop-up: with little material left the losing king is driven to a    *)
(* corner and the winning king close to it.                                *)

CenterManhattanDistance(s) ==
  Min({Abs(File(s) - 3), Abs(File(s) - 4)}) + Min({Abs(Rank(s) - 3), Abs(Rank(s) - 4)})

ChebyshevDistance(a, b) == Max({Abs(File(a) - File(b)), Abs(Rank(a) - Rank(b))})

MopUpPhaseMax == 5
MopUpMinAdvantage == 100
FullPhase == 24

Phase(p) == Min({p.phase, FullPhase})
Blend(score, phase) == Quot(score[1] * phase + score[2] * (FullPhase - phase), FullPhase)

MopUp(p, advantage) ==
  LET drive(loser) == 4 * CenterManhattanDistance(p.kingSq[loser])
                        + 2 * (14 - ChebyshevDistance(p.kingSq["White"], p.kingSq["Black"]))
  IN IF p.phase >= MopUpPhaseMax \/ Abs(advantage) <= MopUpMinAdvantage THEN 0
     ELSE IF advantage > 0 THEN drive("Black") ELSE -drive("White")

MopUpTerm(p, score) == MopUp(p, Blend(score, Phase(p)))

-----------------------------------------------------------------------------
(* Terms of the pieces. *)

KdistCap == 5

PromotionSquare(side, s) == FromFileRank(File(s), IF side = "White" THEN 7 ELSE 0)
KingSteps(p, side, s) == Min({ChebyshevDistance(p.kingSq[side], PromotionSquare(side, s)), KdistCap})
EnemySteps(p, side, s) == Min({ChebyshevDistance(p.kingSq[Flip(side)], PromotionSquare(side, s)), KdistCap})

(* 1 when the way to promotion is free, -1 when an enemy is on it. *)
PathState(p, side, s) ==
  LET path == FrontSpans(side, {s})
  IN IF path \cap OccupiedAll(p) = {} THEN 1 ELSE IF path \cap Occupied(p, Flip(side)) # {} THEN -1 ELSE 0

PassedPawnTerm(p, passed) ==
  LET of(side, s) ==
        LET rel == RelativeRank(side, s)
        IN Plus(Weights.passed[rel],
                <<0, PathState(p, side, s) * Weights.free[rel]
                       + rel * Weights.kdistOwn * (KdistCap - KingSteps(p, side, s))
                       + rel * Weights.kdistEnemy * (EnemySteps(p, side, s) - KdistCap)>>)
  IN Balance([side \in Color |-> Total(LAMBDA s : of(side, s), passed[side])])

(* Pins are ignored, and nothing sees through a piece. *)
PieceAttacks(kind, s, occ) ==
  CASE kind = "Knight" -> KnightAttacks[s]
    [] kind = "Bishop" -> MagicBishop(s, occ)
    [] kind = "Rook"   -> MagicRook(s, occ)
    [] kind = "Queen"  -> MagicQueen(s, occ)

MobileKind == {"Knight", "Bishop", "Rook", "Queen"}

MobilityArea(p, side) ==
  Square \ (Occupied(p, side) \cup AttackedByPawns(Flip(side), Pieces(p, Flip(side), "Pawn")))

MobilityTerm(p) ==
  LET area == [side \in Color |-> MobilityArea(p, side)]
      of(side, kind, s) ==
        Weights.mobility[kind][Cardinality(PieceAttacks(kind, s, OccupiedAll(p)) \cap area[side])]
  IN Balance([side \in Color |-> Total(LAMBDA s : of(side, p.mailbox[s].kind, s),
                                       {s \in Occupied(p, side) : p.mailbox[s].kind \in MobileKind})])

FilesOf(pawns) == {File(s) : s \in FileFill(pawns)}
FilesBeside(f) == {f - 1, f + 1} \cap (0..7)

ShieldTerm(p, side) ==
  LET kf == File(p.kingSq[side])
      home == IF side = "White" THEN 1 ELSE 6
      own == Pieces(p, side, "Pawn")
      guard(f) == IF FromFileRank(f, home) \in own THEN Weights.shield[1]
                  ELSE IF FromFileRank(f, home + Forward(side) \div 8) \in own THEN Weights.shield[2] ELSE Zero
  IN IF kf \in {3, 4} THEN Zero ELSE Total(guard, {kf} \cup FilesBeside(kf))

OpenFileTerm(p, side) ==
  LET kf == File(p.kingSq[side])
      any == FilesOf(p.pieceBb["Pawn"])
      own == FilesOf(Pieces(p, side, "Pawn"))
      bare == FilesBeside(kf) \ own
      kingFile == IF kf \notin any THEN Weights.kfileOpen ELSE IF kf \notin own THEN Weights.kfileSemi ELSE 0
  IN <<kingFile + Cardinality(bare) * Weights.adjSemi + (IF Cardinality(bare) = 2 THEN Weights.bothSemi ELSE 0), 0>>

KingSafetyTerm(p) ==
  Balance([side \in Color |-> Plus(ShieldTerm(p, side), OpenFileTerm(p, side))])

(* Held by a pawn, and no enemy pawn can ever come to attack it. *)
OutpostSquares(p, side) ==
  AttackedByPawns(side, Pieces(p, side, "Pawn")) \ AttackFrontSpans(Flip(side), Pieces(p, Flip(side), "Pawn"))

OutpostPieces(p, side, kind) ==
  {s \in Pieces(p, side, kind) \cap OutpostSquares(p, side) : RelativeRank(side, s) \in 3..5}

OutpostTerm(p) ==
  LET posted(side, kind) == Total(LAMBDA s : Weights.outpost[kind][RelativeRank(side, s)], OutpostPieces(p, side, kind))
  IN Balance([side \in Color |-> Plus(posted(side, "Knight"), posted(side, "Bishop"))])

RookFileTerm(p) ==
  LET files == [c \in Color |-> FileFill(Pieces(p, c, "Pawn"))]
      of(side, s) == IF s \in files[side] THEN Zero
                     ELSE IF s \in files[Flip(side)] THEN Weights.rookSemi ELSE Weights.rookOpen
  IN Balance([side \in Color |-> Total(LAMBDA s : of(side, s), Pieces(p, side, "Rook"))])

-----------------------------------------------------------------------------
(* Drawish endings are scaled down, in sixty-fourths. *)

ScaleDen == 64
FiftyTaperFrom == 80

IsOcbWithPawns(p) ==
  /\ p.pieceBb["Queen"] = {} /\ p.pieceBb["Rook"] = {} /\ p.pieceBb["Pawn"] # {}
  /\ OneBishopEach(p)
  /\ ~SameComplex(p)

IsPawnlessDrawish(p) ==
  LET n(c, kind) == Cardinality(Pieces(p, c, kind))
      minors(c) == n(c, "Knight") + n(c, "Bishop")
      twoKnights(c) == n(c, "Knight") = 2 /\ n(c, "Bishop") = 0 /\ minors(Flip(c)) = 0
  IN /\ \A kind \in {"Pawn", "Queen", "Rook"} : p.pieceBb[kind] = {}
     /\ (\E c \in Color : twoKnights(c)) \/ (\A c \in Color : minors(c) <= 1)

ClampScale(n) == Max({0, Min({n, ScaleDen})})

(* From the taper's onset to the hundredth halfmove. *)
FiftyTaper(p, floor) ==
  LET span == 100 - FiftyTaperFrom
      prog == Min({p.halfmove - FiftyTaperFrom, span})
  IN ScaleDen - Quot((ScaleDen - floor) * prog, span)

EndgameScale(p) ==
  ClampScale(Min({ScaleDen}
    \cup (IF IsOcbWithPawns(p) THEN {Weights.ocbScale} ELSE {})
    \cup (IF IsPawnlessDrawish(p) THEN {Weights.pawnlessScale} ELSE {})
    \cup (IF p.halfmove > FiftyTaperFrom THEN {FiftyTaper(p, Weights.fiftyFloor)} ELSE {})))

-----------------------------------------------------------------------------

(* Blended and scaled; the mop-up, from the material alone, is not scaled. *)
ScoreWhite(p, score, sum, phase) ==
  IF IsInsufficientMaterial(p) THEN 0
  ELSE Quot(Blend(sum, phase) * EndgameScale(p), ScaleDen) + MopUpTerm(p, score)

EvaluateCore(p, pe) ==
  LET terms == <<p.score, BishopPairTerm(p), pe.score, PassedPawnTerm(p, pe.passed), MobilityTerm(p),
                 KingSafetyTerm(p), OutpostTerm(p), RookFileTerm(p)>>
  IN (IF p.side = "White" THEN 1 ELSE -1) * ScoreWhite(p, p.score, FoldLeft(Plus, Zero, terms), Phase(p))

Evaluate(p) == EvaluateCore(p, PawnEval(p))

EvaluateCached(p, table) == EvaluateCore(p, PawnHashGet(table, p).eval)

=============================================================================
