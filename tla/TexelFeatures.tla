--------------------------- MODULE TexelFeatures ---------------------------
(***************************************************************************)
(* The tuner's view of the evaluation (src/texel/): the weights it tunes   *)
(* laid out in one vector, the sparse features of a position that the      *)
(* vector is multiplied with, the linear model a tune trains on, and the   *)
(* reference scorer.  The features come from accessors beside the terms of *)
(* the evaluation, which repeat what the terms detect.                     *)
(***************************************************************************)
EXTENDS Evaluation

-----------------------------------------------------------------------------
(* Layout of the core vector, indices counted from 0. *)

Groups == <<"IsoDblBwd", "Conn", "Passed", "MobN", "MobB", "MobR", "MobQ", "KsShieldFile", "Outpost", "RookFile">>
GroupLen == <<6, 12, 19, 18, 28, 30, 56, 8, 12, 4>>

Ordinal(group) == CHOOSE i \in DOMAIN Groups : Groups[i] = group
StartOfOrdinal(i) == MapThenSumSet(LAMBDA j : GroupLen[j], 1..(i - 1))
GroupStart == [group \in {Groups[i] : i \in DOMAIN Groups} |-> StartOfOrdinal(Ordinal(group))]
NCore == StartOfOrdinal(Len(GroupLen) + 1)
CoreIndex == 0..(NCore - 1)

GroupOf == [idx \in CoreIndex |-> Groups[Max({i \in DOMAIN Groups : StartOfOrdinal(i) <= idx})]]

\* Mutant: the outposts are taken for one block of each parity.
MgInBlocks(group, local) ==
  CASE group \in {"IsoDblBwd", "RookFile"} -> local % 2 = 0
    [] group = "Passed" -> local < 5
    [] group = "KsShieldFile" -> local \notin {1, 3}
    [] OTHER -> local < GroupLen[Ordinal(group)] \div 2

MgParity(group, local) ==
  CASE group \in {"IsoDblBwd", "RookFile"} -> local % 2 = 0
    [] group \in {"Conn", "MobN", "MobB", "MobR", "MobQ"} -> local < GroupLen[Ordinal(group)] \div 2
    [] group = "Passed" -> local < 5
    [] group = "KsShieldFile" -> local \notin {1, 3}
    [] group = "Outpost" -> local % 6 < 3

IsMg == [idx \in CoreIndex |-> MgParity(GroupOf[idx], idx - GroupStart[GroupOf[idx]])]

-----------------------------------------------------------------------------
(* The vector and the weights by name.  What is not in the vector, the     *)
(* ranks a term never reads and the scales, stays as it was.               *)

Buckets == [Knight |-> 9, Bishop |-> 14, Rook |-> 15, Queen |-> 28]

Column(table, phase, ranks) ==
  [i \in 1..Cardinality(ranks) |-> table[Min(ranks) + i - 1][phase]]
BothColumns(table, ranks) == Column(table, 1, ranks) \o Column(table, 2, ranks)

CoreToVec(w) ==
  LET moves(kind) == BothColumns(w.mobility[kind], 0..(Buckets[kind] - 1))
  IN w.iso \o w.dbl \o w.bwd
       \o BothColumns(w.conn, 2..7)
       \o Column(w.passed, 1, 2..6) \o Column(w.passed, 2, 2..7)
       \o [i \in 1..6 |-> w.free[i + 1]] \o <<w.kdistOwn, w.kdistEnemy>>
       \o moves("Knight") \o moves("Bishop") \o moves("Rook") \o moves("Queen")
       \o w.shield[1] \o w.shield[2] \o <<w.kfileSemi, w.kfileOpen, w.adjSemi, w.bothSemi>>
       \o BothColumns(w.outpost["Knight"], 3..5) \o BothColumns(w.outpost["Bishop"], 3..5)
       \o w.rookOpen \o w.rookSemi

WithCore(w, v) ==
  LET at(i) == v[i + 1]
      pair(i) == <<at(i), at(i + 1)>>
      value(old, k, ranks, start) == IF k \in ranks THEN at(start + k - Min(ranks)) ELSE old
      table(old, mgRanks, mgStart, egRanks, egStart) ==
        [k \in DOMAIN old |-> <<value(old[k][1], k, mgRanks, mgStart), value(old[k][2], k, egRanks, egStart)>>]
      moves(kind, start) ==
        LET all == 0..(Buckets[kind] - 1)
        IN table(w.mobility[kind], all, start, all, start + Buckets[kind])
  IN [w EXCEPT
        !.iso = pair(0), !.dbl = pair(2), !.bwd = pair(4),
        !.conn = table(@, 2..7, 6, 2..7, 12),
        !.passed = table(@, 2..6, 18, 2..7, 23),
        !.free = [k \in DOMAIN @ |-> value(@[k], k, 2..7, 29)],
        !.kdistOwn = at(35), !.kdistEnemy = at(36),
        !.mobility = [Knight |-> moves("Knight", 37), Bishop |-> moves("Bishop", 55),
                      Rook |-> moves("Rook", 83), Queen |-> moves("Queen", 113)],
        !.shield = <<pair(169), pair(171)>>,
        !.kfileSemi = at(173), !.kfileOpen = at(174), !.adjSemi = at(175), !.bothSemi = at(176),
        !.outpost = [Knight |-> table(@.Knight, 3..5, 177, 3..5, 180), Bishop |-> table(@.Bishop, 3..5, 183, 3..5, 186)],
        !.rookOpen = pair(189), !.rookSemi = pair(191)]

-----------------------------------------------------------------------------
(* Sparse features: <<core index, count>>, White's count less Black's. *)

Signed(count) == count["White"] - count["Black"]

(* The counts, from an index on, but for those that are nothing; and twice *)
(* over, for the middlegame block and for the endgame block after it.      *)
Sparse(start, counts) ==
  SelectSeq([i \in 1..Len(counts) |-> <<start + i - 1, counts[i]>>], LAMBDA feature : feature[2] # 0)
TwoBlocks(start, counts) == Sparse(start, counts) \o Sparse(start + Len(counts), counts)

IsoDblBwdFeatures(p) ==
  LET own == [c \in Color |-> Pieces(p, c, "Pawn")]
      pawns == [c \in Color |-> <<IsolatedPawns(own[c]), DoubledPawns(own[c]), BackwardPawns(own[c], own[Flip(c)], c)>>]
      count == [i \in 1..3 |-> Cardinality(pawns["White"][i]) - Cardinality(pawns["Black"][i])]
  IN Sparse(GroupStart["IsoDblBwd"], [i \in 1..6 |-> count[(i + 1) \div 2]])

ConnFeatures(p) ==
  LET connected == [c \in Color |-> ConnectedPawns(Pieces(p, c, "Pawn"), c)]
      onRank(c, rank) == Cardinality({s \in connected[c] : RelativeRank(c, s) = rank})
  IN TwoBlocks(GroupStart["Conn"], [i \in 1..6 |-> onRank("White", i + 1) - onRank("Black", i + 1)])

Reach(p, area) ==
  [s \in {s \in OccupiedAll(p) : p.mailbox[s].kind \in MobileKind} |->
     Cardinality(PieceAttacks(p.mailbox[s].kind, s, OccupiedAll(p)) \cap area[p.mailbox[s].color])]

MobilityHistograms(p, reach) ==
  LET inBucket(c, kind, n) == Cardinality({s \in Pieces(p, c, kind) : reach[s] = n})
  IN [kind \in MobileKind |->
        [n \in 1..Buckets[kind] |-> inBucket("White", kind, n - 1) - inBucket("Black", kind, n - 1)]]

MobilityFeatures(p) ==
  LET histograms == MobilityHistograms(p, Reach(p, [c \in Color |-> MobilityArea(p, c)]))
      of == [i \in 1..4 |-> TwoBlocks(GroupStart[Groups[i + 3]], histograms[<<"Knight", "Bishop", "Rook", "Queen">>[i]])]
  IN FlattenSeq(of)

(* The eight slots: shield pawns on the second rank, twice; on the third,  *)
(* twice; king file semi-open, open; bare files beside it; both bare.      *)
ShieldOpenFileCounts(p, side) ==
  LET kf == File(p.kingSq[side])
      home == IF side = "White" THEN 1 ELSE 6
      second == {f \in 0..7 : FromFileRank(f, home) \in Pieces(p, side, "Pawn")}
      third == {f \in 0..7 : FromFileRank(f, home + Forward(side) \div 8) \in Pieces(p, side, "Pawn")} \ second
      near == IF kf \in {3, 4} THEN {} ELSE {kf} \cup FilesBeside(kf)
      bare == FilesBeside(kf) \ FilesOf(Pieces(p, side, "Pawn"))
      open == kf \notin FilesOf(p.pieceBb["Pawn"])
      one(holds) == IF holds THEN 1 ELSE 0
  IN <<Cardinality(near \cap second), Cardinality(near \cap second),
       Cardinality(near \cap third), Cardinality(near \cap third),
       one(~open /\ kf \notin FilesOf(Pieces(p, side, "Pawn"))), one(open),
       Cardinality(bare), one(Cardinality(bare) = 2)>>

ShieldOpenFileFeatures(p) ==
  LET counts == [c \in Color |-> ShieldOpenFileCounts(p, c)]
  IN Sparse(GroupStart["KsShieldFile"], [i \in 1..8 |-> counts["White"][i] - counts["Black"][i]])

OutpostFeatures(p) ==
  LET on(c, kind, rank) == Cardinality({s \in OutpostPieces(p, c, kind) : RelativeRank(c, s) = rank})
      ranks(kind) == [i \in 1..3 |-> on("White", kind, i + 2) - on("Black", kind, i + 2)]
  IN TwoBlocks(GroupStart["Outpost"], ranks("Knight")) \o TwoBlocks(GroupStart["Outpost"] + 6, ranks("Bishop"))

RookFileFeatures(p) ==
  LET filled == [c \in Color |-> FileFill(Pieces(p, c, "Pawn"))]
      open == [c \in Color |-> Cardinality(Pieces(p, c, "Rook") \ (filled["White"] \cup filled["Black"]))]
      semi == [c \in Color |-> Cardinality((Pieces(p, c, "Rook") \cap filled[Flip(c)]) \ filled[c])]
  IN Sparse(GroupStart["RookFile"], <<Signed(open), Signed(open), Signed(semi), Signed(semi)>>)

(* Rank bonus, free path and king distance of the passed pawns; the bonus  *)
(* of the seventh rank is none of the vector's in the middlegame.          *)
PassedCounts(p, passed) ==
  LET on(side, rel) == {s \in passed[side] : RelativeRank(side, s) = rel}
      free(side, rel) == MapThenSumSet(LAMBDA s : PathState(p, side, s), on(side, rel))
      own(side) == MapThenSumSet(LAMBDA s : RelativeRank(side, s) * (KdistCap - KingSteps(p, side, s)), passed[side])
      enemy(side) == MapThenSumSet(LAMBDA s : RelativeRank(side, s) * (EnemySteps(p, side, s) - KdistCap), passed[side])
      count(side, i) ==
        CASE i \in 1..5   -> Cardinality(on(side, i + 1))
          [] i \in 6..11  -> Cardinality(on(side, i - 4))
          [] i \in 12..17 -> free(side, i - 10)
          [] i = 18       -> own(side)
          [] i = 19       -> enemy(side)
      counts == [side \in Color |-> [i \in 1..19 |-> count(side, i)]]
  IN [i \in 1..19 |-> counts["White"][i] - counts["Black"][i]]

PassedFeatures(p) == Sparse(GroupStart["Passed"], PassedCounts(p, PawnEval(p).passed))

-----------------------------------------------------------------------------
(* The scorers.  Sums of weights times counts are exact here, as they are  *)
(* in an f64 at integer weights.                                           *)

DotFeatures(features, core) ==
  LET part(idx, count) == IF IsMg[idx] THEN <<core[idx + 1] * count, 0>> ELSE <<0, core[idx + 1] * count>>
      dot[n \in 0..Len(features)] == IF n = 0 THEN Zero ELSE Plus(dot[n - 1], part(features[n][1], features[n][2]))
  IN dot[Len(features)]

(* The weights read back into a vector, once. *)
ShippedCore == CoreToVec(Weights)

LinearFeatures(p) ==
  IsoDblBwdFeatures(p) \o ConnFeatures(p) \o MobilityFeatures(p) \o ShieldOpenFileFeatures(p)
    \o OutpostFeatures(p) \o RookFileFeatures(p)

(* At the weights that play.  Its own copies of the passed pawn term and   *)
(* of the endgame scale read the same weights by name.                     *)
ReferenceScoreWhite(p) ==
  LET score == ScoreFromScratch(p)
      sum == Plus(Plus(score, BishopPairTerm(p)),
                  Plus(DotFeatures(LinearFeatures(p), ShippedCore), PassedPawnTerm(p, PawnEval(p).passed)))
  IN ScoreWhite(p, score, sum, Min({PhaseFromScratch(p), FullPhase}))

Extract(p) ==
  [base |-> Plus(ScoreFromScratch(p), BishopPairTerm(p)),
   mopUp |-> MopUpTerm(p, ScoreFromScratch(p)),
   phase |-> Min({PhaseFromScratch(p), FullPhase}),
   coeffs |-> LinearFeatures(p) \o PassedFeatures(p)]

(* In twenty-fourths of a centipawn: the model does not round. *)
ModelScoreWhite(fv, core) ==
  LET sum == Plus(fv.base, DotFeatures(fv.coeffs, core))
  IN sum[1] * fv.phase + sum[2] * (FullPhase - fv.phase) + FullPhase * fv.mopUp

=============================================================================
