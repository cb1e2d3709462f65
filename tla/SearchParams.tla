---------------------------- MODULE SearchParams ----------------------------
(***************************************************************************)
(* The constants of the interior search and the formulas built on them     *)
(* (search/params.rs, search/qsearch.rs and the helpers at the top of      *)
(* search.rs).  The names are the source's.  None of these operators       *)
(* depends on a position.                                                  *)
(***************************************************************************)
EXTENDS Integers

CONSTANTS
  MATE, MAX_PLY, INF,
  RFP_MAX_DEPTH, RFP_MARGIN_PER_DEPTH,           \* reverse futility pruning
  NMP_MIN_DEPTH, NMP_BASE_R, NMP_DEPTH_DIVISOR,  \* null-move pruning
  FFP_MAX_DEPTH, FFP_MARGIN,                     \* frontier futility, by depth
  LMR_MIN_DEPTH, LMR_MIN_QUIET_INDEX, LMR_HIGH_HISTORY_THRESHOLD,
  LMR_RAW,     \* floor(LMR_BASE_OFFSET + ln depth * ln index / LMR_LOG_DIVISOR)
  SE_MIN_DEPTH, SE_MARGIN_PER_DEPTH, SE_TT_DEPTH_DELTA,  \* singular extension
  PVS_RAMP_D0, PVS_RAMP_BASE, PVS_RAMP_SLOPE,    \* when to scout
  QS_SEE_RAMP_D0, QS_SEE_RAMP_SLOPE, QS_SEE_RAMP_FLOOR,
  MAX_HISTORY

\* The assertions that the source makes about its constants when it compiles,
\* and the ones its arithmetic on unsigned depths takes for granted.
ASSUME ParamsAssumption ==
  /\ MATE \in Nat /\ MAX_PLY \in Nat \ {0} /\ 2 * MAX_PLY < MATE /\ INF = MATE + 1
  /\ FFP_MAX_DEPTH < LMR_MIN_DEPTH /\ FFP_MAX_DEPTH < SE_MIN_DEPTH
  /\ QS_SEE_RAMP_FLOOR <= 0 /\ QS_SEE_RAMP_SLOPE >= 0
  /\ NMP_DEPTH_DIVISOR > 0 /\ NMP_MIN_DEPTH >= 1 + NMP_BASE_R
  /\ 0 < MAX_HISTORY /\ LMR_HIGH_HISTORY_THRESHOLD <= MAX_HISTORY

MATE_IN_MAX_PLY == MATE - MAX_PLY

Larger(a, b) == IF a >= b THEN a ELSE b
Smaller(a, b) == IF a <= b THEN a ELSE b
Clamp(x, lo, hi) == Smaller(Larger(x, lo), hi)
Size(x) == Larger(x, -x)

\* A score that stands for a mate.
IsMate(score) == Size(score) >= MATE_IN_MAX_PLY

reverse_futility_margin(depth) == RFP_MARGIN_PER_DEPTH * depth
null_move_reduction(depth) == NMP_BASE_R + depth \div NMP_DEPTH_DIVISOR
frontier_futility_margin(depth) ==
  IF depth \in DOMAIN FFP_MARGIN THEN FFP_MARGIN[depth] ELSE 0

\* The child of a reduced move keeps a depth of at least 1.
late_move_reduction(depth, quiet_index) ==
  IF depth < LMR_MIN_DEPTH \/ quiet_index < LMR_MIN_QUIET_INDEX THEN 0
  ELSE Clamp(LMR_RAW[depth, quiet_index], 0, Larger(depth - 2, 0))

lmr_needs_full_research(reduced_score, alpha) == reduced_score > alpha

singular_beta(tt_score, depth) ==
  Larger(tt_score - SE_MARGIN_PER_DEPTH * depth, -(MATE - 1))
verification_depth(depth) == (depth - 1) \div 2

pvs_needs_research(score, alpha, beta) == score > alpha /\ score < beta

\* Whether the move at rank i of the ordering is scouted, in an iteration of
\* this depth (pvs_scout_start compared with cur_i).
should_scout(i, root_depth) ==
  /\ root_depth > PVS_RAMP_D0
  /\ i >= Larger(1, Larger(0, PVS_RAMP_BASE - PVS_RAMP_SLOPE * (root_depth - PVS_RAMP_D0)))

qs_see_prune_threshold(root_depth) ==
  Clamp(-QS_SEE_RAMP_SLOPE * Larger(0, root_depth - QS_SEE_RAMP_D0), QS_SEE_RAMP_FLOOR, 0)

\* TtBound, in the table's encoding.
Exact == 0
Lower == 1
Upper == 2

\* What a search between alpha and beta has shown of the value.
\* Mutant: a score that equals beta is called exact.
LateBound(best, alpha, beta) ==
  IF best > beta THEN Lower ELSE IF best > alpha THEN Exact ELSE Upper
BoundOf(best, alpha, beta) ==
  IF best >= beta THEN Lower ELSE IF best > alpha THEN Exact ELSE Upper

\* Whether the best score so far has a witness searched at full depth.
best_is_full_depth_after_score(best, best_is_full_depth, score, move_is_full_depth) ==
  IF score > best THEN move_is_full_depth
  ELSE best_is_full_depth \/ (score = best /\ move_is_full_depth)
=============================================================================
