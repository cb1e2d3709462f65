------------------------- MODULE SearchDriver_proofs -------------------------
(***************************************************************************)
(* What compute_caps and max_depth_from_limits give, for every go command, *)
(* clock, increment and overhead; and the invariants of SearchDriver, for  *)
(* every setting of the options and every behaviour of negamax.            *)
(***************************************************************************)
EXTENDS SearchDriver, TLAPS

ClockSane(found, rem, overhead) ==
  /\ found.soft \in Nat /\ found.hard \in Nat
  /\ 1 <= found.soft /\ found.soft <= found.hard
  /\ rem > overhead => found.hard + overhead <= rem

(***************************************************************************)
(* The arithmetic of u64 that compute_caps uses.                           *)
(***************************************************************************)
LEMMA Arithmetic ==
  ASSUME NEW a \in Nat, NEW b \in Nat
  PROVE  /\ SaturatingSub(a, b) \in Nat /\ SaturatingSub(a, b) <= a
         /\ Smaller(a, b) \in Nat /\ Smaller(a, b) <= a /\ Smaller(a, b) <= b
         /\ AtLeast(a, b) \in Nat /\ AtLeast(a, b) >= a /\ AtLeast(a, b) >= b
         /\ Triple(a) \in Nat /\ (a <= MaxU64 => Triple(a) >= a)
         /\ (1 <= a => Triple(a) >= 1)
BY TimeAssumption DEF SaturatingSub, Smaller, AtLeast, Triple

(***************************************************************************)
(* The soft budget before the overhead is taken off is a natural number.   *)
(***************************************************************************)
LEMMA RawSoftIsNat ==
  ASSUME NEW rem \in Nat, NEW inc \in Nat, NEW denom \in Nat \ {0}
  PROVE  RawSoft(rem, inc, denom) \in Nat
<1>1. rem \div denom \in Nat
  BY DEF RawSoft
<1>2. inc \div 2 \in Nat
  OBVIOUS
<1> QED BY <1>1, <1>2 DEF RawSoft

(***************************************************************************)
(* A u64 holds the sum of the share of an i64 clock and half a u64         *)
(* increment: raw_soft, computed with a plain +, does not overflow.        *)
(***************************************************************************)
THEOREM RawSoftFits ==
  ASSUME NEW rem \in Nat, NEW inc \in Nat, NEW movestogo \in Option(Nat),
         2 * rem <= MaxU64, inc <= MaxU64
  PROVE  RawSoft(rem, inc, Denominator(movestogo)) <= MaxU64
<1> DEFINE denom == Denominator(movestogo)
<1>1. denom \in Nat \ {0}
  BY DEF Denominator, AtLeast, Option
<1> HIDE DEF denom
<1>2. rem \div denom <= rem
  BY <1>1
<1>3. 2 * (inc \div 2) <= inc
  OBVIOUS
<1>4. rem \div denom \in Nat /\ inc \div 2 \in Nat /\ MaxU64 \in Nat
  BY <1>1, TimeAssumption
<1>5. 2 * (rem \div denom + inc \div 2) <= 2 * MaxU64
  BY <1>2, <1>3, <1>4
<1>6. RawSoft(rem, inc, denom) <= MaxU64
  BY <1>4, <1>5 DEF RawSoft
<1> QED BY <1>6 DEF denom

(***************************************************************************)
(* ClockCaps: 1 <= soft <= hard, and what is left of the clock covers the  *)
(* hard cap and the overhead whenever it covers more than the overhead.    *)
(* (The tripled soft budget saturates, so soft itself must fit in a u64.)  *)
(***************************************************************************)
THEOREM ClockCapsSane ==
  ASSUME NEW rem \in Nat, NEW inc \in Nat, NEW movestogo \in Option(Nat),
         NEW overhead \in Nat, 2 * rem <= MaxU64, inc <= MaxU64
  PROVE  ClockSane(ClockCaps(rem, inc, movestogo, overhead), rem, overhead)
<1> DEFINE raw == RawSoft(rem, inc, Denominator(movestogo))
           soft == SaturatingSub(raw, overhead)
           clamp == MaxClamp(rem, overhead)
           softMs == AtLeast(1, Smaller(soft, clamp))
<1>1. raw \in Nat /\ raw <= MaxU64
  <2>1. Denominator(movestogo) \in Nat \ {0}
    BY DEF Denominator, AtLeast, Option
  <2> QED BY <2>1, RawSoftIsNat, RawSoftFits
<1> HIDE DEF raw
<1>2. soft \in Nat /\ soft <= MaxU64
  BY <1>1, TimeAssumption DEF SaturatingSub
<1> HIDE DEF soft
<1>3. clamp \in Nat /\ 1 <= clamp /\ (rem > overhead => clamp + overhead = rem)
  BY DEF MaxClamp, AtLeast, SaturatingSub
<1> HIDE DEF clamp
<1>4. softMs \in Nat /\ 1 <= softMs /\ softMs <= clamp /\ softMs <= MaxU64
  BY <1>2, <1>3, TimeAssumption DEF AtLeast, Smaller
<1> HIDE DEF softMs
<1>5. CASE rem = 0 /\ inc = 0
  BY <1>5 DEF ClockSane, ClockCaps, Caps
<1>6. CASE rem = 0 /\ inc # 0
  <2>1. AtLeast(1, soft) \in Nat /\ 1 <= AtLeast(1, soft)
    BY <1>2 DEF AtLeast
  <2>2. /\ AtLeast(1, Triple(soft)) \in Nat
        /\ AtLeast(1, soft) <= AtLeast(1, Triple(soft))
    BY <1>2, TimeAssumption DEF AtLeast, Triple, Smaller
  <2>3. ClockCaps(rem, inc, movestogo, overhead)
          = Caps(AtLeast(1, soft), AtLeast(1, Triple(soft)))
    BY <1>6 DEF ClockCaps, soft, raw
  <2> QED BY <1>6, <2>1, <2>2, <2>3 DEF ClockSane, Caps
<1>7. CASE rem # 0
  <2> DEFINE hard == AtLeast(1, Smaller(Triple(softMs), clamp))
  <2>1. hard \in Nat /\ softMs <= hard /\ hard <= clamp
    BY <1>3, <1>4, TimeAssumption DEF AtLeast, Triple, Smaller
  <2>2. ClockCaps(rem, inc, movestogo, overhead) = Caps(softMs, hard)
    BY <1>7 DEF ClockCaps, softMs, clamp, soft, raw
  <2> QED BY <1>3, <1>4, <2>1, <2>2 DEF ClockSane, Caps
<1> QED BY <1>5, <1>6, <1>7

(***************************************************************************)
(* compute_caps (ADR-0017): there are no caps, or the soft one is positive *)
(* and at most the hard one; and a search driven by the clock never plans  *)
(* to use what the overhead needs.                                         *)
(***************************************************************************)
THEOREM CapsSane ==
  ASSUME NEW Playable, NEW l \in Limits(Playable), NEW side \in {"white", "black"},
         NEW overhead \in Nat, Fits(l)
  PROVE  LET found == compute_caps(l, side, overhead)
         IN  /\ found \in TimeCaps
             /\ found # NoCaps =>
                  /\ 1 <= found.soft /\ found.soft <= found.hard
                  /\ l.movetime = None /\ Remaining(l, side) > overhead =>
                       found.hard + overhead <= Remaining(l, side)
<1> DEFINE found == compute_caps(l, side, overhead)
           rem == Remaining(l, side)
           inc == Increment(l, side)
           Goal == /\ found \in TimeCaps
                   /\ found # NoCaps =>
                        /\ 1 <= found.soft /\ found.soft <= found.hard
                        /\ l.movetime = None /\ rem > overhead =>
                             found.hard + overhead <= rem
<1> SUFFICES Goal
  OBVIOUS
<1>1. CASE found = NoCaps
  BY <1>1 DEF NoCaps, Caps, TimeCaps
<1>2. CASE ~IgnoresClock(l) /\ l.movetime # None
  <2> DEFINE v == AtLeast(1, SaturatingSub(AtLeast(0, l.movetime), overhead))
  <2>1. l.movetime \in Int
    BY <1>2 DEF Limits, Option
  <2>2. v \in Nat /\ 1 <= v
    BY <2>1 DEF AtLeast, SaturatingSub
  <2>3. found = Caps(v, v)
    BY <1>2 DEF compute_caps, MovetimeCaps
  <2> HIDE DEF v
  <2> QED BY <1>2, <2>2, <2>3 DEF Caps, TimeCaps
<1>3. CASE ~IgnoresClock(l) /\ l.movetime = None /\ rem # None
  <2>1. rem \in Int /\ 2 * rem <= MaxU64
    BY <1>3 DEF Limits, Option, Remaining, Fits
  <2>2. inc \in Nat /\ inc <= MaxU64
    BY TimeAssumption DEF Limits, Option, Increment, Fits
  <2>3. l.movestogo \in Option(Nat)
    BY DEF Limits
  <2>4. found = ClockCaps(AtLeast(0, rem), inc, l.movestogo, overhead)
    BY <1>3 DEF compute_caps
  <2> HIDE DEF rem, inc, found
  <2>5. AtLeast(0, rem) \in Nat /\ 2 * AtLeast(0, rem) <= MaxU64
    BY <2>1, TimeAssumption DEF AtLeast
  <2>6. ClockSane(found, AtLeast(0, rem), overhead)
    BY <2>2, <2>3, <2>4, <2>5, ClockCapsSane
  <2>7. rem > overhead => AtLeast(0, rem) = rem
    BY <2>1 DEF AtLeast
  <2>8. found \in TimeCaps
    <3>1. \E s, h \in Nat : found = Caps(s, h)
      <4>1. found = Caps(found.soft, found.hard)
        BY <2>4 DEF ClockCaps, Caps
      <4> QED BY <4>1, <2>6 DEF ClockSane
    <3> QED BY <3>1 DEF Caps, TimeCaps
  <2> QED BY <2>1, <2>6, <2>7, <2>8 DEF ClockSane
<1>4. CASE IgnoresClock(l) \/ (l.movetime = None /\ rem = None)
  <2>1. found = NoCaps
    BY <1>4 DEF compute_caps
  <2> QED BY <2>1, <1>1
<1> QED BY <1>2, <1>3, <1>4

(***************************************************************************)
(* A search never deepens past MaxPly - 1: the frames of its main line fit *)
(* the PV table, extensions apart.                                         *)
(***************************************************************************)
THEOREM DepthFits ==
  ASSUME NEW Playable, NEW l \in Limits(Playable)
  PROVE  max_depth_from_limits(l) \in 0 .. MaxPly - 1
BY TimeAssumption DEF max_depth_from_limits, Limits, Option, Smaller

-----------------------------------------------------------------------------

InTry == pc \in {"search", "searched"}

\* Where the last completed iteration stands to the current one.
Order ==
  last_complete # None =>
    /\ last_complete.depth <= depth
    /\ InTry => last_complete.depth < depth

\* The first try looks through a window that is open; the second through one
\* that is open-ended towards the value, its other side a proved bound, and
\* when that bound is a lower one the table knows a move.
FirstWindow == alpha < beta
HighWindow ==
  /\ beta = Inf
  /\ ttMove \in allowed \/ evicted
  /\ drifted \/ alpha <= value
LowWindow == alpha = -Inf /\ (drifted \/ value <= beta)

Trying ==
  InTry /\ WindowsAreOpen /\ allowed # {} =>
    /\ tries = 0 => FirstWindow
    /\ tries = 1 => HighWindow \/ LowWindow

\* What the try that has just returned left behind.
Searched ==
  pc = "searched" /\ ~aborted /\ allowed # {} =>
    /\ returned > alpha => pv \in allowed /\ (ttMove \in allowed \/ evicted)
    /\ ~(returned > alpha) => pv = None
    /\ drifted \/ FailSoft(returned, value, alpha, beta)

\* Nothing in the PV yet.
Fresh == pc = "search" => pv = None

Eviction == evicted => ttMove = None

IInv ==
  /\ TypeOK /\ caps = compute_caps(limits, "white", MoveOverhead)
  /\ PriorsInLockstep /\ AspirationIsExact /\ BestmoveIsKnown
  /\ Order /\ Trying /\ Searched /\ Fresh /\ Eviction

-----------------------------------------------------------------------------
(***************************************************************************)
(* Fail-soft bounds: a try through an open window is exact, or bounds the  *)
(* value on the side it failed to.                                         *)
(***************************************************************************)
LEMMA FirstTry ==
  ASSUME NEW r \in Int, NEW v \in Int, NEW a \in Int, NEW b \in Int,
         a < b, FailSoft(r, v, a, b)
  PROVE  /\ a < r /\ r < b => r = v
         /\ r >= b => r <= v
         /\ r <= a => v <= r
BY DEF FailSoft

(***************************************************************************)
(* A second try, towards the value from a proved bound, is exact.          *)
(***************************************************************************)
LEMMA SecondTry ==
  ASSUME NEW r \in Int, NEW v \in Int, NEW a \in Int, NEW b \in Int,
         FailSoft(r, v, a, b), a <= v, v <= b, a < v \/ v < b
  PROVE  r = v
BY DEF FailSoft

(***************************************************************************)
(* The half-width of an aspiration window is positive unless Aspiration_Min*)
(* is zero.                                                                *)
(***************************************************************************)
LEMMA HalfWidthType ==
  ASSUME NEW d1 \in Int, NEW d2 \in Int \cup {None},
         NEW p \in AspirationParams, NEW d \in Nat
  PROVE  /\ aspiration_half_width(d1, d2, p, d) \in Int
         /\ ~HalfWidthPanics(d2, p, d) /\ (p.adaptive => p.min > 0) =>
              aspiration_half_width(d1, d2, p, d) > 0
<1> DEFINE x == (p.k_centi * Abs(d1 - d2) + 50) \div 100
<1>1. p.k_centi \in Nat /\ p.min \in Nat /\ p.max \in Nat /\ p.adaptive \in BOOLEAN
  BY DEF AspirationParams
<1>2. CASE ~Adapts(p, d2, d)
  BY <1>2, DriverAssumption DEF aspiration_half_width
<1>3. CASE Adapts(p, d2, d)
  <2>1. d2 \in Int /\ p.adaptive
    BY <1>3 DEF Adapts
  <2>2. Abs(d1 - d2) \in Int
    BY <2>1 DEF Abs
  <2>3. p.k_centi * Abs(d1 - d2) \in Int
    BY <1>1, <2>2
  <2>4. x \in Int
    BY <2>3
  <2>5. aspiration_half_width(d1, d2, p, d) = Clamp(x, p.min, p.max)
    BY <1>3 DEF aspiration_half_width
  <2> HIDE DEF x
  <2>6. Clamp(x, p.min, p.max) \in Int
    BY <1>1, <2>4 DEF Clamp
  <2>7. ~HalfWidthPanics(d2, p, d) /\ p.min > 0 => Clamp(x, p.min, p.max) > 0
    BY <1>1, <1>3, <2>4 DEF Clamp, HalfWidthPanics
  <2> QED BY <2>1, <2>5, <2>6, <2>7
<1> QED BY <1>2, <1>3

(***************************************************************************)
(* The first window of an iteration has integer bounds and, unless         *)
(* Aspiration_Min is zero, is open.                                        *)
(***************************************************************************)
LEMMA WindowType ==
  ASSUME NEW prior \in Int \cup {None}, NEW d2 \in Int \cup {None},
         NEW p \in AspirationParams, NEW d \in Nat
  PROVE  LET w == aspiration_window(prior, d2, p, d)
         IN  /\ w.alpha \in Int /\ w.beta \in Int
             /\ ~(Narrow(prior, d) /\ HalfWidthPanics(d2, p, d))
                  /\ (p.adaptive => p.min > 0) => w.alpha < w.beta
<1> DEFINE half == aspiration_half_width(prior, d2, p, d)
<1>1. CASE Narrow(prior, d)
  <2>1. prior \in Int
    BY <1>1 DEF Narrow
  <2>2. half \in Int
    BY <2>1, HalfWidthType
  <2>3. ~HalfWidthPanics(d2, p, d) /\ (p.adaptive => p.min > 0) => half > 0
    BY <2>1, HalfWidthType
  <2>4. aspiration_window(prior, d2, p, d) = Window(prior - half, prior + half)
    BY <1>1 DEF aspiration_window
  <2> HIDE DEF half
  <2> QED BY <1>1, <2>1, <2>2, <2>3, <2>4 DEF Window
<1>2. CASE ~Narrow(prior, d)
  <2>1. -Inf \in Int /\ Inf \in Int /\ -Inf < Inf
    BY DriverAssumption
  <2> QED BY <1>2, <2>1 DEF aspiration_window, FullWindow, Window
<1> QED BY <1>1, <1>2

(***************************************************************************)
(* What the proofs use of the constants.                                   *)
(***************************************************************************)
LEMMA Constants ==
  /\ Scores \subseteq Int /\ 0 \in Scores /\ None \notin Scores
  /\ Inf \in Int /\ -Inf \in Int
  /\ \A s \in Scores : -Inf < s /\ s < Inf
<1>1. Scores \subseteq Int /\ 0 \in Scores /\ Inf \in Int
  BY DriverAssumption
<1>2. None \notin Scores
  BY <1>1, TimeAssumption
<1>3. ASSUME NEW s \in Scores PROVE -Inf < s /\ s < Inf
  BY DriverAssumption
<1> QED BY <1>1, <1>2, <1>3

-----------------------------------------------------------------------------
(***************************************************************************)
(* Initially.                                                              *)
(***************************************************************************)
LEMMA InitIInv == Init => IInv
<1> SUFFICES ASSUME Init PROVE IInv
  OBVIOUS
<1>1. limits \in Limits(Moves) /\ Fits(limits)
  BY DriverAssumption DEF Init
<1>2. caps \in TimeCaps
  BY <1>1, CapsSane, DriverAssumption DEF Init
<1>3. ttMove \in Option(Moves)
  BY DEF Init, Moves, Option
<1>4. 0 \in 0 .. MaxTime /\ 0 \in 0 .. MaxPolls /\ 0 \in 0 .. MaxPly - 1
  BY DriverAssumption, TimeAssumption
<1>5. TypeOK
  <2>1. 0 \in Scores /\ scores \in Seq(Scores)
    BY Constants DEF Init
  <2>2. /\ pv \in Option(Moves) /\ root_score \in Option(Scores)
        /\ last_complete \in Option(Iterations) /\ result \in Option(Iterations)
        /\ prev_prev_score \in Option(Scores)
    BY DEF Init, Option
  <2>3. alpha \in Int /\ beta \in Int /\ tries \in 0 .. 1
    BY DEF Init
  <2>4. returned \in Scores /\ value \in Scores
    BY <2>1, Zenon DEF Init
  <2>5. now \in 0 .. MaxTime /\ nodes \in 0 .. MaxPolls /\ depth \in 0 .. MaxPly - 1
    BY <1>4, Zenon DEF Init
  <2>6. /\ stop \in BOOLEAN /\ aborted \in BOOLEAN /\ drifted \in BOOLEAN
        /\ evicted \in BOOLEAN /\ pc = "deepen"
        /\ limits \in LimitsSet /\ params \in ParamsSet /\ legal \in LegalSets
    BY DEF Init
  <2> QED BY <1>2, <1>3, <2>1, <2>2, <2>3, <2>4, <2>5, <2>6 DEF TypeOK
<1>6. PriorsInLockstep
  BY DEF Init, PriorsInLockstep, ScoreOf
<1> QED
  BY <1>5, <1>6 DEF Init, IInv, AspirationIsExact, BestmoveIsKnown, Order,
     Trying, Searched, Fresh, Eviction, InTry

(***************************************************************************)
(* A step that moves neither the window nor the try nor the record keeps   *)
(* the invariant, provided it does not enter a try.                        *)
(***************************************************************************)
LEMMA OtherSteps ==
  ASSUME IInv, TypeOK', ~InTry',
         UNCHANGED <<goVars, depth, ttMove, completeVars, ghostVars>>
  PROVE  IInv'
<1> USE DEF IInv, goVars, completeVars, ghostVars
<1>1. PriorsInLockstep'
  BY DEF PriorsInLockstep, ScoreOf
<1>2. AspirationIsExact' /\ BestmoveIsKnown'
  BY DEF AspirationIsExact, BestmoveIsKnown, WindowsAreOpen, allowed
<1>3. Order' /\ Trying' /\ Searched' /\ Fresh' /\ Eviction'
  BY DEF Order, Trying, Searched, Fresh, Eviction, InTry
<1> QED BY <1>1, <1>2, <1>3

(***************************************************************************)
(* A new iteration.                                                        *)
(***************************************************************************)
LEMMA StartIterationKeeps ==
  ASSUME IInv, StartIteration
  PROVE  IInv'
<1> DEFINE prior == ScoreOf(last_complete)
           w == aspiration_window(prior, prev_prev_score, params, depth + 1)
<1>1. prior \in Option(Scores)
  BY DEF IInv, TypeOK, ScoreOf, Option, Iterations
<1>2. /\ params \in AspirationParams /\ depth + 1 \in Nat
      /\ prior \in Int \cup {None} /\ prev_prev_score \in Int \cup {None}
  <2>1. params \in AspirationParams
    BY DriverAssumption DEF IInv, TypeOK
  <2>2. depth + 1 \in Nat
    BY TimeAssumption DEF IInv, TypeOK
  <2>3. Scores \subseteq Int
    BY Constants
  <2> QED BY <1>1, <2>1, <2>2, <2>3 DEF IInv, TypeOK, Option
<1>3. /\ w.alpha \in Int /\ w.beta \in Int
      /\ ~(Narrow(prior, depth + 1) /\ HalfWidthPanics(prev_prev_score, params, depth + 1))
           /\ WindowsAreOpen => w.alpha < w.beta
  BY <1>2, WindowType DEF WindowsAreOpen
<1>4. alpha' = w.alpha /\ beta' = w.beta
  BY DEF StartIteration
<1>5. ~(Narrow(prior, depth + 1) /\ HalfWidthPanics(prev_prev_score, params, depth + 1))
  BY DEF StartIteration
<1> HIDE DEF prior, w
<1>6. limits \in Limits(Moves)
  BY DriverAssumption DEF IInv, TypeOK
<1>7. depth + 1 \in 0 .. MaxPly - 1
  <2>1. max_depth \in 0 .. MaxPly - 1
    BY <1>6, DepthFits DEF max_depth
  <2> QED BY <2>1, TimeAssumption DEF IInv, TypeOK, StartIteration
<1>8. TypeOK'
  <2>1. 0 \in Scores
    BY Constants
  <2>2. /\ pc' = "search" /\ tries' = 0 /\ aborted' = FALSE /\ returned' = 0
        /\ root_score' \in Option(Scores) /\ pv' \in Option(Moves)
        /\ ttMove' = ttMove /\ depth' = depth + 1
        /\ value' \in Scores /\ drifted' = FALSE /\ evicted' = FALSE
    BY DEF StartIteration, ResetTry, Option
  <2>3. UNCHANGED <<goVars, stop, now, nodes, completeVars, result>>
    BY DEF StartIteration
  <2>4. alpha' \in Int /\ beta' \in Int /\ tries' \in 0 .. 1 /\ returned' \in Scores
    BY <1>3, <1>4, <2>1, <2>2
  <2>5. depth' \in 0 .. MaxPly - 1
    BY <1>7, <2>2
  <2>6. TypeOK /\ aborted' \in BOOLEAN /\ drifted' \in BOOLEAN /\ evicted' \in BOOLEAN
    BY <2>2 DEF IInv
  <2> QED BY <2>2, <2>3, <2>4, <2>5, <2>6 DEF TypeOK, goVars, completeVars
<1>9. PriorsInLockstep'
  BY DEF IInv, StartIteration, completeVars, PriorsInLockstep, ScoreOf
<1>10. last_complete # None => last_complete.depth \in Nat /\ last_complete.depth <= depth
  BY DEF IInv, TypeOK, Option, Iterations, Order
<1>11. last_complete' = last_complete /\ depth' = depth + 1 /\ depth \in Nat
  BY DEF IInv, TypeOK, StartIteration, completeVars
<1>12. Order' /\ AspirationIsExact' /\ BestmoveIsKnown'
  BY <1>10, <1>11 DEF Order, AspirationIsExact, BestmoveIsKnown
<1>13. Trying'
  BY <1>3, <1>4, <1>5
     DEF StartIteration, Trying, FirstWindow, WindowsAreOpen, goVars
<1>14. Searched' /\ Fresh' /\ Eviction'
  BY DEF StartIteration, ResetTry, Searched, Fresh, Eviction
<1>15. caps' = compute_caps(limits', "white", MoveOverhead)
  BY DEF IInv, StartIteration, goVars
<1> QED BY <1>8, <1>9, <1>12, <1>13, <1>14, <1>15 DEF IInv

(***************************************************************************)
(* A poll: the try goes on or is aborted.                                  *)
(***************************************************************************)
LEMMA PollKeeps ==
  ASSUME IInv, Poll
  PROVE  IInv'
<1>1. allowed \subseteq Moves
  BY DEF allowed, IInv, TypeOK, Moves, Option, Limits
<1>2. TypeOK'
  <2>1. nodes' \in 0 .. MaxPolls
    BY DriverAssumption DEF Poll, IInv, TypeOK
  <2>2. /\ pc' \in {"search", "searched"} /\ aborted' \in BOOLEAN
        /\ returned' \in Scores /\ pv' \in Option(Moves)
        /\ root_score' \in Option(Scores)
    BY <1>1, Constants DEF Poll, IInv, TypeOK, Option
  <2> QED BY <2>1, <2>2
       DEF Poll, IInv, TypeOK, goVars, windowVars, completeVars, ghostVars
<1>3. PriorsInLockstep'
  BY DEF IInv, Poll, completeVars, PriorsInLockstep, ScoreOf
<1>4. AspirationIsExact' /\ BestmoveIsKnown'
  BY DEF IInv, Poll, goVars, windowVars, completeVars, ghostVars,
     AspirationIsExact, BestmoveIsKnown, WindowsAreOpen, allowed
<1>5. Order'
  BY DEF IInv, Poll, windowVars, completeVars, Order, InTry
<1>6. Trying'
  BY DEF IInv, Poll, goVars, windowVars, ghostVars, Trying, InTry, FirstWindow,
     HighWindow, LowWindow, WindowsAreOpen, allowed
<1>7. Searched'
  BY DEF IInv, Poll, Searched, TypeOK
<1>8. Fresh' /\ Eviction'
  BY DEF IInv, Poll, ghostVars, Fresh, Eviction
<1>9. caps' = compute_caps(limits', "white", MoveOverhead)
  BY DEF IInv, Poll, goVars
<1> QED BY <1>2, <1>3, <1>4, <1>5, <1>6, <1>7, <1>8, <1>9 DEF IInv

(***************************************************************************)
(* negamax returns.                                                        *)
(***************************************************************************)
LEMMA NegamaxKeeps ==
  ASSUME IInv, Negamax
  PROVE  IInv'
<1> DEFINE Rest == <<goVars, stop, now, nodes, windowVars, aborted, completeVars,
                     result, value>>
<1>1. pc = "search" /\ pc' = "searched" /\ UNCHANGED Rest
  BY DEF Negamax
<1>2. allowed \subseteq Moves
  BY DEF allowed, IInv, TypeOK, Moves, Option, Limits
<1>3. CASE allowed = {}
  <2>1. returned' \in Scores /\ UNCHANGED <<pv, root_score, ttMove, drifted, evicted>>
    BY <1>3, Constants DEF Negamax
  <2>2. TypeOK'
    BY <1>1, <2>1 DEF IInv, TypeOK, goVars, windowVars, completeVars
  <2>3. allowed' = {}
    BY <1>1, <1>3 DEF allowed, goVars
  <2>4. PriorsInLockstep'
    BY <1>1 DEF IInv, PriorsInLockstep, completeVars, ScoreOf
  <2>5. AspirationIsExact' /\ BestmoveIsKnown' /\ Trying' /\ Searched'
    BY <2>3 DEF AspirationIsExact, BestmoveIsKnown, Trying, Searched
  <2>6. Order'
    BY <1>1 DEF IInv, Order, InTry, completeVars, windowVars
  <2>7. Fresh' /\ Eviction'
    BY <1>1, <2>1 DEF IInv, Fresh, Eviction
  <2>8. caps' = compute_caps(limits', "white", MoveOverhead)
    BY <1>1 DEF IInv, goVars
  <2> QED BY <2>2, <2>4, <2>5, <2>6, <2>7, <2>8 DEF IInv
<1>4. CASE allowed # {}
  <2>1. PICK r \in Scores : RootReturns(r)
    BY <1>4 DEF Negamax
  <2>2. returned' = r
    BY <2>1 DEF RootReturns
  <2>3. drifted' = (drifted \/ ~FailSoft(returned', value, alpha, beta))
    <3>1. PICK s \in Scores :
            RootReturns(s) /\ drifted' = (drifted \/ ~FailSoft(s, value, alpha, beta))
      BY <1>4 DEF Negamax
    <3> QED BY <3>1 DEF RootReturns
  <2>4. \/ /\ r > alpha /\ pv' \in allowed /\ root_score' \in Scores
           /\ ttMove' \in allowed \cup {None} /\ evicted' = (ttMove' = None)
        \/ /\ ~(r > alpha) /\ UNCHANGED <<pv, root_score>>
           /\ \/ UNCHANGED <<ttMove, evicted>>
              \/ ttMove' = None /\ evicted' = TRUE
    <3>1. alpha \in Int /\ r \in Int
      BY Constants DEF IInv, TypeOK
    <3> QED BY <2>1, <3>1 DEF RootReturns
  <2>5. TypeOK'
    <3>1. returned' \in Scores /\ pc' = "searched"
      BY <1>1, <2>2
    <3>2. pv' \in Option(Moves) /\ root_score' \in Option(Scores)
      BY <1>2, <2>4 DEF IInv, TypeOK, Option
    <3>3. ttMove' \in Option(Moves) /\ evicted' \in BOOLEAN
      BY <1>2, <2>4 DEF IInv, TypeOK, Option
    <3>4. drifted' \in BOOLEAN
      BY <2>3
    <3>5. TypeOK /\ UNCHANGED Rest
      BY <1>1 DEF IInv
    <3> QED BY <3>1, <3>2, <3>3, <3>4, <3>5
         DEF TypeOK, goVars, windowVars, completeVars
  <2>6. UNCHANGED <<allowed, WindowsAreOpen>>
    BY <1>1 DEF allowed, WindowsAreOpen, goVars
  <2>7. PriorsInLockstep'
    BY <1>1 DEF IInv, PriorsInLockstep, completeVars, ScoreOf
  <2>8. Order'
    BY <1>1 DEF IInv, Order, InTry, completeVars, windowVars
  <2>9. AspirationIsExact' /\ BestmoveIsKnown'
    <3>1. last_complete # None => last_complete.depth < depth
      BY <1>1 DEF IInv, Order, InTry
    <3>2. last_complete' = last_complete /\ depth' = depth
      BY <1>1 DEF completeVars, windowVars
    <3>3. last_complete # None => last_complete.depth \in Nat /\ depth \in Nat
      BY TimeAssumption DEF IInv, TypeOK, Option, Iterations
    <3>4. last_complete' # None => last_complete'.depth # depth'
      BY <3>1, <3>2, <3>3
    <3> QED BY <3>4 DEF AspirationIsExact, BestmoveIsKnown
  <2>10. Fresh' /\ Eviction'
    <3>1. Fresh'
      BY <1>1 DEF Fresh
    <3>2. Eviction'
      BY <2>4 DEF IInv, Eviction
    <3> QED BY <3>1, <3>2
  <2>11. Searched'
    <3>1. returned' > alpha' => pv' \in allowed' /\ (ttMove' \in allowed' \/ evicted')
      BY <1>1, <2>2, <2>4, <2>6 DEF windowVars
    <3>2. value' = value /\ alpha' = alpha /\ beta' = beta
      BY <1>1 DEF windowVars
    <3>3. drifted' \/ FailSoft(returned', value', alpha', beta')
      BY <2>3, <3>2
    <3>4. ~(returned' > alpha') => pv' = None
      BY <1>1, <2>2, <2>4 DEF IInv, Fresh, windowVars
    <3> QED BY <3>1, <3>3, <3>4 DEF Searched
  <2>12. Trying'
    <3>1. /\ WindowsAreOpen => /\ tries = 0 => FirstWindow
                               /\ tries = 1 => HighWindow \/ LowWindow
      BY <1>1, <1>4 DEF IInv, Trying, InTry
    <3>2. UNCHANGED <<tries, alpha, beta, value>>
      BY <1>1 DEF windowVars
    <3>3. drifted => drifted'
      BY <2>3
    <3>4. (ttMove \in allowed \/ evicted) => (ttMove' \in allowed' \/ evicted')
      BY <2>4, <2>6
    <3>5. (HighWindow => HighWindow') /\ (LowWindow => LowWindow')
      BY <3>2, <3>3, <3>4 DEF HighWindow, LowWindow
    <3>6. FirstWindow => FirstWindow'
      BY <3>2 DEF FirstWindow
    <3> QED BY <2>6, <3>1, <3>2, <3>5, <3>6 DEF Trying
  <2>13. caps' = compute_caps(limits', "white", MoveOverhead)
    BY <1>1 DEF IInv, goVars
  <2> QED BY <2>5, <2>7, <2>8, <2>9, <2>10, <2>11, <2>12, <2>13 DEF IInv
<1> QED BY <1>3, <1>4

(***************************************************************************)
(* The second try: the value lies in the half-line it looks through.       *)
(***************************************************************************)
LEMMA ResearchKeeps ==
  ASSUME IInv, Research
  PROVE  IInv'
<1> DEFINE w == widen_after_fail(returned, alpha, beta)
<1>1. /\ pc = "searched" /\ ~aborted /\ ~Contained /\ tries = 0
      /\ pc' = "search" /\ tries' = 1 /\ depth' = depth
      /\ alpha' = w.alpha /\ beta' = w.beta
      /\ UNCHANGED <<goVars, stop, now, nodes, completeVars, result, ghostVars>>
      /\ aborted' = FALSE /\ root_score' = None /\ pv' = None /\ returned' = 0
      /\ ttMove' = ttMove
  BY DEF Research, ResetTry
<1>2. alpha \in Int /\ beta \in Int /\ returned \in Int /\ value \in Int
  BY Constants DEF IInv, TypeOK
<1>3. \/ returned >= beta /\ w = Window(returned, Inf)
      \/ ~(returned >= beta) /\ w = Window(-Inf, returned)
  BY DEF widen_after_fail
<1> HIDE DEF w
<1>4. alpha' \in Int /\ beta' \in Int
  BY <1>1, <1>2, <1>3, Constants DEF Window
<1>5. TypeOK'
  <2>1. returned' \in Scores /\ root_score' \in Option(Scores) /\ pv' \in Option(Moves)
    BY <1>1, Constants DEF Option
  <2>2. tries' \in 0 .. 1
    BY <1>1
  <2>3. TypeOK
    BY DEF IInv
  <2> QED BY <1>1, <1>4, <2>1, <2>2, <2>3 DEF TypeOK, goVars, completeVars, ghostVars
<1>6. UNCHANGED <<allowed, WindowsAreOpen>>
  BY <1>1 DEF allowed, WindowsAreOpen, goVars
<1>7. PriorsInLockstep'
  BY <1>1 DEF IInv, PriorsInLockstep, completeVars, ScoreOf
<1>8. Order'
  BY <1>1 DEF IInv, Order, InTry, completeVars
<1>9. AspirationIsExact' /\ BestmoveIsKnown'
  BY <1>1, <1>6 DEF IInv, AspirationIsExact, BestmoveIsKnown, completeVars, ghostVars
<1>10. Searched' /\ Fresh' /\ Eviction'
  BY <1>1 DEF IInv, Searched, Fresh, Eviction, ghostVars
<1>11. Trying'
  <2> SUFFICES ASSUME WindowsAreOpen, allowed # {}
               PROVE  HighWindow' \/ LowWindow'
    BY <1>1, <1>6 DEF Trying
  <2>1. alpha < beta
    BY <1>1 DEF IInv, Trying, InTry, FirstWindow
  <2>2. drifted \/ FailSoft(returned, value, alpha, beta)
    BY <1>1 DEF IInv, Searched
  <2>3. CASE returned >= beta /\ w = Window(returned, Inf)
    <3>1. alpha' = returned /\ beta' = Inf
      BY <1>1, <2>3 DEF Window
    <3>2. drifted \/ returned <= value
      BY <1>2, <2>1, <2>2, <2>3, FirstTry
    <3>3. ttMove \in allowed \/ evicted
      BY <1>1, <1>2, <2>1, <2>3 DEF IInv, Searched
    <3>4. HighWindow'
      BY <1>1, <1>6, <3>1, <3>2, <3>3 DEF HighWindow, ghostVars
    <3> QED BY <3>4
  <2>4. CASE ~(returned >= beta) /\ w = Window(-Inf, returned)
    <3>1. alpha' = -Inf /\ beta' = returned
      BY <1>1, <2>4 DEF Window
    <3>2. returned <= alpha
      BY <1>1, <1>2, <2>4 DEF Contained
    <3>3. drifted \/ value <= returned
      BY <1>2, <2>1, <2>2, <3>2, FirstTry
    <3>4. LowWindow'
      BY <1>1, <3>1, <3>3 DEF LowWindow, ghostVars
    <3> QED BY <3>4
  <2> QED BY <1>3, <2>3, <2>4
<1>12. caps' = compute_caps(limits', "white", MoveOverhead)
  BY <1>1 DEF IInv, goVars
<1> QED BY <1>5, <1>7, <1>8, <1>9, <1>10, <1>11, <1>12 DEF IInv

(***************************************************************************)
(* The iteration is recorded.                                              *)
(***************************************************************************)
LEMMA CompleteIterationKeeps ==
  ASSUME IInv, CompleteIteration
  PROVE  IInv'
<1> DEFINE move == extract_bestmove_or_tt_fallback
<1>1. /\ pc = "searched" /\ ~aborted /\ (Contained \/ tries = 1)
      /\ prev_prev_score' = ScoreOf(last_complete)
      /\ last_complete' = [depth |-> depth, score |-> returned, bestmove |-> move]
      /\ scores' = Append(scores, returned)
      /\ pc' \in {"select", "deepen"}
      /\ UNCHANGED <<goVars, stop, now, nodes, windowVars, tryVars, result, ghostVars>>
  BY DEF CompleteIteration, PriorScore
<1>2. /\ alpha \in Int /\ beta \in Int /\ returned \in Int /\ value \in Int
      /\ returned \in Scores /\ depth \in Nat /\ scores \in Seq(Scores)
  BY Constants, TimeAssumption DEF IInv, TypeOK
<1>3. last_complete' \in Iterations
  <2>1. move \in Option(Moves)
    BY DEF extract_bestmove_or_tt_fallback, IInv, TypeOK
  <2> QED BY <1>1, <1>2, <2>1 DEF Iterations
<1>4. last_complete' # None
  BY <1>3, DriverAssumption DEF Iterations
<1>5. /\ last_complete'.depth = depth /\ last_complete'.score = returned
      /\ last_complete'.bestmove = move
  BY <1>1
<1>6. TypeOK'
  <2>1. prev_prev_score' \in Option(Scores)
    BY <1>1 DEF ScoreOf, IInv, TypeOK, Option, Iterations
  <2>2. scores' \in Seq(Scores)
    BY <1>1, <1>2
  <2>3. last_complete' \in Option(Iterations)
    BY <1>3 DEF Option
  <2>4. TypeOK
    BY DEF IInv
  <2> QED BY <1>1, <2>1, <2>2, <2>3, <2>4
       DEF TypeOK, goVars, windowVars, tryVars, ghostVars
<1>7. PriorsInLockstep'
  <2>1. /\ Len(scores') = Len(scores) + 1 /\ scores'[Len(scores')] = returned
        /\ \A i \in 1 .. Len(scores) : scores'[i] = scores[i]
    BY <1>1, <1>2
  <2>2. Len(scores) \in Nat
    BY <1>2
  <2>3. ScoreOf(last_complete') = returned
    BY <1>4, <1>5 DEF ScoreOf
  <2>4. ScoreOf(last_complete) = IF Len(scores) = 0 THEN None ELSE scores[Len(scores)]
    BY DEF IInv, PriorsInLockstep
  <2> QED BY <1>1, <2>1, <2>2, <2>3, <2>4 DEF PriorsInLockstep
<1>8. UNCHANGED <<allowed, WindowsAreOpen, depth, drifted, evicted, value>>
  BY <1>1 DEF allowed, WindowsAreOpen, goVars, windowVars, ghostVars
<1>9. ASSUME WindowsAreOpen, allowed # {}, ~drifted
      PROVE  returned = value
  <2>1. FailSoft(returned, value, alpha, beta)
    BY <1>1, <1>9 DEF IInv, Searched
  <2>2. /\ tries = 0 => FirstWindow
        /\ tries = 1 => HighWindow \/ LowWindow
    BY <1>1, <1>9 DEF IInv, Trying, InTry
  <2>3. tries \in {0, 1}
    BY DEF IInv, TypeOK
  <2>4. -Inf < value /\ value < Inf
    BY Constants DEF IInv, TypeOK
  <2>5. CASE tries = 0
    BY <1>1, <1>2, <2>1, <2>2, <2>5, FirstTry DEF FirstWindow, Contained
  <2>6. CASE HighWindow
    <3>1. alpha <= value /\ beta = Inf
      BY <1>9, <2>6 DEF HighWindow
    <3> QED BY <1>2, <2>1, <2>4, <3>1, SecondTry
  <2>7. CASE LowWindow
    <3>1. value <= beta /\ alpha = -Inf
      BY <1>9, <2>7 DEF LowWindow
    <3> QED BY <1>2, <2>1, <2>4, <3>1, SecondTry
  <2> QED BY <2>2, <2>3, <2>5, <2>6, <2>7
<1>10. AspirationIsExact'
  BY <1>5, <1>8, <1>9 DEF AspirationIsExact
<1>11. ASSUME WindowsAreOpen, allowed # {}
       PROVE  move \in allowed \/ (evicted /\ move = None)
  <2>1. returned > alpha => pv \in allowed
    BY <1>1, <1>11 DEF IInv, Searched
  <2>2. evicted => ttMove = None
    BY DEF IInv, Eviction
  <2>3. allowed \subseteq Moves /\ pv \in Option(Moves)
    BY DEF allowed, IInv, TypeOK, Moves, Option, Limits
  <2>4. CASE returned > alpha
    <3>1. pv # None
      BY <2>1, <2>3, <2>4, DriverAssumption
    <3> QED BY <2>1, <2>4, <3>1 DEF extract_bestmove_or_tt_fallback
  <2>5. CASE ~(returned > alpha)
    <3>1. tries = 1
      BY <1>1, <2>5 DEF Contained, IInv, TypeOK
    <3>2. HighWindow \/ LowWindow
      BY <1>1, <1>11, <3>1 DEF IInv, Trying, InTry
    <3>3. ~LowWindow
      <4>1. -Inf < returned
        BY <1>2, Constants
      <4> QED BY <2>5, <4>1 DEF LowWindow
    <3>4. pv = None
      BY <1>1, <1>11, <2>5 DEF IInv, Searched
    <3>5. ttMove \in allowed \/ evicted
      BY <3>2, <3>3 DEF HighWindow
    <3>6. move = ttMove
      BY <3>4 DEF extract_bestmove_or_tt_fallback
    <3> QED BY <2>2, <3>5, <3>6
  <2> QED BY <2>4, <2>5
<1>12. BestmoveIsKnown'
  BY <1>5, <1>8, <1>11 DEF BestmoveIsKnown
<1>13. Order'
  BY <1>1, <1>2, <1>5, <1>8 DEF Order, InTry
<1>14. Trying' /\ Searched' /\ Fresh' /\ Eviction'
  BY <1>1 DEF IInv, Trying, InTry, Searched, Fresh, Eviction, tryVars, ghostVars
<1>15. caps' = compute_caps(limits', "white", MoveOverhead)
  BY <1>1 DEF IInv, goVars
<1> QED BY <1>6, <1>7, <1>10, <1>12, <1>13, <1>14, <1>15 DEF IInv

(***************************************************************************)
(* The steps that leave the search or take place around it.                *)
(***************************************************************************)
LEMMA LeavingKeeps ==
  ASSUME IInv, Panic \/ NoIteration \/ DiscardIteration \/ SelectResult \/ EndWait
  PROVE  IInv'
<1>1. /\ pc' \in {"panicked", "select", "wait", "returned"}
      /\ UNCHANGED <<goVars, stop, now, nodes, windowVars, tryVars, completeVars,
                     ghostVars>>
  BY DEF Panic, NoIteration, DiscardIteration, SelectResult, EndWait
<1>2. result' \in Option(Iterations)
  <2>1. CASE SelectResult
    <3>1. 0 \in Nat /\ 0 \in Scores
      BY Constants
    <3>2. root_score # None => root_score \in Scores
      BY DEF IInv, TypeOK, Option
    <3>3. aborted_fallback_result \in Iterations
      BY <3>1, <3>2 DEF aborted_fallback_result, Iterations, IInv, TypeOK
    <3> QED BY <2>1, <3>3 DEF SelectResult, FinalResult, IInv, TypeOK, Option
  <2>2. CASE ~SelectResult
    <3>1. result' = result
      BY <2>2 DEF Panic, NoIteration, DiscardIteration, EndWait
    <3> QED BY <3>1 DEF IInv, TypeOK
  <2> QED BY <2>1, <2>2
<1>3. TypeOK'
  BY <1>1, <1>2
     DEF IInv, TypeOK, goVars, windowVars, tryVars, completeVars, ghostVars
<1>4. ~InTry'
  BY <1>1 DEF InTry
<1> QED BY <1>1, <1>3, <1>4, OtherSteps DEF windowVars, tryVars

LEMMA AroundKeeps ==
  ASSUME IInv,
         \/ Tick \/ Stop
         \/ UNCHANGED vars
  PROVE  IInv'
<1>1. /\ pc' = pc /\ now' \in 0 .. MaxTime /\ stop' \in BOOLEAN
      /\ UNCHANGED <<goVars, nodes, windowVars, tryVars, completeVars, result,
                     ghostVars>>
  <2>1. CASE Tick
    <3>1. now' = now + 1 /\ now < MaxTime /\ now \in 0 .. MaxTime /\ MaxTime \in Nat
      BY <2>1, DriverAssumption DEF Tick, IInv, TypeOK
    <3>2. now' \in 0 .. MaxTime
      BY <3>1
    <3> QED BY <2>1, <3>2 DEF Tick, IInv, TypeOK
  <2>2. CASE Stop
    BY <2>2 DEF Stop, IInv, TypeOK
  <2>3. CASE UNCHANGED vars
    BY <2>3 DEF vars, IInv, TypeOK
  <2> QED BY <2>1, <2>2, <2>3
<1>2. TypeOK'
  BY <1>1 DEF IInv, TypeOK, goVars, windowVars, tryVars, completeVars, ghostVars
<1>3. PriorsInLockstep'
  BY <1>1 DEF IInv, PriorsInLockstep, completeVars, ScoreOf
<1>4. AspirationIsExact' /\ BestmoveIsKnown'
  BY <1>1 DEF IInv, AspirationIsExact, BestmoveIsKnown, WindowsAreOpen, allowed,
     goVars, windowVars, completeVars, ghostVars
<1>5. Order' /\ Fresh' /\ Eviction'
  BY <1>1 DEF IInv, Order, InTry, Fresh, Eviction, windowVars, tryVars, completeVars,
     ghostVars
<1>6. Trying'
  BY <1>1 DEF IInv, Trying, InTry, FirstWindow, HighWindow, LowWindow,
     WindowsAreOpen, allowed, goVars, windowVars, tryVars, ghostVars
<1>7. Searched'
  BY <1>1 DEF IInv, Searched, allowed, goVars, windowVars, tryVars, ghostVars
<1>8. caps' = compute_caps(limits', "white", MoveOverhead)
  BY <1>1 DEF IInv, goVars
<1> QED BY <1>2, <1>3, <1>4, <1>5, <1>6, <1>7, <1>8 DEF IInv

-----------------------------------------------------------------------------
(***************************************************************************)
(* The inductive invariant of go.                                          *)
(***************************************************************************)
THEOREM Invariance == Spec => []IInv
<1>1. Init => IInv
  BY InitIInv
<1>2. IInv /\ [Next]_vars => IInv'
  <2> SUFFICES ASSUME IInv, [Next]_vars PROVE IInv'
    OBVIOUS
  <2>1. CASE StartIteration
    BY <2>1, StartIterationKeeps
  <2>2. CASE Poll
    BY <2>2, PollKeeps
  <2>3. CASE Negamax
    BY <2>3, NegamaxKeeps
  <2>4. CASE Research
    BY <2>4, ResearchKeeps
  <2>5. CASE CompleteIteration
    BY <2>5, CompleteIterationKeeps
  <2>6. CASE Panic \/ NoIteration \/ DiscardIteration \/ SelectResult \/ EndWait
    BY <2>6, LeavingKeeps
  <2>7. CASE Tick \/ Stop \/ Finished \/ UNCHANGED vars
    BY <2>7, AroundKeeps DEF Finished
  <2> QED BY <2>1, <2>2, <2>3, <2>4, <2>5, <2>6, <2>7 DEF Next, Worker
<1> QED BY <1>1, <1>2, PTL DEF Spec

(***************************************************************************)
(* Every variable of go keeps its type: in particular the depth never      *)
(* reaches MaxPly.                                                         *)
(***************************************************************************)
THEOREM TypeCorrect == Spec => []TypeOK
<1>1. IInv => TypeOK
  BY DEF IInv
<1> QED BY <1>1, Invariance, PTL

(***************************************************************************)
(* The caps of every go respect the forfeit guard of ADR-0017.             *)
(***************************************************************************)
THEOREM NoForfeit == Spec => []ForfeitGuard
<1>1. IInv => ForfeitGuard
  <2> SUFFICES ASSUME IInv PROVE ForfeitGuard
    OBVIOUS
  <2>1. limits \in Limits(Moves) /\ Fits(limits) /\ MoveOverhead \in Nat
    BY DriverAssumption DEF IInv, TypeOK
  <2>2. caps = compute_caps(limits, "white", MoveOverhead)
    BY DEF IInv
  <2> QED BY <2>1, <2>2, CapsSane DEF ForfeitGuard
<1> QED BY <1>1, Invariance, PTL

(***************************************************************************)
(* An iteration whose score does not drift is recorded with the score of a *)
(* search with the full window, after at most one re-search.               *)
(***************************************************************************)
THEOREM AspirationLosesNothing == Spec => []AspirationIsExact
<1>1. IInv => AspirationIsExact
  BY DEF IInv
<1> QED BY <1>1, Invariance, PTL

(***************************************************************************)
(* An iteration is recorded with a move, unless the table lost the root.   *)
(***************************************************************************)
THEOREM IterationsHaveMoves == Spec => []BestmoveIsKnown
<1>1. IInv => BestmoveIsKnown
  BY DEF IInv
<1> QED BY <1>1, Invariance, PTL

(***************************************************************************)
(* The two scores that set the window follow the completed iterations.     *)
(***************************************************************************)
THEOREM PriorsFollow == Spec => []PriorsInLockstep
<1>1. IInv => PriorsInLockstep
  BY DEF IInv
<1> QED BY <1>1, Invariance, PTL
-----------------------------------------------------------------------------
\* What the refinement needs besides: iterations are one ply apart, and the
\* result that is waited with is the one that was selected.
Completed == IF last_complete = None THEN 0 ELSE last_complete.depth
StepInv ==
  /\ pc = "deepen" => depth = Completed
  /\ InTry => depth = Completed + 1
  /\ pc \in {"wait", "returned"} => result = FinalResult

LEMMA StepInvHolds == Spec => []StepInv
<1>1. Init => StepInv
  BY DEF Init, StepInv, Completed, InTry
<1>2. IInv /\ StepInv /\ [Next]_vars => StepInv'
  <2> SUFFICES ASSUME IInv, StepInv, [Next]_vars PROVE StepInv'
    OBVIOUS
  <2>1. CASE StartIteration
    BY <2>1 DEF StartIteration, StepInv, Completed, InTry, completeVars, FinalResult
  <2>2. CASE Poll
    <3>1. pc = "search" /\ pc' \in {"search", "searched"}
          /\ UNCHANGED <<windowVars, completeVars>>
      BY <2>2 DEF Poll
    <3> QED BY <3>1 DEF StepInv, Completed, InTry, windowVars, completeVars
  <2>3. CASE Negamax
    <3>1. pc = "search" /\ pc' = "searched" /\ UNCHANGED <<windowVars, completeVars>>
      BY <2>3 DEF Negamax
    <3> QED BY <3>1 DEF StepInv, Completed, InTry, windowVars, completeVars
  <2>4. CASE Research
    <3>1. pc = "searched" /\ pc' = "search" /\ UNCHANGED <<depth, completeVars>>
      BY <2>4 DEF Research
    <3> QED BY <3>1 DEF StepInv, Completed, InTry, completeVars
  <2>5. CASE CompleteIteration
    <3>1. last_complete'.depth = depth /\ last_complete' \in Iterations
      <4>1. depth \in Nat /\ returned \in Scores
            /\ extract_bestmove_or_tt_fallback \in Option(Moves)
        BY DEF IInv, TypeOK, extract_bestmove_or_tt_fallback
      <4> QED BY <2>5, <4>1 DEF CompleteIteration, Iterations
    <3>2. last_complete' # None
      BY <3>1, DriverAssumption
    <3>3. depth' = depth /\ pc' \in {"select", "deepen"}
      BY <2>5 DEF CompleteIteration, windowVars
    <3> QED BY <3>1, <3>2, <3>3 DEF StepInv, Completed, InTry
  <2>6. CASE Panic \/ NoIteration \/ DiscardIteration
    BY <2>6 DEF Panic, NoIteration, DiscardIteration, StepInv, InTry
  <2>7. CASE SelectResult
    <3>1. pc' \in {"wait", "returned"} /\ result' = FinalResult
          /\ UNCHANGED <<tryVars, completeVars>>
      BY <2>7 DEF SelectResult
    <3>2. FinalResult' = FinalResult
      BY <3>1 DEF FinalResult, aborted_fallback_result, tryVars, completeVars
    <3> QED BY <3>1, <3>2 DEF StepInv, InTry
  <2>8. CASE EndWait
    <3>1. pc = "wait" /\ pc' = "returned" /\ UNCHANGED <<result, tryVars, completeVars>>
      BY <2>8 DEF EndWait
    <3>2. FinalResult' = FinalResult
      BY <3>1 DEF FinalResult, aborted_fallback_result, tryVars, completeVars
    <3> QED BY <3>1, <3>2 DEF StepInv, InTry
  <2>9. CASE Tick \/ Stop \/ Finished \/ UNCHANGED vars
    <3>1. UNCHANGED <<pc, result, windowVars, tryVars, completeVars>>
      BY <2>9 DEF Tick, Stop, Finished, vars
    <3> QED BY <3>1 DEF StepInv, InTry, Completed, FinalResult, aborted_fallback_result,
                        windowVars, tryVars, completeVars
  <2> QED BY <2>1, <2>2, <2>3, <2>4, <2>5, <2>6, <2>7, <2>8, <2>9 DEF Next, Worker
<1> QED BY <1>1, <1>2, Invariance, PTL DEF Spec

(***************************************************************************)
(* Whatever its windows, aborts and caps, a go deepens one ply at a time   *)
(* and answers once, with the deepest iteration it completed, and not      *)
(* before it is released if it has to wait.                                *)
(***************************************************************************)
THEOREM SearchIsAnytime == Spec => ImplementsAnytime
<1>1. Init => Anytime!Init
  BY DEF Init, Anytime!Init, should_abort, ShouldAbort, wait
<1>2. IInv /\ StepInv /\ [Next]_vars => [Anytime!Next]_(Anytime!vars)
  <2> DEFINE Answered == IF pc = "returned" THEN result ELSE None
             Failed == pc = "panicked"
             Released == should_abort(nodes)
  <2> SUFFICES ASSUME IInv, StepInv, [Next]_vars
               PROVE  Anytime!Next \/ UNCHANGED <<last_complete, Answered, wait, Released, Failed>>
    BY DEF Anytime!vars
  <2>0. UNCHANGED vars => UNCHANGED <<last_complete, Answered, wait, Released, Failed>>
    BY DEF vars, goVars, completeVars, wait, should_abort
  <2>1. CASE StartIteration \/ Negamax \/ Research \/ NoIteration \/ DiscardIteration
    <3>1. UNCHANGED <<goVars, stop, now, nodes, completeVars, result>>
          /\ pc \notin {"returned", "panicked"} /\ pc' \notin {"returned", "panicked"}
      BY <2>1 DEF StartIteration, Negamax, Research, NoIteration, DiscardIteration
    <3> QED BY <3>1 DEF goVars, completeVars, wait, should_abort
  <2>2. CASE Poll \/ Tick \/ Stop
    <3>1. UNCHANGED <<goVars, completeVars>> /\ (pc = "returned" <=> pc' = "returned")
          /\ UNCHANGED result /\ (pc = "panicked" <=> pc' = "panicked")
      BY <2>2 DEF Poll, Tick, Stop
    <3>2. UNCHANGED <<last_complete, Answered, wait, Failed>>
      BY <3>1 DEF goVars, completeVars, wait
    <3>3. Released' \in BOOLEAN
      BY DEF should_abort, ShouldAbort
    <3>4. Anytime!Release
      BY <3>2, <3>3 DEF Anytime!Release
    <3> QED BY <3>4 DEF Anytime!Next
  <2>3. CASE Panic
    <3>1. UNCHANGED <<goVars, stop, now, nodes, completeVars>>
          /\ pc = "deepen" /\ pc' = "panicked"
      BY <2>3 DEF Panic
    <3>2. UNCHANGED <<last_complete, Answered, wait, Released>> /\ Failed' = TRUE /\ Answered = None
      BY <3>1 DEF goVars, completeVars, wait, should_abort
    <3> QED BY <3>2 DEF Anytime!Fail, Anytime!Next
  <2>4. CASE CompleteIteration
    <3> DEFINE move == extract_bestmove_or_tt_fallback
    <3>1. /\ pc = "searched" /\ pc' \in {"select", "deepen"}
          /\ last_complete' = [depth |-> depth, score |-> returned, bestmove |-> move]
          /\ UNCHANGED <<goVars, stop, now, nodes, result>>
      BY <2>4 DEF CompleteIteration
    <3>2. /\ move \in Option(Moves) /\ returned \in Scores
          /\ depth \in 0 .. MaxPly - 1 /\ MaxPly \in Nat
      BY TimeAssumption DEF IInv, TypeOK, extract_bestmove_or_tt_fallback
    <3>3. depth = Completed + 1 /\ Completed \in Nat
      BY <3>1 DEF StepInv, InTry, Completed, IInv, TypeOK, Option, Iterations
    <3>4. Completed < MaxPly - 1
      BY <3>2, <3>3
    <3>5. UNCHANGED <<Answered, wait, Released, Failed>> /\ Answered = None /\ ~Failed
      BY <3>1 DEF goVars, wait, should_abort
    <3>6. Anytime!DepthOf(last_complete) = Completed
      BY DEF Anytime!DepthOf, Completed
    <3>7. last_complete' \in Anytime!Iterations /\ last_complete'.depth = Completed + 1
      BY <3>1, <3>2, <3>3 DEF Anytime!Iterations, Option
    <3> QED BY <3>4, <3>5, <3>6, <3>7 DEF Anytime!Deepen, Anytime!Next
  <2>5. CASE SelectResult \/ EndWait
    <3>1. UNCHANGED <<goVars, stop, now, nodes, completeVars, tryVars>>
          /\ pc \notin {"returned", "panicked"} /\ pc' # "panicked"
      BY <2>5 DEF SelectResult, EndWait
    <3>2. UNCHANGED <<last_complete, wait, Released, Failed>> /\ Answered = None /\ ~Failed
      BY <3>1 DEF goVars, completeVars, wait, should_abort
    <3>3. CASE pc' # "returned"
      <4>1. Answered' = None
        BY <3>3
      <4> QED BY <3>2, <4>1
    <3>4. CASE pc' = "returned"
      <4>1. Answered' = FinalResult
        BY <2>5, <3>4 DEF SelectResult, EndWait, StepInv
      <4>2. wait => Released
        BY <2>5, <3>4 DEF SelectResult, EndWait, WaitOver
      <4>3. last_complete = None => FinalResult \in {i \in Anytime!Iterations : i.depth = 0}
        <5>1. 0 \in 0 .. MaxPly - 1
          BY TimeAssumption
        <5>2. pv \in Option(Moves) /\ root_score \in Option(Scores) /\ 0 \in Scores
          BY Constants DEF IInv, TypeOK
        <5> QED BY <5>1, <5>2 DEF FinalResult, aborted_fallback_result, Anytime!Iterations, Option
      <4>4. last_complete # None => FinalResult = last_complete
        BY DEF FinalResult
      <4> QED BY <3>2, <4>1, <4>2, <4>3, <4>4 DEF Anytime!Answer, Anytime!Next
    <3> QED BY <3>3, <3>4
  <2>6. CASE Finished \/ UNCHANGED vars
    BY <2>0, <2>6 DEF Finished
  <2> QED BY <2>1, <2>2, <2>3, <2>4, <2>5, <2>6 DEF Next, Worker
<1> QED BY <1>1, <1>2, Invariance, StepInvHolds, PTL DEF Spec, Anytime!Spec, ImplementsAnytime
=============================================================================
