----------------------------- MODULE SearchTime -----------------------------
(***************************************************************************)
(* Time management of one `go` (search/time.rs, ADR-0017): what a search   *)
(* may spend, computed from the parameters of the command before the       *)
(* worker starts, without reading a clock.  Milliseconds.                  *)
(***************************************************************************)
EXTENDS Integers

CONSTANTS
  None,      \* Option::None
  Unlimited, \* Duration::MAX, the "no cap" sentinel
  MaxU64,    \* u64::MAX
  MaxPly,    \* MAX_PLY, the size of the PV table
  BareDepth  \* the depth of a go without any limit

ASSUME TimeAssumption ==
  /\ None \notin Int /\ Unlimited \notin Int
  /\ MaxU64 \in Nat \ {0} /\ MaxPly \in Nat \ {0}
  /\ BareDepth \in 1 .. MaxPly - 1

Smaller(a, b) == IF a <= b THEN a ELSE b
AtLeast(m, a) == IF a <= m THEN m ELSE a

\* u64::saturating_sub and u64::saturating_mul(3).
SaturatingSub(a, b) == IF b <= a THEN a - b ELSE 0
Triple(a) == Smaller(3 * a, MaxU64)

\* SearchLimits: what the go command asked for.
Option(S) == S \cup {None}
Limits(Moves) ==
  [depth : Option(Nat), nodes : Option(Nat), mate : Option(Nat),
   movetime : Option(Int), infinite : BOOLEAN, ponder : BOOLEAN,
   wtime : Option(Int), btime : Option(Int), winc : Option(Nat),
   binc : Option(Nat), movestogo : Option(Nat),
   searchmoves : Option(SUBSET Moves)]

\* Its numbers fit their types: i64 clocks, u64 increments.
Fits(l) ==
  /\ \A t \in {l.wtime, l.btime} : t # None => 2 * t <= MaxU64
  /\ \A inc \in {l.winc, l.binc} : inc # None => inc <= MaxU64

TimeCaps == [soft : Nat \cup {Unlimited}, hard : Nat \cup {Unlimited}]
Caps(soft, hard) == [soft |-> soft, hard |-> hard]
NoCaps == Caps(Unlimited, Unlimited)

IgnoresClock(l) ==
  \/ l.infinite \/ l.ponder
  \/ l.depth # None \/ l.nodes # None \/ l.mate # None

\* movetime less the overhead, never below 1.
MovetimeCaps(movetime, overhead) ==
  LET v == AtLeast(1, SaturatingSub(AtLeast(0, movetime), overhead))
  IN  Caps(v, v)

\* How many moves the remaining time is shared between.
Denominator(movestogo) ==
  IF movestogo = None THEN 20 ELSE AtLeast(1, movestogo)

RawSoft(rem, inc, denom) == rem \div denom + inc \div 2

\* The forfeit guard: what may be spent of the clock itself.
MaxClamp(rem, overhead) == AtLeast(1, SaturatingSub(rem, overhead))

\* Mutant: the hard cap without the forfeit guard.
UnclampedCaps(rem, inc, movestogo, overhead) ==
  LET soft == AtLeast(1, SaturatingSub(RawSoft(rem, inc, Denominator(movestogo)), overhead))
  IN  Caps(soft, Triple(soft))

\* The increment refills the clock after the move, so that a clock at zero is
\* not guarded when there is an increment.
ClockCaps(rem, inc, movestogo, overhead) ==
  LET soft == SaturatingSub(RawSoft(rem, inc, Denominator(movestogo)), overhead)
      clamp == MaxClamp(rem, overhead)
      softMs == AtLeast(1, Smaller(soft, clamp))
  IN  IF rem = 0 /\ inc = 0 THEN Caps(1, 1)
      ELSE IF rem = 0 THEN Caps(AtLeast(1, soft), AtLeast(1, Triple(soft)))
      ELSE Caps(softMs, AtLeast(1, Smaller(Triple(softMs), clamp)))

\* The clock of the side to move.
Remaining(l, side) == IF side = "white" THEN l.wtime ELSE l.btime
Increment(l, side) ==
  LET inc == IF side = "white" THEN l.winc ELSE l.binc
  IN  IF inc = None THEN 0 ELSE inc

compute_caps(l, side, overhead) ==
  IF IgnoresClock(l) THEN NoCaps
  ELSE IF l.movetime # None THEN MovetimeCaps(l.movetime, overhead)
  ELSE IF Remaining(l, side) = None THEN NoCaps
  ELSE ClockCaps(AtLeast(0, Remaining(l, side)), Increment(l, side),
                 l.movestogo, overhead)

\* A depth-63 leaf is meant to be at the last index of the PV table; a bare go
\* searches BareDepth plies, also one with only increments or movestogo.
max_depth_from_limits(l) ==
  IF l.depth # None THEN Smaller(l.depth, MaxPly - 1)
  ELSE IF \/ l.infinite \/ l.ponder
          \/ \E field \in {"movetime", "nodes", "mate", "wtime", "btime"} :
               l[field] # None
       THEN MaxPly - 1
       ELSE BareDepth

\* SearchClock::should_abort and is_soft_reached_at, the clock having started
\* at 0: a cap that is Unlimited gives no deadline.
IsAtOrPast(now, cap) == cap # Unlimited /\ now >= cap
ShouldAbort(stop, now, hard, nodeLimit, nodes) ==
  \/ stop
  \/ IsAtOrPast(now, hard)
  \/ nodeLimit # None /\ nodes >= nodeLimit
=============================================================================
