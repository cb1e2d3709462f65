---------------------------- MODULE SearchDriver ----------------------------
(***************************************************************************)
(* AlphaBetaMover::go (search.rs): iterative deepening with aspiration     *)
(* windows, run by the worker thread against a clock, a node limit and     *)
(* the stop flag that the orchestrator may raise at any moment.            *)
(*                                                                         *)
(* negamax is a nondeterministic choice over what it may return: at a root *)
(* it is fail-soft, it leaves a move in the PV exactly when the score      *)
(* beats alpha, and it stores the root in the transposition table, where   *)
(* the entry may be overwritten by other positions.  Its score at a given  *)
(* depth is one value, or it drifts (the table, history and pruning differ *)
(* between two tries).  Nodes are counted in polls: should_abort is read   *)
(* once in 4096 nodes.  A panic ends the process (Cargo.toml: panic =      *)
(* "abort").                                                               *)
(***************************************************************************)
EXTENDS SearchTime, Sequences

CONSTANTS
  LegalSets,      \* the possible sets of legal moves at the root
  LimitsSet,      \* the go commands of this instance
  ParamsSet,      \* the Aspiration_* options of this instance
  Scores, Inf,    \* what negamax may return; wider than any of them
  AspirationMinDepth, HalfWidth,  \* ASPIRATION_MIN_DEPTH, ASPIRATION_HALF_WIDTH
  MoveOverhead,
  MaxTime,        \* bound: the clock stops there
  MaxPolls        \* bound: polls of one go

Moves == UNION LegalSets
Iterations == [depth : Nat, bestmove : Option(Moves), score : Scores]
AspirationParams ==
  [adaptive : BOOLEAN, k_centi : Nat, min : Nat, max : Nat,
   adaptive_min_depth : Nat, adaptive_max_depth : Nat]

ASSUME DriverAssumption ==
  /\ LimitsSet \subseteq Limits(Moves) /\ \A l \in LimitsSet : Fits(l)
  /\ ParamsSet \subseteq AspirationParams
  /\ Inf \in Int /\ HalfWidth \in Nat \ {0} /\ AspirationMinDepth \in Nat \ {0, 1}
  /\ Scores \subseteq Int /\ 0 \in Scores
  /\ \A s \in Scores : -Inf < s /\ s < Inf
  /\ MoveOverhead \in Nat /\ MaxTime \in Nat /\ MaxPolls \in Nat
  /\ None \notin Moves \cup Iterations

VARIABLES
  \* fixed when the go starts
  limits, params, caps, legal,
  \* shared with the orchestrator and the clock
  stop, now,
  \* AlphaBetaMover and the locals of go
  pc,              \* where the worker is
  nodes,           \* polls so far
  depth, tries, alpha, beta, returned, aborted,
  pv,              \* pv.moves[0][0], or None for an empty PV
  root_score,
  ttMove,          \* best_move of the root's table entry, or None
  last_complete, prev_prev_score,
  result,
  \* history variables, read by properties only
  value,           \* the score of this iteration's full-window search
  drifted,         \* a try of this iteration did not agree with it
  evicted,         \* the root's entry was lost in this iteration
  scores           \* scores of the completed iterations

goVars == <<limits, params, caps, legal>>
windowVars == <<depth, tries, alpha, beta>>
tryVars == <<returned, aborted, pv, root_score, ttMove>>
completeVars == <<last_complete, prev_prev_score, scores>>
ghostVars == <<value, drifted, evicted>>
vars == <<goVars, stop, now, pc, nodes, windowVars, tryVars, completeVars,
          result, ghostVars>>

\* The moves the root may choose from.
allowed == IF limits.searchmoves = None THEN legal
           ELSE limits.searchmoves \cap legal

max_depth == max_depth_from_limits(limits)
wait == limits.infinite \/ limits.movetime # None \/ limits.ponder
should_abort(n) == ShouldAbort(stop, now, caps.hard, limits.nodes, n)

Init ==
  /\ limits \in LimitsSet /\ params \in ParamsSet /\ legal \in LegalSets
  /\ caps = compute_caps(limits, "white", MoveOverhead)
  /\ stop = FALSE /\ now = 0 /\ nodes = 0 /\ pc = "deepen"
  /\ depth = 0 /\ tries = 0 /\ alpha = 0 /\ beta = 0 /\ returned = 0
  /\ aborted = FALSE /\ pv = None /\ root_score = None
  /\ ttMove \in legal \cup {None}
  /\ last_complete = None /\ prev_prev_score = None /\ result = None
  /\ value = 0 /\ drifted = FALSE /\ evicted = FALSE /\ scores = <<>>

-----------------------------------------------------------------------------
\* search/params.rs.

Abs(x) == IF x < 0 THEN -x ELSE x
Clamp(x, lo, hi) == IF x < lo THEN lo ELSE IF x > hi THEN hi ELSE x

Adapts(p, d2, d) ==
  /\ d2 # None /\ p.adaptive
  /\ p.adaptive_min_depth <= d /\ d <= p.adaptive_max_depth

aspiration_half_width(d1, d2, p, d) ==
  IF Adapts(p, d2, d)
  THEN Clamp((p.k_centi * Abs(d1 - d2) + 50) \div 100, p.min, p.max)
  ELSE HalfWidth

\* i32::clamp panics when its bounds are inverted, as two legal setoptions may
\* leave them.
HalfWidthPanics(d2, p, d) == Adapts(p, d2, d) /\ p.min > p.max

Window(a, b) == [alpha |-> a, beta |-> b]
FullWindow == Window(-Inf, Inf)
Narrow(prior, d) == prior # None /\ d >= AspirationMinDepth

aspiration_window(prior, d2, p, d) ==
  IF Narrow(prior, d)
  THEN LET half == aspiration_half_width(prior, d2, p, d)
       IN  Window(prior - half, prior + half)
  ELSE FullWindow

\* Mutant: the other side is opened.
WrongSideOpened(r, a, b) == IF r >= b THEN Window(-Inf, r) ELSE Window(r, Inf)
widen_after_fail(r, a, b) == IF r >= b THEN Window(r, Inf) ELSE Window(-Inf, r)

-----------------------------------------------------------------------------
ScoreOf(iteration) == IF iteration = None THEN None ELSE iteration.score

\* The reset before each try; killers survive it.  (returned is assigned by the
\* try before it is read.)
ResetTry ==
  /\ aborted' = FALSE /\ root_score' = None /\ pv' = None /\ returned' = 0
  /\ UNCHANGED ttMove

\* The top of the loop over depths.
StartIteration ==
  /\ pc = "deepen" /\ depth < max_depth
  /\ depth' = depth + 1 /\ tries' = 0
  /\ LET prior == ScoreOf(last_complete)
         w == aspiration_window(prior, prev_prev_score, params, depth + 1)
     IN  /\ ~ (Narrow(prior, depth + 1)
                 /\ HalfWidthPanics(prev_prev_score, params, depth + 1))
         /\ alpha' = w.alpha /\ beta' = w.beta
  /\ ResetTry
  /\ value' \in Scores /\ drifted' = FALSE /\ evicted' = FALSE
  /\ pc' = "search"
  /\ UNCHANGED <<goVars, stop, now, nodes, completeVars, result>>

\* aspiration_half_width panics.
Panic ==
  /\ pc = "deepen" /\ depth < max_depth
  /\ Narrow(ScoreOf(last_complete), depth + 1)
  /\ HalfWidthPanics(prev_prev_score, params, depth + 1)
  /\ pc' = "panicked"
  /\ UNCHANGED <<goVars, stop, now, nodes, windowVars, tryVars, completeVars,
                 result, ghostVars>>

\* go depth 0: there is no iteration at all.
NoIteration ==
  /\ pc = "deepen" /\ depth >= max_depth /\ pc' = "select"
  /\ UNCHANGED <<goVars, stop, now, nodes, windowVars, tryVars, completeVars,
                 result, ghostVars>>

\* negamax reaches a multiple of 4096 nodes and goes on, or aborts with
\* whatever move improved alpha so far.
Poll ==
  /\ pc = "search" /\ nodes < MaxPolls /\ allowed # {}
  /\ nodes' = nodes + 1
  /\ IF should_abort(nodes + 1)
     THEN /\ aborted' = TRUE /\ returned' = 0 /\ pc' = "searched"
          /\ \/ UNCHANGED <<pv, root_score>>
             \/ /\ pv' \in allowed
                /\ root_score' \in {s \in Scores : s > alpha}
     ELSE UNCHANGED <<pc, aborted, returned, pv, root_score>>
  /\ UNCHANGED <<goVars, stop, now, windowVars, ttMove, completeVars, result,
                 ghostVars>>

\* Fail-soft: exact inside the window, a bound towards v outside.
FailSoft(r, v, a, b) ==
  /\ v > a /\ v < b => r = v
  /\ v <= a => v <= r /\ r <= a
  /\ v >= b => b <= r /\ r <= v

\* The search of the root returns r, having raised alpha (then the entry stored
\* holds the move) or not (then the entry keeps the move it had).
RootReturns(r) ==
  /\ returned' = r
  /\ \/ /\ r > alpha
        /\ \E m \in allowed :
             /\ pv' = m /\ root_score' = r
             /\ ttMove' \in {m, None} /\ evicted' = (ttMove' = None)
     \/ /\ r <= alpha /\ UNCHANGED <<pv, root_score>>
        /\ \/ UNCHANGED <<ttMove, evicted>>
           \/ ttMove' = None /\ evicted' = TRUE

\* No move to search: nothing is stored.  0 is the score of a stalemate and of
\* an empty searchmoves; any other score stands for a checkmate.
Negamax ==
  /\ pc = "search"
  /\ IF allowed = {}
     THEN /\ \E r \in (IF legal = {} THEN Scores ELSE {0}) : returned' = r
          /\ UNCHANGED <<pv, root_score, ttMove, drifted, evicted>>
     ELSE \E r \in Scores : RootReturns(r)
            /\ drifted' = (drifted \/ ~FailSoft(r, value, alpha, beta))
  /\ pc' = "searched"
  /\ UNCHANGED <<goVars, stop, now, nodes, windowVars, aborted, completeVars,
                 result, value>>

Contained == alpha < returned /\ returned < beta

\* A failed first try is searched once more, with the failed side open.
Research ==
  /\ pc = "searched" /\ ~aborted /\ ~Contained /\ tries = 0
  /\ tries' = 1 /\ UNCHANGED depth
  /\ LET w == widen_after_fail(returned, alpha, beta)
     IN  alpha' = w.alpha /\ beta' = w.beta
  /\ ResetTry /\ pc' = "search"
  /\ UNCHANGED <<goVars, stop, now, nodes, completeVars, result, ghostVars>>

\* Mutant: no fallback to the table.
PvOnly == pv
extract_bestmove_or_tt_fallback == IF pv # None THEN pv ELSE ttMove

PriorScore == ScoreOf(last_complete)

\* The iteration is complete; now is read once, for the line and the soft cap.
CompleteIteration ==
  /\ pc = "searched" /\ ~aborted /\ (Contained \/ tries = 1)
  /\ prev_prev_score' = PriorScore
  /\ last_complete' = [depth |-> depth, score |-> returned,
                       bestmove |-> extract_bestmove_or_tt_fallback]
  /\ scores' = Append(scores, returned)
  /\ pc' = IF depth >= max_depth \/ stop \/ IsAtOrPast(now, caps.soft)
           THEN "select" ELSE "deepen"
  /\ UNCHANGED <<goVars, stop, now, nodes, windowVars, tryVars, result,
                 ghostVars>>

\* An aborted try is discarded, also when it was a re-search.
DiscardIteration ==
  /\ pc = "searched" /\ aborted /\ pc' = "select"
  /\ UNCHANGED <<goVars, stop, now, nodes, windowVars, tryVars, completeVars,
                 result, ghostVars>>

aborted_fallback_result ==
  [depth |-> 0, bestmove |-> pv,
   score |-> IF root_score = None THEN 0 ELSE root_score]

\* Mutant: the move of the aborted try is preferred.
FreshestMove == IF pv # None \/ last_complete = None
                THEN aborted_fallback_result ELSE last_complete
FinalResult == IF last_complete # None THEN last_complete
               ELSE aborted_fallback_result

SelectResult ==
  /\ pc = "select"
  /\ result' = FinalResult
  /\ pc' = IF wait THEN "wait" ELSE "returned"
  /\ UNCHANGED <<goVars, stop, now, nodes, windowVars, tryVars, completeVars,
                 ghostVars>>

\* Mutant: a search that has run out of depth waits for its deadline only.
DeadlineOnly == IsAtOrPast(now, caps.hard)
WaitOver == should_abort(nodes)

\* The loop that honours infinite, movetime and ponder, polling every 1 ms.
EndWait ==
  /\ pc = "wait" /\ WaitOver /\ pc' = "returned"
  /\ UNCHANGED <<goVars, stop, now, nodes, windowVars, tryVars, completeVars,
                 result, ghostVars>>

-----------------------------------------------------------------------------
Done == pc \in {"returned", "panicked"}

\* The clock matters only to a search that has a cap.
Tick ==
  /\ ~Done /\ caps # NoCaps /\ now < MaxTime /\ now' = now + 1
  /\ UNCHANGED <<goVars, stop, pc, nodes, windowVars, tryVars, completeVars,
                 result, ghostVars>>

\* A stop, a quit, or a handler that joins.
Stop ==
  /\ ~Done /\ ~stop /\ stop' = TRUE
  /\ UNCHANGED <<goVars, now, pc, nodes, windowVars, tryVars, completeVars,
                 result, ghostVars>>

Worker ==
  \/ StartIteration \/ Panic \/ NoIteration \/ Poll \/ Negamax \/ Research
  \/ CompleteIteration \/ DiscardIteration \/ SelectResult \/ EndWait

Finished == Done /\ UNCHANGED vars

Next == Worker \/ Tick \/ Stop \/ Finished

\* The worker is scheduled and time passes; nobody is obliged to say stop.
Spec == Init /\ [][Next]_vars
FairSpec == Spec /\ WF_vars(Worker) /\ WF_vars(Tick)

-----------------------------------------------------------------------------
TypeOK ==
  /\ limits \in LimitsSet /\ params \in ParamsSet /\ legal \in LegalSets
  /\ caps \in TimeCaps /\ stop \in BOOLEAN /\ now \in 0 .. MaxTime
  /\ pc \in {"deepen", "search", "searched", "select", "wait", "returned",
             "panicked"}
  /\ nodes \in 0 .. MaxPolls /\ depth \in 0 .. MaxPly - 1 /\ tries \in 0 .. 1
  /\ alpha \in Int /\ beta \in Int /\ returned \in Scores
  /\ aborted \in BOOLEAN /\ pv \in Option(Moves)
  /\ root_score \in Option(Scores) /\ ttMove \in Option(Moves)
  /\ last_complete \in Option(Iterations)
  /\ prev_prev_score \in Option(Scores) /\ result \in Option(Iterations)
  /\ value \in Scores /\ drifted \in BOOLEAN /\ evicted \in BOOLEAN
  /\ scores \in Seq(Scores)

(***************************************************************************)
(* The caps never invite a loss on time (ADR-0017, forfeit guard): the     *)
(* hard cap is at least the soft one, and on a clock with more left than   *)
(* the overhead both fit in what is left after it.                         *)
(***************************************************************************)
ForfeitGuard ==
  LET rem == Remaining(limits, "white")
  IN  caps # NoCaps =>
        /\ 1 <= caps.soft /\ caps.soft <= caps.hard
        /\ limits.movetime = None /\ rem > MoveOverhead =>
             caps.hard + MoveOverhead <= rem

\* Aspiration_Min is not 0.  (It may be, and then a score that repeats gives a
\* window with alpha = beta: a result equal to both is taken for a fail-high
\* although it may be an upper bound, and the re-search looks the wrong way.)
WindowsAreOpen == params.adaptive => params.min > 0

(***************************************************************************)
(* One re-search is enough: when the score of an iteration does not drift  *)
(* between its tries, the iteration is recorded with the score of a search *)
(* with the full window, although neither try may have used one.           *)
(***************************************************************************)
AspirationIsExact ==
  /\ WindowsAreOpen /\ ~drifted /\ allowed # {}
  /\ last_complete # None /\ last_complete.depth = depth
  => last_complete.score = value

(***************************************************************************)
(* An iteration is recorded with a move it was allowed to search, also     *)
(* when its re-search left an empty PV, unless the root's table entry was  *)
(* lost in between.                                                        *)
(***************************************************************************)
BestmoveIsKnown ==
  /\ WindowsAreOpen /\ allowed # {}
  /\ last_complete # None /\ last_complete.depth = depth
  => last_complete.bestmove \in allowed \cup (IF evicted THEN {None} ELSE {})

(***************************************************************************)
(* The window of the next iteration is centred on the last score and       *)
(* scaled by its distance from the one before it, whatever was aborted or  *)
(* searched twice: the two move in lockstep.                               *)
(***************************************************************************)
PriorsInLockstep ==
  LET n == Len(scores)
  IN  /\ ScoreOf(last_complete) = IF n = 0 THEN None ELSE scores[n]
      /\ prev_prev_score = IF n < 2 THEN None ELSE scores[n - 1]

(***************************************************************************)
(* AnytimeSearch: iterations are completed one ply deeper at a time, the   *)
(* one answer is the deepest of them even if the search was cut short in   *)
(* the middle of the next, and an infinite, movetime or ponder search      *)
(* answers only once it is stopped or out of budget.                       *)
(***************************************************************************)
Anytime == INSTANCE AnytimeSearch WITH
  MaxDepth <- MaxPly - 1,
  best <- last_complete,
  answer <- IF pc = "returned" THEN result ELSE None,
  waits <- wait,
  released <- should_abort(nodes),
  failed <- pc = "panicked"
ImplementsAnytime == Anytime!Spec

(***************************************************************************)
(* A search that was stopped ends, and so does one that need not wait or   *)
(* has a deadline.                                                         *)
(***************************************************************************)
Answers == (stop \/ ~wait \/ caps.hard # Unlimited) ~> Done

(***************************************************************************)
(* "bestmove is the last line of every go (ADR-0011)" (engine.rs): no      *)
(* setting of the options keeps a go from being answered.                  *)
(***************************************************************************)
EveryGoIsAnswered == pc # "panicked"
=============================================================================
