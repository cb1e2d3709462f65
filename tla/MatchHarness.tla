---------------------------- MODULE MatchHarness ----------------------------
(***************************************************************************)
(* elo-iterate: the controller that drives the pool of WorkerPool, either  *)
(* run_iteration (a match, with an estimate that stops it when it is       *)
(* stable, or with a sequential test) or run_spsa (a tuning run).          *)
(*                                                                         *)
(* Scores are in half points.  The estimate is left out: when it is stable *)
(* is any moment from MinStable games on.  The likelihood ratio is a       *)
(* function of the counts of pairs (sprt.rs), here the constant LlrVerdict.*)
(* Log lines and the files of the games are left out.                      *)
(***************************************************************************)
EXTENDS WorkerPool, FiniteSetsExt

CONSTANTS
  Modes,          \* subset of {"estimate", "sprt", "spsa"}: the arguments
  MaxGames,       \* --max-games
  LlrVerdict(_),  \* the verdict on pair_counts: "H0", "H1" or "continue"
  MinStable,      \* stop_window + stop_window_confirm - 1
  NIters, PairsPerIter    \* --spsa-iters and half of --spsa-games-per-iter

total_pairs == MaxGames \div 2
Bins == 0 .. 4
Counts == [Bins -> Nat]

ASSUME HarnessAssumption ==
  /\ Modes \subseteq {"estimate", "sprt", "spsa"}
  /\ MaxGames \in Nat \ {0} /\ MaxGames % 2 = 0
  /\ NIters \in Nat /\ PairsPerIter \in Nat \ {0} /\ MinStable \in Nat
  /\ 0 .. total_pairs - 1 \subseteq Pairs
  /\ 0 .. NIters * PairsPerIter - 1 \subseteq Pairs
  /\ \A c \in [Bins -> 0 .. total_pairs] : LlrVerdict(c) \in {"H0", "H1", "continue"}

VARIABLES
  mode,
  cpc,                 \* where the controller is
  slot,                \* its loop variable, over workers or over pairs
  \* run_iteration
  pairs_in_flight, pairs_dispatched, t, wins, losses, draws,
  terminating, stop_reason, failure,
  pair_score_buffers,  \* per worker: the scores of its pair so far
  pair_counts, discarded_singletons,   \* SprtState
  \* run_spsa
  iter, pairs_complete, score_sum,
  \* history variables, read by properties only
  handled,             \* the games whose reports were handled
  limit,               \* games that may still count once the match is to stop
  steps                \* the score sum of each SPSA iteration

dispatchVars == <<pairs_in_flight, pairs_dispatched>>
tallyVars == <<t, wins, losses, draws, pair_score_buffers, handled>>
sprtVars == <<pair_counts, discarded_singletons>>
stopVars == <<terminating, stop_reason, limit>>
spsaVars == <<iter, pairs_complete, score_sum, steps>>
vars == <<poolVars, mode, cpc, slot, dispatchVars, tallyVars, sprtVars,
          stopVars, failure, spsaVars>>

Init ==
  /\ PoolInit /\ mode \in Modes
  /\ cpc = (IF mode # "spsa" THEN "bootstrap"
            ELSE IF NIters = 0 THEN "quit" ELSE "dispatch")
  /\ slot = 0
  /\ pairs_in_flight = [w \in WorkerIds |-> 0] /\ pairs_dispatched = 0
  /\ t = 0 /\ wins = 0 /\ losses = 0 /\ draws = 0
  /\ terminating = FALSE /\ stop_reason = "max_games" /\ failure = FALSE
  /\ pair_score_buffers = [w \in WorkerIds |-> <<>>]
  /\ pair_counts = [b \in Bins |-> 0] /\ discarded_singletons = 0
  /\ iter = 0 /\ pairs_complete = 0 /\ score_sum = 0 /\ steps = <<>>
  /\ handled = {} /\ limit = MaxGames

-----------------------------------------------------------------------------
Send(w, cmd) == cmds' = [cmds EXCEPT ![w] = Append(@, cmd)]
Hear == reports # <<>> /\ reports' = Tail(reports)
Report == Head(reports)
\* rx.recv() fails: no report is left and every sender of one is dropped.
NobodyLeft == reports = <<>> /\ Gone = WorkerIds

UNCHANGED_Workers == UNCHANGED <<worker, alive, won, faults>>

\* Bootstrap: one pair for each worker.
Bootstrap ==
  /\ cpc = "bootstrap" /\ slot < NWorkers /\ pairs_dispatched < total_pairs
  /\ IF slot \in Gone
     THEN /\ failure' = TRUE /\ cpc' = "drain"
          /\ UNCHANGED <<cmds, dispatchVars, slot>>
     ELSE /\ Send(slot, PlayPair(pairs_dispatched))
          /\ pairs_dispatched' = pairs_dispatched + 1
          /\ pairs_in_flight' = [pairs_in_flight EXCEPT ![slot] = @ + 1]
          /\ slot' = slot + 1 /\ UNCHANGED <<cpc, failure>>
  /\ UNCHANGED_Workers
  /\ UNCHANGED <<open, reports, mode, tallyVars, sprtVars, stopVars, spsaVars>>

Bootstrapped ==
  /\ cpc = "bootstrap" /\ (slot = NWorkers \/ pairs_dispatched >= total_pairs)
  /\ cpc' = "drain"
  /\ UNCHANGED <<poolVars, mode, slot, dispatchVars, tallyVars, sprtVars,
                 stopVars, failure, spsaVars>>

drain_done ==
  /\ terminating \/ pairs_dispatched >= total_pairs
  /\ \A w \in WorkerIds : pairs_in_flight[w] = 0
Draining == cpc = "drain" /\ ~drain_done /\ t < MaxGames

\* Games of pairs under way when the match is told to stop, this one included
\* if it is not handled yet.
Outstanding(seen) ==
  Cardinality({i \in Games : i <= 2 * pairs_dispatched} \ seen)

HandleGame ==
  /\ Draining /\ Hear /\ Report.kind = "game"
  /\ LET score == Report.score
         w == Report.worker
     IN  /\ t' = t + 1
         /\ wins' = wins + (IF score = 2 THEN 1 ELSE 0)
         /\ losses' = losses + (IF score = 0 THEN 1 ELSE 0)
         /\ draws' = draws + (IF score = 1 THEN 1 ELSE 0)
         /\ pair_score_buffers' = [pair_score_buffers EXCEPT ![w] = Append(@, score)]
  /\ handled' = handled \cup {Report.game}
  /\ \/ /\ mode = "estimate" /\ ~terminating /\ t' >= MinStable
        /\ terminating' = TRUE /\ stop_reason' = "sigma"
        /\ limit' = t' + Outstanding(handled')
     \/ UNCHANGED stopVars
  /\ UNCHANGED_Workers
  /\ UNCHANGED <<cmds, open, mode, cpc, slot, dispatchVars, sprtVars, failure,
                 spsaVars>>

PairScore(buffer) == buffer[1] + buffer[2]
update_pair(counts, buffer) ==
  IF Len(buffer) = 2 THEN [counts EXCEPT ![PairScore(buffer)] = @ + 1] ELSE counts

\* Mutant: the last verdict counts.
Overrules(verdict) == verdict # "continue"
Decides(verdict) == verdict # "continue" /\ ~terminating

MayDispatch == ~terminating /\ pairs_dispatched < total_pairs

\* Mutant: the pair stays in flight.
AsMany(n) == n
\* saturating_sub
Fewer(n) == IF n = 0 THEN 0 ELSE n - 1

HandlePair ==
  /\ Draining /\ Hear /\ Report.kind = "pair"
  /\ LET w == Report.worker
         buffer == pair_score_buffers[w]
         counts == update_pair(pair_counts, buffer)
         verdict == IF mode = "sprt" /\ Len(buffer) = 2 THEN LlrVerdict(counts)
                    ELSE "continue"
         dispatches == MayDispatch /\ ~Decides(verdict) /\ w \notin Gone
     IN  /\ pair_score_buffers' = [pair_score_buffers EXCEPT ![w] = <<>>]
         /\ pair_counts' = counts
         /\ IF Decides(verdict)
            THEN /\ terminating' = TRUE /\ stop_reason' = verdict
                 /\ limit' = t + Outstanding(handled)
            ELSE UNCHANGED stopVars
         /\ pairs_in_flight' = [pairs_in_flight EXCEPT ![w] =
              Fewer(@) + (IF dispatches THEN 1 ELSE 0)]
         /\ IF dispatches
            THEN /\ Send(w, PlayPair(pairs_dispatched))
                 /\ pairs_dispatched' = pairs_dispatched + 1
            ELSE UNCHANGED <<cmds, pairs_dispatched>>
  /\ UNCHANGED_Workers
  /\ UNCHANGED <<open, mode, cpc, slot, t, wins, losses, draws, handled,
                 discarded_singletons, failure, spsaVars>>

HandleFailure ==
  /\ Draining /\ Hear /\ Report.kind = "failure"
  /\ failure' = TRUE /\ cpc' = "quit"
  /\ UNCHANGED_Workers
  /\ UNCHANGED <<cmds, open, mode, slot, dispatchVars, tallyVars, sprtVars,
                 stopVars, spsaVars>>

\* The end of the drain loop.
StopDraining ==
  /\ cpc = "drain" /\ (drain_done \/ t >= MaxGames \/ NobodyLeft)
  /\ cpc' = "quit"
  /\ UNCHANGED <<poolVars, mode, slot, dispatchVars, tallyVars, sprtVars,
                 stopVars, failure, spsaVars>>

\* Quit to everyone, and the senders are dropped.
QuitAll ==
  /\ cpc = "quit" /\ cpc' = "join"
  /\ cmds' = [w \in WorkerIds |-> Append(cmds[w], QuitCmd)] /\ open' = FALSE
  /\ UNCHANGED_Workers
  /\ UNCHANGED <<reports, mode, slot, dispatchVars, tallyVars, sprtVars,
                 stopVars, failure, spsaVars>>

\* The workers are joined; a failure hides the result.
ReturnError ==
  /\ cpc = "join" /\ Gone = WorkerIds /\ failure /\ cpc' = "failed"
  /\ UNCHANGED <<poolVars, mode, slot, dispatchVars, tallyVars, sprtVars,
                 stopVars, failure, spsaVars>>

\* Mutant: the pairs that are left are thrown away.
DropLeftovers(counts) == counts
FoldLeftovers(counts) ==
  [b \in Bins |-> counts[b] + Cardinality(
     {w \in WorkerIds : Len(pair_score_buffers[w]) = 2
                          /\ PairScore(pair_score_buffers[w]) = b})]

\* Pairs whose PairComplete was not handled are counted, single games are not.
ReturnOk ==
  /\ cpc = "join" /\ Gone = WorkerIds /\ ~failure /\ cpc' = "returned"
  /\ pair_counts' = FoldLeftovers(pair_counts)
  /\ discarded_singletons' = discarded_singletons +
       Cardinality({w \in WorkerIds : Len(pair_score_buffers[w]) = 1})
  /\ pair_score_buffers' = [w \in WorkerIds |-> <<>>]
  /\ UNCHANGED <<poolVars, mode, slot, dispatchVars, t, wins, losses, draws,
                 handled, stopVars, failure, spsaVars>>

-----------------------------------------------------------------------------
\* run_spsa returns at once when a worker is gone, and the process ends.
SpsaFails ==
  /\ \/ cpc = "dispatch" /\ slot < PairsPerIter /\ slot % NWorkers \in Gone
        /\ UNCHANGED reports
     \/ cpc = "barrier" /\ pairs_complete < PairsPerIter
        /\ \/ Hear /\ Report.kind = "failure"
           \/ NobodyLeft /\ UNCHANGED reports
  /\ cpc' = "failed" /\ open' = FALSE
  /\ UNCHANGED_Workers
  /\ UNCHANGED <<cmds, mode, slot, dispatchVars, tallyVars, sprtVars, stopVars,
                 failure, spsaVars>>

\* All pairs of an iteration are sent, to the workers in turn.
SpsaDispatch ==
  /\ cpc = "dispatch" /\ slot < PairsPerIter /\ slot % NWorkers \notin Gone
  /\ Send(slot % NWorkers, PlayPair(iter * PairsPerIter + slot))
  /\ slot' = slot + 1 /\ cpc' = IF slot' = PairsPerIter THEN "barrier" ELSE cpc
  /\ UNCHANGED_Workers
  /\ UNCHANGED <<open, reports, mode, dispatchVars, tallyVars, sprtVars, stopVars,
                 failure, spsaVars>>

\* Mutant: an iteration is over when its last pair has been reported by any worker.
OneIsEnough == pairs_complete > 0
BarrierPassed == pairs_complete = PairsPerIter

SpsaHandle ==
  /\ cpc = "barrier" /\ ~BarrierPassed /\ Hear /\ Report.kind # "failure"
  /\ IF Report.kind = "game"
     THEN /\ score_sum' = score_sum + Report.score
          /\ handled' = handled \cup {Report.game} /\ UNCHANGED pairs_complete
     ELSE pairs_complete' = pairs_complete + 1 /\ UNCHANGED <<score_sum, handled>>
  /\ UNCHANGED_Workers
  /\ UNCHANGED <<cmds, open, mode, cpc, slot, dispatchVars, t, wins, losses, draws,
                 pair_score_buffers, sprtVars, stopVars, failure, iter, steps>>

\* The gradient step takes the mean score of the iteration.
SpsaStep ==
  /\ cpc = "barrier" /\ BarrierPassed
  /\ steps' = Append(steps, score_sum)
  /\ iter' = iter + 1 /\ pairs_complete' = 0 /\ score_sum' = 0 /\ slot' = 0
  /\ cpc' = IF iter' = NIters THEN "quit" ELSE "dispatch"
  /\ UNCHANGED <<poolVars, mode, dispatchVars, tallyVars, sprtVars, stopVars,
                 failure>>

-----------------------------------------------------------------------------
Controller ==
  \/ Bootstrap \/ Bootstrapped \/ HandleGame \/ HandlePair \/ HandleFailure
  \/ StopDraining \/ QuitAll \/ ReturnError \/ ReturnOk
  \/ SpsaFails \/ SpsaDispatch \/ SpsaHandle \/ SpsaStep

Ended == cpc \in {"returned", "failed"}

\* The process is gone with its controller, and its workers with it.
Worker(w) ==
  /\ ~Ended /\ WorkerStep(w, mode = "spsa")
  /\ UNCHANGED <<mode, cpc, slot, dispatchVars, tallyVars, sprtVars, stopVars,
                 failure, spsaVars>>

Finished == Ended /\ UNCHANGED vars

Next == Controller \/ (\E w \in WorkerIds : Worker(w)) \/ Finished

\* The threads are scheduled, and every game ends: it has a watchdog and a
\* limit of moves.
Spec == Init /\ [][Next]_vars
FairSpec ==
  Spec /\ WF_vars(Controller) /\ \A w \in WorkerIds : WF_vars(Worker(w))
-----------------------------------------------------------------------------
TypeOK ==
  /\ PoolTypeOK /\ mode \in Modes
  /\ cpc \in {"bootstrap", "drain", "quit", "join", "dispatch", "barrier",
              "returned", "failed"}
  /\ slot \in 0 .. NWorkers + PairsPerIter
  /\ pairs_in_flight \in [WorkerIds -> {0, 1}]
  /\ pairs_dispatched \in 0 .. total_pairs /\ t \in 0 .. MaxGames
  /\ {wins, losses, draws} \subseteq 0 .. MaxGames
  /\ terminating \in BOOLEAN /\ failure \in BOOLEAN
  /\ stop_reason \in {"max_games", "sigma", "H0", "H1"}
  /\ pair_score_buffers \in [WorkerIds -> Seq(0 .. 2)]
  /\ pair_counts \in Counts /\ discarded_singletons \in Nat
  /\ iter \in 0 .. NIters /\ pairs_complete \in 0 .. PairsPerIter
  /\ score_sum \in Nat /\ steps \in Seq(Nat)
  /\ handled \subseteq Games /\ limit \in 0 .. MaxGames

\* What a game was really worth to clawfish.
Worth(i) == CASE won[i] = "engine" -> 2 [] won[i] = "opponent" -> 0 [] OTHER -> 1
Handled(p) == {game_index(p, leg) : leg \in {0, 1}} \cap handled

(***************************************************************************)
(* The figures of a match are those of the games that were played, each    *)
(* counted once and from clawfish's side: colours, crashes and hangs       *)
(* included; and a match that is to stop starts no new pair, on any        *)
(* worker, so nothing is counted but what was under way.                   *)
(***************************************************************************)
Ending(result) == Cardinality({i \in handled : won[i] = result})
TallyIsTrue ==
  mode # "spsa" =>
    /\ t = Cardinality(handled)
    /\ wins = Ending("engine") /\ losses = Ending("opponent")
    /\ draws = Ending("draw")
    /\ t <= limit

(***************************************************************************)
(* The sequential test sees pairs (ADR-0022): every two games of a pair,   *)
(* and never two of different pairs, make one count, with concurrent       *)
(* workers as with one, in the loop as in what is left after it; and a     *)
(* match that ends well has counted both games of every pair it began,     *)
(* however it ended.                                                       *)
(***************************************************************************)
Buffered(n) == {w \in WorkerIds : Len(pair_score_buffers[w]) = n}
PairsAreWhole ==
  mode # "spsa" =>
    /\ \A b \in Bins :
         pair_counts[b]
             + Cardinality({w \in Buffered(2) : PairScore(pair_score_buffers[w]) = b})
           = Cardinality({p \in Pairs : /\ Cardinality(Handled(p)) = 2
                                        /\ Worth(game_index(p, 0))
                                             + Worth(game_index(p, 1)) = b})
    /\ discarded_singletons + Cardinality(Buffered(1))
         = Cardinality({p \in Pairs : Cardinality(Handled(p)) = 1})
    /\ cpc = "returned" =>
         /\ handled = {i \in Games : i <= 2 * pairs_dispatched}
         /\ discarded_singletons = 0

(***************************************************************************)
(* The first pair that takes the ratio over a bound decides the match, and *)
(* the pairs that were under way do not change the decision.               *)
(***************************************************************************)
FirstCrossingDecides ==
  [][/\ terminating => stop_reason' = stop_reason
     /\ (/\ mode = "sprt" /\ ~terminating /\ cpc = "drain"
         /\ pair_counts' # pair_counts /\ LlrVerdict(pair_counts') # "continue")
        => stop_reason' = LlrVerdict(pair_counts')]_vars

(***************************************************************************)
(* SPSA: each step is taken on the scores of all games of its iteration    *)
(* and of no other, whichever workers played them and in whatever order    *)
(* they reported.                                                          *)
(***************************************************************************)
GamesOf(k) ==
  {i \in Games : 2 * (k - 1) * PairsPerIter < i /\ i <= 2 * k * PairsPerIter}
StepsDoNotMix ==
  \A k \in DOMAIN steps : steps[k] = MapThenSumSet(Worth, GamesOf(k))

(***************************************************************************)
(* A run comes to an end: nobody waits for a worker that is gone, or for   *)
(* a report that was not sent.                                             *)
(***************************************************************************)
RunEnds == <>Ended
=============================================================================
