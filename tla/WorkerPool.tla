----------------------------- MODULE WorkerPool -----------------------------
(***************************************************************************)
(* The worker threads of elo-iterate (elo_iterate/controller.rs, driver.rs *)
(* and match_loop.rs as they are seen from the outside).  A worker owns    *)
(* two engine processes, takes commands from a channel of its own, plays   *)
(* pairs of games with colours swapped, and reports to one channel that    *)
(* all workers share.                                                      *)
(*                                                                         *)
(* A game is its winner.  An engine that exits or hangs loses the game in  *)
(* which it does, and is dead from then on (a hung one is killed by the    *)
(* watchdog); the worker finds out when it next waits for readyok.  The    *)
(* strength, the time control and the options of a pair are left out.      *)
(***************************************************************************)
EXTENDS Integers, Sequences, FiniteSets

CONSTANTS
  NWorkers,     \* --concurrency
  Pairs,        \* the pairs that may be dispatched
  Winners,      \* how a game may end that no engine spoils
  MaxFaults     \* bound: crashes, hangs and missed readyoks

WorkerIds == 0 .. NWorkers - 1
Players == {"engine", "opponent"}
Results == Players \cup {"draw"}

ASSUME PoolAssumption ==
  /\ NWorkers \in Nat \ {0} /\ Pairs \subseteq Nat
  /\ Winners \subseteq Results /\ MaxFaults \in Nat

VARIABLES
  worker,    \* per worker: where it is, its pair, and which game of it
  alive,     \* per worker: the engine processes that run
  cmds,      \* per worker: its commands
  open,      \* the controller holds the senders
  reports,
  \* history variables, read by properties only
  won,       \* the winner of each game played
  faults

poolVars == <<worker, alive, cmds, open, reports, won, faults>>

\* 1-based, and used for the name of the game's file.
game_index(pair, leg) == 2 * pair + leg + 1
Games == {game_index(p, leg) : p \in Pairs, leg \in {0, 1}}

PlayPair(p) == [op |-> "pair", pair |-> p]
QuitCmd == [op |-> "quit", pair |-> 0]
GameComplete(w, i, score) == [kind |-> "game", worker |-> w, game |-> i, score |-> score]
PairComplete(w) == [kind |-> "pair", worker |-> w, game |-> 0, score |-> 0]
Failure(w) == [kind |-> "failure", worker |-> w, game |-> 0, score |-> 0]

PoolInit ==
  /\ worker = [w \in WorkerIds |-> [pc |-> "starting", pair |-> 0, leg |-> 0]]
  /\ alive = [w \in WorkerIds |-> Players]
  /\ cmds = [w \in WorkerIds |-> <<>>] /\ open = TRUE /\ reports = <<>>
  /\ won = [i \in Games |-> "none"] /\ faults = 0

-----------------------------------------------------------------------------
\* compute_clawfish_score in half points.  clawfish is white in the first game.
ColorOf(player, leg) == IF (player = "engine") = (leg = 0) THEN "white" ELSE "black"
WhiteScore(winner) == CASE winner = "white" -> 2 [] winner = "black" -> 0 [] OTHER -> 1
\* Mutant: the colours are not swapped back.
AsWhite(winner, clawfish_white) == WhiteScore(winner)
compute_clawfish_score(winner, clawfish_white) ==
  IF clawfish_white THEN WhiteScore(winner) ELSE 2 - WhiteScore(winner)

At(w, pc) == worker[w].pc = pc
Go(w, pc) == worker' = [worker EXCEPT ![w].pc = pc]
Say(report) == reports' = Append(reports, report)

\* The receiver of a worker's commands lives as long as the worker.
Gone == {w \in WorkerIds : At(w, "gone")}

\* Both engines answer uci and isready.
Handshake(w) ==
  /\ At(w, "starting") /\ Go(w, "ready")
  /\ UNCHANGED <<alive, cmds, open, reports, won, faults>>

Take(w) ==
  /\ At(w, "ready") /\ cmds[w] # <<>>
  /\ worker' = [worker EXCEPT ![w] =
       IF Head(cmds[w]).op = "quit" THEN [@ EXCEPT !.pc = "leaving"]
       ELSE [pc |-> "syncing", pair |-> Head(cmds[w]).pair, leg |-> 0]]
  /\ cmds' = [cmds EXCEPT ![w] = Tail(@)]
  /\ UNCHANGED <<alive, open, reports, won, faults>>

Disconnected(w) ==
  /\ At(w, "ready") /\ cmds[w] = <<>> /\ ~open /\ Go(w, "leaving")
  /\ UNCHANGED <<alive, cmds, open, reports, won, faults>>

\* Who must answer readyok: before a pair of a match only the opponent, which
\* has been given its options, and otherwise both.
Awaited(w, spsa) == IF At(w, "syncing") /\ ~spsa THEN {"opponent"} ELSE Players
Answered(w, spsa) == Awaited(w, spsa) \subseteq alive[w]

Sync(w, spsa) ==
  /\ At(w, "syncing") /\ Answered(w, spsa) /\ Go(w, "newgame")
  /\ UNCHANGED <<alive, cmds, open, reports, won, faults>>

\* A readyok that does not come, because the engine is dead or too slow.
Starved(w, spsa) ==
  /\ \/ At(w, "starting") \/ At(w, "syncing") \/ At(w, "newgame")
  /\ IF Answered(w, spsa) THEN faults < MaxFaults /\ faults' = faults + 1
                          ELSE UNCHANGED faults
  /\ Say(Failure(w)) /\ Go(w, "leaving")
  /\ UNCHANGED <<alive, cmds, open, won>>

\* ucinewgame is answered, and the game is played and reported.
Ends(w, winner) ==
  LET leg == worker[w].leg
      i == game_index(worker[w].pair, leg)
      color == IF winner = "draw" THEN "draw" ELSE ColorOf(winner, leg)
  IN  /\ At(w, "newgame") /\ alive[w] = Players
      /\ Say(GameComplete(w, i, compute_clawfish_score(color, leg = 0)))
      /\ won' = [won EXCEPT ![i] = winner]
      /\ worker' = [worker EXCEPT ![w].pc = IF leg = 0 THEN "newgame" ELSE "paired",
                                  ![w].leg = 1]

Play(w) ==
  /\ \E winner \in Winners : Ends(w, winner)
  /\ UNCHANGED <<alive, cmds, open, faults>>

\* recv_until_bestmove fails: IllegalMove for the side to move.
Spoil(w) ==
  /\ faults < MaxFaults /\ faults' = faults + 1
  /\ \E loser \in Players :
       /\ \E winner \in Players \ {loser} : Ends(w, winner)
       /\ alive' = [alive EXCEPT ![w] = @ \ {loser}]
  /\ UNCHANGED <<cmds, open>>

ReportPair(w) ==
  /\ At(w, "paired") /\ Say(PairComplete(w)) /\ Go(w, "ready")
  /\ UNCHANGED <<alive, cmds, open, won, faults>>

\* shutdown of both engines takes up to a second each.
Shutdown(w) ==
  /\ At(w, "leaving") /\ Go(w, "gone")
  /\ UNCHANGED <<alive, cmds, open, reports, won, faults>>

WorkerStep(w, spsa) ==
  \/ Handshake(w) \/ Take(w) \/ Disconnected(w) \/ Sync(w, spsa)
  \/ Starved(w, spsa) \/ Play(w) \/ Spoil(w) \/ ReportPair(w) \/ Shutdown(w)

-----------------------------------------------------------------------------
ReportType ==
  [kind : {"game", "pair", "failure"}, worker : WorkerIds,
   game : Games \cup {0}, score : 0 .. 2]

PoolTypeOK ==
  /\ worker \in [WorkerIds ->
       [pc : {"starting", "ready", "syncing", "newgame", "paired",
              "leaving", "gone"},
        pair : Pairs \cup {0}, leg : {0, 1}]]
  /\ alive \in [WorkerIds -> SUBSET Players]
  /\ cmds \in [WorkerIds -> Seq([op : {"pair", "quit"}, pair : Pairs \cup {0}])]
  /\ open \in BOOLEAN /\ reports \in Seq(ReportType)
  /\ won \in [Games -> Results \cup {"none"}] /\ faults \in 0 .. MaxFaults
=============================================================================
