------------------------------ MODULE MatchGame ------------------------------
(***************************************************************************)
(* One worker of elo-iterate from the inside: the pairs of games it plays  *)
(* between two engine processes (elo_iterate/controller.rs,                *)
(* production_worker_fn; match_loop.rs; driver.rs; adjudicate.rs;          *)
(* match_clock.rs).  WorkerPool is the same worker as its controller sees  *)
(* it, and ImplementsPool says so.                                         *)
(*                                                                         *)
(* An engine is a process that the harness does not control.  Its stdout,  *)
(* the pipe behind it and the reader thread's bounded channel are one      *)
(* stream, whose first Capacity lines are in the channel: the reader can   *)
(* end only when all the rest has moved up.  Time passes while the harness *)
(* waits for a move, in ticks, which both clocks count, and in naps of the *)
(* machine, which recv_timeout counts and Instant does not.  Chess is a    *)
(* graph whose nodes stand for Zobrist keys.                               *)
(***************************************************************************)
EXTENDS Integers, Sequences, SequencesExt, FiniteSets

CONSTANTS
  Scenarios,     \* command lines, and engines that play along or do not
  MaxPairs,      \* bound: pairs of a run
  Graph,         \* per node: the side to move, its moves, check, material
  Capacity,      \* lines that fit into the channel (1024)
  PipeSize,      \* lines that fit into the pipe
  WATCHDOG, SUSPEND_SLACK, HARNESS_OVERHEAD,   \* in ticks
  MaxElapsed,    \* bound: ticks of one move
  FIFTY_MOVES,   \* halfmoves without progress that draw (100)
  RESIGN_MOVECOUNT, RESIGN_SCORE,
  DRAW_MOVENUMBER, DRAW_MOVECOUNT, DRAW_SCORE

Players == {"engine", "opponent"}
Colors == {"white", "black"}
Rival(p) == IF p = "engine" THEN "opponent" ELSE "engine"
Opposite(c) == IF c = "white" THEN "black" ELSE "white"

\* A score as an info line has it.
ScoreType == [kind : {"cp", "mate", "none"}, value : Int]
Cp(n) == [kind |-> "cp", value |-> n]
Mate(n) == [kind |-> "mate", value |-> n]
NoScore == [kind |-> "none", value |-> 0]

\* A scenario: the command line (spsa, wallclock, the time control of either
\* player, pairs, max_plies), what the engines are like (clears: ucinewgame resets their
\* options; scores and infos: the info lines of one search; illegal: answers
\* may be no moves), and bounds (ticks of a game, the length of a nap, what
\* may break, and the lines a babbling engine writes).
Faults == {"crash", "hang", "slow", "babble"}
IsScenario(s) ==
  /\ {s.spsa, s.wallclock, s.clears, s.illegal} \subseteq BOOLEAN
  /\ \A p \in Players : {s.tc[p].initial, s.tc[p].increment} \subseteq Nat
  /\ s.pairs \in 0 .. MaxPairs /\ {s.max_plies, s.infos, s.ticks, s.nap, s.chatter} \subseteq Nat
  /\ s.faults \subseteq Faults /\ \A p \in Players : s.scores[p] \subseteq ScoreType

ASSUME MatchGameAssumption ==
  /\ \A s \in Scenarios : IsScenario(s)
  /\ {Capacity, RESIGN_MOVECOUNT, DRAW_MOVECOUNT} \subseteq Nat \ {0}
  /\ {PipeSize, HARNESS_OVERHEAD, DRAW_MOVENUMBER, SUSPEND_SLACK, MaxPairs} \subseteq Nat
  /\ {WATCHDOG, MaxElapsed, FIFTY_MOVES, RESIGN_SCORE, DRAW_SCORE} \subseteq Nat
  /\ WATCHDOG > SUSPEND_SLACK /\ MaxElapsed >= WATCHDOG
ASSUME GraphAssumption ==
  /\ 1 \in DOMAIN Graph /\ DOMAIN Graph \subseteq Nat \ {0}
  /\ \A n \in DOMAIN Graph :
       /\ Graph[n].side \in Colors
       /\ Graph[n].moves \subseteq [id : Nat, zeroes : BOOLEAN, to : DOMAIN Graph]
       /\ \A m \in Graph[n].moves : Graph[m.to].side = Opposite(Graph[n].side)

VARIABLES
  sc,                           \* the scenario
  cmds, open, dispatched,       \* what the controller has sent
  reports,                      \* what it is told
  pc, pair, leg,                \* where it is, its pair, which game of it
  who, missed,                  \* the engine it waits for; a readyok is missing
  pos, clock, elapsed, asleep, last_info,     \* the game
  proc, inbox, out, search, configured,       \* the engine processes
  used, faulty,                 \* bounds: ticks, naps and chatter, faults
  \* history variables, read by properties only
  record, spent, outcome, won, lost, seen

gameVars == <<pos, clock, elapsed, asleep, last_info, record, spent>>
engineVars == <<proc, inbox, out, search, configured>>
vars == <<sc, cmds, open, dispatched, reports, pc, pair, leg, who, missed, gameVars,
          engineVars, used, faulty, outcome, won, lost, seen>>

-----------------------------------------------------------------------------
\* The lines an engine writes, and the commands it reads.
NoMove == 0
NoGo == <<>>

Line(kind) == [kind |-> kind, go |-> NoGo, score |-> NoScore, move |-> NoMove]
Info(go, score) == [Line("info") EXCEPT !.go = go, !.score = score]
Bestmove(go, move) == [Line("bestmove") EXCEPT !.go = go, !.move = move]
Cmd(op) == [op |-> op, go |-> NoGo, node |-> NoMove]
GoCmd(go, node) == [op |-> "go", go |-> go, node |-> node]

NoInfo == [score |-> NoScore, go |-> NoGo]
Quiet == [go |-> NoGo, node |-> NoMove, infos |-> 0]

-----------------------------------------------------------------------------
\* adjudicate.rs and match_loop.rs: when a game is over.  A position has the
\* keys of the game, the scores of each colour, the halfmove clock and the
\* number of the move.
StartPosition ==
  [history |-> <<1>>, scores |-> [c \in Colors |-> <<>>], halfmove |-> 0, number |-> 1]
Node(p) == Graph[Last(p.history)]
side_to_move(p) == Node(p).side

is_threefold_repetition_for_adjudication(history) ==
  Cardinality({i \in DOMAIN history : history[i] = Last(history)}) >= 3

Over(kind, color) == [kind |-> kind, color |-> color]
GoesOn == Over("none", "white")

detect_native_game_over(p) ==
  IF Node(p).moves = {} THEN
    IF Node(p).check THEN Over("checkmate", Opposite(side_to_move(p)))
    ELSE Over("stalemate", "white")
  ELSE IF p.halfmove >= FIFTY_MOVES THEN Over("fifty", "white")
  ELSE IF is_threefold_repetition_for_adjudication(p.history)
       THEN Over("threefold", "white")
  ELSE IF Node(p).bare THEN Over("insufficient", "white")
  ELSE GoesOn

LastOf(history, n) == SubSeq(history, Len(history) - n + 1, Len(history))

resign_threshold_check(mover_history) ==
  /\ Len(mover_history) >= RESIGN_MOVECOUNT
  /\ \A s \in Range(LastOf(mover_history, RESIGN_MOVECOUNT)) :
       \/ s.kind = "cp" /\ s.value <= -RESIGN_SCORE
       \/ s.kind = "mate" /\ s.value < 0

\* Mutant: the floor is exclusive.
draw_threshold_late(p) ==
  /\ p.number > DRAW_MOVENUMBER
  /\ \A c \in Colors : Len(p.scores[c]) >= DRAW_MOVECOUNT
  /\ \A c \in Colors : \A s \in Range(LastOf(p.scores[c], DRAW_MOVECOUNT)) :
       s.kind = "cp" /\ s.value \in -DRAW_SCORE .. DRAW_SCORE
draw_threshold_check(p) ==
  /\ p.number >= DRAW_MOVENUMBER
  /\ \A c \in Colors : Len(p.scores[c]) >= DRAW_MOVECOUNT
  /\ \A c \in Colors : \A s \in Range(LastOf(p.scores[c], DRAW_MOVECOUNT)) :
       s.kind = "cp" /\ s.value \in -DRAW_SCORE .. DRAW_SCORE

\* After the move of a side, in this order.
Verdict(p, side) ==
  IF detect_native_game_over(p) # GoesOn THEN detect_native_game_over(p)
  ELSE IF resign_threshold_check(p.scores[side]) THEN Over("resign", side)
  ELSE IF draw_threshold_check(p) THEN Over("draw", "white")
  ELSE IF Len(p.history) - 1 >= sc.max_plies THEN Over("max_plies", "white")
  ELSE GoesOn

MoveTo(p, move, score) ==
  LET side == side_to_move(p)
  IN  [history |-> Append(p.history, move.to),
       scores |-> [p.scores EXCEPT ![side] = Append(@, score)],
       halfmove |-> IF move.zeroes THEN 0 ELSE p.halfmove + 1,
       number |-> p.number + (IF side = "black" THEN 1 ELSE 0)]
MoveOf(p, id) == CHOOSE m \in Node(p).moves : m.id = id
IsLegal(p, id) == \E m \in Node(p).moves : m.id = id

\* compute_clawfish_score, in half points.
white_score(o) ==
  CASE o.kind = "checkmate" -> IF o.color = "white" THEN 2 ELSE 0
    [] o.kind \in {"time", "illegal", "resign"} -> IF o.color = "white" THEN 0 ELSE 2
    [] OTHER -> 1
compute_clawfish_score(o, clawfish_white) ==
  IF clawfish_white THEN white_score(o) ELSE 2 - white_score(o)

\* pure_apply_move_clock_update, and the clocks that a game starts with: white
\* is clawfish in the first game of a pair.
ApplyMove(c) == [c EXCEPT !.remaining = @ - elapsed + c.increment]
Forfeited(c) == ApplyMove(c).remaining < -HARNESS_OVERHEAD

PlayerOf(color, l) == IF (color = "white") = (l = 0) THEN "engine" ELSE "opponent"
StartClock(p) ==
  [remaining |-> sc.tc[p].initial, increment |-> sc.tc[p].increment]
\* Mutant: white has clawfish's clock in both games.
FixedClocks(l) == [c \in Colors |-> StartClock(PlayerOf(c, 0))]
Clocks(l) == [c \in Colors |-> StartClock(PlayerOf(c, l))]

\* The watchdog's timer went off: was the machine asleep?
\* Mutants: nobody asks; or the answer is always yes.
NeverSuspended(wait_left) == FALSE
AlwaysSuspended(wait_left) == TRUE
timeout_was_suspend(wait_left) == wait_left > SUSPEND_SLACK
-----------------------------------------------------------------------------
Dead(e) == proc[e] = "dead"
game_index == 2 * pair + leg + 1
GoTag(p, l) == <<pair, l, Len(p.history)>>

\* What is sent to a process that is gone is lost.
Sent(e, ops) == [inbox EXCEPT ![e] = IF Dead(e) THEN @ ELSE @ \o ops]
Ask(stage, e, ops) == pc' = stage /\ who' = e /\ inbox' = Sent(e, ops)
Say(report) == reports' = Append(reports, report)

GameComplete(score) == [kind |-> "game", worker |-> 0, game |-> game_index, score |-> score]
PairComplete == [kind |-> "pair", worker |-> 0, game |-> 0, score |-> 0]
Failure == [kind |-> "failure", worker |-> 0, game |-> 0, score |-> 0]

Options == <<Cmd("setoption"), Cmd("isready")>>
NewGame == <<Cmd("ucinewgame"), Cmd("isready")>>

\* A process that dies leaves what it wrote, and the reader adds that it ended.
Ended(e) == Append(out[e], Line("eof"))

\* The next move is asked of the side to move.  The line of info is forgotten.
\* Mutant: it is kept.
KeepInfo(p) == last_info
ForgetInfo(p) == [last_info EXCEPT ![p] = NoInfo]

AskMove(p, l) ==
  LET player == PlayerOf(side_to_move(p), l)
  IN  /\ Ask("bestmove", player, <<GoCmd(GoTag(p, l), Last(p.history))>>)
      /\ last_info' = ForgetInfo(player) /\ elapsed' = 0 /\ asleep' = 0

StartGame ==
  /\ pos' = StartPosition /\ clock' = Clocks(leg) /\ AskMove(StartPosition, leg)
  /\ record' = <<>> /\ spent' = [p \in Players |-> 0] /\ outcome' = GoesOn
  /\ used' = [used EXCEPT !.ticks = 0, !.naps = 0]
  /\ UNCHANGED <<reports, leg, missed, won>>

BeginShutdown == Ask("closing", "engine", <<Cmd("quit")>>)

\* A failure that no lost game announced is one more that the pool sees.  Before
\* a pair of a match only the opponent is asked.
OnlyOpponent == pc = "options" /\ ~sc.spsa
Fail ==
  /\ Say(Failure) /\ BeginShutdown
  /\ seen' = seen + (IF lost \subseteq (IF OnlyOpponent THEN {"engine"} ELSE {}) THEN 1 ELSE 0)
  /\ UNCHANGED <<gameVars, used, leg, missed, outcome, won>>

-----------------------------------------------------------------------------
\* uciok and readyok.  Of two engines that are asked in turn for static options
\* or for a new game, the second is asked even if the first has not answered.
Keep == UNCHANGED <<gameVars, used, reports, leg, outcome, won, seen>>
InTurn(stage, ops, ok) ==
  /\ pc = stage /\ who = "engine"
  /\ Ask(stage, "opponent", ops) /\ missed' = ~ok /\ Keep

Answered ==
  \/ /\ pc = "uciok" /\ who = "engine"
     /\ Ask("uciok", "opponent", <<Cmd("uci")>>) /\ Keep /\ UNCHANGED missed
  \/ /\ pc = "uciok" /\ who = "opponent"
     /\ Ask("static", "engine", <<Cmd("isready")>>) /\ Keep /\ UNCHANGED missed
  \/ InTurn("static", <<Cmd("isready")>>, TRUE)
  \/ /\ pc = "static" /\ who = "opponent" /\ ~missed
     /\ pc' = "ready" /\ Keep /\ UNCHANGED <<who, inbox, missed>>
  \/ /\ pc = "options" /\ who = "engine"
     /\ Ask("options", "opponent", Options) /\ Keep /\ UNCHANGED missed
  \/ /\ pc = "options" /\ who = "opponent"
     /\ Ask("newgame", "engine", NewGame) /\ Keep /\ UNCHANGED missed
  \/ InTurn("newgame", NewGame, TRUE)
  \/ pc = "newgame" /\ who = "opponent" /\ ~missed /\ StartGame /\ UNCHANGED seen
  \/ pc \in {"static", "newgame"} /\ who = "opponent" /\ missed /\ Fail

Unanswered ==
  \/ InTurn("static", <<Cmd("isready")>>, FALSE)
  \/ InTurn("newgame", NewGame, FALSE)
  \/ (pc \in {"uciok", "options"} \/ who = "opponent") /\ Fail

Awaiting == pc \in {"uciok", "static", "options", "newgame"}
Expected == IF pc = "uciok" THEN "uciok" ELSE "readyok"
Receive == out' = [out EXCEPT ![who] = Tail(@)]
Heard(kinds) == out[who] # <<>> /\ Head(out[who]).kind \in kinds

HearAnswer ==
  /\ Awaiting /\ Heard({Expected}) /\ Receive /\ Answered
  /\ UNCHANGED <<sc, dispatched, cmds, open, pair, proc, search, configured, faulty, lost>>

\* Lines that nobody asked for are passed over.
HearOther ==
  /\ Awaiting /\ Heard({"uciok", "readyok", "info", "bestmove"} \ {Expected}) /\ Receive
  /\ UNCHANGED <<sc, dispatched, cmds, open, reports, pc, pair, leg, who, missed, gameVars, proc,
                 inbox, search, configured, used, faulty, outcome, won, lost, seen>>

\* The stream has ended, or isready could not be written.
HearEnd ==
  /\ Awaiting /\ Dead(who) /\ (out[who] = <<>> \/ Heard({"eof"}))
  /\ Unanswered
  /\ UNCHANGED <<sc, dispatched, cmds, open, pair, proc, out, search, configured, faulty, lost>>

Silent(e) == proc[e] \in {"hung", "babbling"}
MayFault(f) == f \in sc.faults /\ ~faulty

\* The timeout: the engine hangs, or it is too slow, or the machine slept,
\* which this wait takes for a timeout.
NoAnswer ==
  /\ Awaiting /\ Silent(who) /\ Unanswered
  /\ UNCHANGED <<sc, dispatched, cmds, open, pair, proc, out, search, configured, faulty, lost>>

Slow ==
  /\ Awaiting /\ proc[who] \in {"idle", "thinking"} /\ MayFault("slow")
  /\ Unanswered /\ faulty' = TRUE
  /\ UNCHANGED <<sc, dispatched, cmds, open, pair, proc, out, search, configured, lost>>

-----------------------------------------------------------------------------
\* The worker between games.
Take ==
  /\ pc = "ready" /\ cmds # <<>> /\ cmds' = Tail(cmds)
  /\ IF Head(cmds).op = "quit" THEN BeginShutdown /\ UNCHANGED <<pair, leg, configured>>
     ELSE /\ pair' = Head(cmds).pair /\ leg' = 0
          /\ IF sc.spsa THEN Ask("options", "engine", Options)
                        ELSE Ask("options", "opponent", Options)
          /\ configured' = [p \in Players |-> ~sc.spsa /\ p = "engine"]
  /\ UNCHANGED <<sc, dispatched, open, reports, missed, gameVars, proc, out, search, used, faulty,
                 outcome, won, lost, seen>>

HungUp ==
  /\ pc = "ready" /\ cmds = <<>> /\ ~open /\ BeginShutdown
  /\ UNCHANGED <<sc, dispatched, cmds, open, reports, pair, leg, missed, gameVars, proc, out,
                 search, configured, used, faulty, outcome, won, lost, seen>>

ReportPair ==
  /\ pc = "paired" /\ Say(PairComplete) /\ pc' = "ready"
  /\ UNCHANGED <<sc, dispatched, cmds, open, pair, leg, who, missed, gameVars, engineVars, used,
                 faulty, outcome, won, lost, seen>>

-----------------------------------------------------------------------------
\* play_one_game, while it waits for a bestmove.
Thinking == pc = "bestmove"
Mover == side_to_move(pos)

\* The game is over: it is reported, and the next one prepared.
Winner(o) ==
  CASE o.kind = "checkmate" -> PlayerOf(o.color, leg)
    [] o.kind \in {"time", "illegal", "resign"} -> Rival(PlayerOf(o.color, leg))
    [] OTHER -> "draw"
End(o) ==
  /\ outcome' = o /\ won' = [won EXCEPT ![game_index] = Winner(o)]
  /\ Say(GameComplete(compute_clawfish_score(o, leg = 0)))
  /\ IF leg = 0 THEN Ask("newgame", "engine", NewGame)
                ELSE pc' = "paired" /\ UNCHANGED <<who, inbox>>
  /\ leg' = 1
  /\ UNCHANGED <<last_info, elapsed, asleep>>

\* The watchdog expires: the engine is killed, and what it was about to say
\* with it.  Mutant: it is left alone.
SpareEngine == UNCHANGED <<proc, out>>
KillEngine ==
  /\ proc' = [proc EXCEPT ![who] = "dead"]
  /\ out' = IF Dead(who) THEN out ELSE [out EXCEPT ![who] = Ended(who)]

\* A line of info; then the time that is left is looked at.  (Other lines are
\* passed over; here none can come.)
HearInfo ==
  /\ Thinking /\ Heard({"info"}) /\ elapsed < WATCHDOG /\ Receive
  /\ LET line == Head(out[who])
     IN  last_info' = IF line.score = NoScore THEN last_info
                      ELSE [last_info EXCEPT ![who] = [score |-> line.score, go |-> line.go]]
  /\ asleep' = 0
  /\ UNCHANGED <<sc, dispatched, cmds, open, reports, pc, pair, leg, who, missed, pos, clock,
                 elapsed, record, spent, proc, inbox, search, configured, used, faulty,
                 outcome, won, lost, seen>>

\* The last recv_timeout of a wait still takes what is there.
HearBestmove ==
  /\ Thinking /\ Heard({"bestmove"}) /\ Receive
  /\ LET line == Head(out[who])
         forfeits == sc.wallclock /\ Forfeited(clock[Mover])
         move == MoveOf(pos, line.move)
         next == MoveTo(pos, move, last_info[who].score)
     IN  /\ spent' = [spent EXCEPT ![who] = @ + elapsed]
         /\ IF forfeits \/ ~IsLegal(pos, line.move)
            THEN /\ End(Over(IF forfeits THEN "time" ELSE "illegal", Mover))
                 /\ UNCHANGED <<pos, clock, record>>
            ELSE /\ pos' = next
                 /\ clock' = IF sc.wallclock THEN [clock EXCEPT ![Mover] = ApplyMove(@)]
                             ELSE clock
                 /\ record' = Append(record,
                      [side |-> Mover, move |-> move, score |-> last_info[who].score,
                       from |-> last_info[who].go, answers |-> line.go,
                       asked |-> GoTag(pos, leg)])
                 /\ IF Verdict(next, Mover) # GoesOn THEN End(Verdict(next, Mover))
                    ELSE AskMove(next, leg) /\ UNCHANGED <<reports, leg, outcome, won>>
  /\ UNCHANGED <<sc, dispatched, cmds, open, pair, missed, proc, search, configured, used, faulty,
                 lost, seen>>

\* The engine is gone, or has had its time: it loses as if by an illegal move.
Lose ==
  /\ End(Over("illegal", Mover)) /\ lost' = lost \cup {who} /\ seen' = seen + 1
  /\ UNCHANGED <<sc, dispatched, cmds, open, pair, missed, pos, clock, record, spent, search,
                 configured, used, faulty>>

HearExit ==
  /\ Thinking /\ Dead(who) /\ (out[who] = <<>> \/ Heard({"eof"}))
  /\ Lose /\ UNCHANGED <<proc, out>>

\* recv_timeout gives up; or there is no time left when the loop comes round.
TimerFires ==
  /\ Thinking /\ out[who] = <<>> /\ ~Dead(who) /\ elapsed + asleep >= WATCHDOG
WatchdogExpires ==
  /\ \/ TimerFires /\ ~timeout_was_suspend(WATCHDOG - elapsed)
     \/ Thinking /\ out[who] # <<>> /\ elapsed >= WATCHDOG
  /\ KillEngine /\ Lose
WaitAgain ==
  /\ TimerFires /\ timeout_was_suspend(WATCHDOG - elapsed) /\ asleep' = 0
  /\ UNCHANGED <<sc, dispatched, cmds, open, reports, pc, pair, leg, who, missed, pos, clock,
                 elapsed, last_info, record, spent, engineVars, used, faulty, outcome,
                 won, lost, seen>>

\* Time passes.  The bounds on it never stop the watchdog of a silent engine.
Tick ==
  /\ Thinking /\ elapsed < MaxElapsed /\ (Silent(who) \/ used.ticks < sc.ticks)
  /\ elapsed' = elapsed + 1
  /\ used' = IF Silent(who) THEN used ELSE [used EXCEPT !.ticks = @ + 1]
  /\ UNCHANGED <<sc, dispatched, cmds, open, reports, pc, pair, leg, who, missed, pos, clock,
                 asleep, last_info, record, spent, engineVars, faulty, outcome, won,
                 lost, seen>>

\* The lid is closed.
Nap ==
  /\ Thinking /\ sc.nap > 0 /\ used.naps = 0
  /\ asleep' = asleep + sc.nap /\ used' = [used EXCEPT !.naps = 1]
  /\ UNCHANGED <<sc, dispatched, cmds, open, reports, pc, pair, leg, who, missed, pos, clock,
                 elapsed, last_info, record, spent, engineVars, faulty, outcome, won,
                 lost, seen>>

-----------------------------------------------------------------------------
\* shutdown: quit, a second for the process to go, a kill, and the reader is
\* joined.  Nobody receives while it is.
Reap ==
  /\ pc = "closing" /\ pc' = "joining" /\ KillEngine
  /\ UNCHANGED <<sc, dispatched, cmds, open, reports, pair, leg, who, missed, gameVars, inbox,
                 search, configured, used, faulty, outcome, won, lost, seen>>

JoinReader ==
  /\ pc = "joining" /\ Len(out[who]) <= Capacity
  /\ IF who = "engine" THEN Ask("closing", "opponent", <<Cmd("quit")>>)
                       ELSE pc' = "gone" /\ UNCHANGED <<who, inbox>>
  /\ UNCHANGED <<sc, dispatched, cmds, open, reports, pair, leg, missed, gameVars, proc, out,
                 search, configured, used, faulty, outcome, won, lost, seen>>

-----------------------------------------------------------------------------
\* The engines.  One reads its commands in order, answers isready at any time,
\* and ends its search by itself.
Room(e) == Len(out[e]) < Capacity + PipeSize
Write(e, line) == out' = [out EXCEPT ![e] = Append(@, line)]
UNCHANGED_Harness ==
  UNCHANGED <<sc, dispatched, cmds, open, reports, pc, pair, leg, who, missed, gameVars, used,
              outcome, won, lost, seen>>

Read(e) ==
  /\ proc[e] \in {"idle", "thinking"} /\ inbox[e] # <<>> /\ Room(e)
  /\ Head(inbox[e]).op = "go" => proc[e] = "idle"
  /\ inbox' = [inbox EXCEPT ![e] = Tail(@)]
  /\ LET cmd == Head(inbox[e])
     IN  /\ CASE cmd.op = "uci" -> Write(e, Line("uciok"))
              [] cmd.op = "isready" -> Write(e, Line("readyok"))
              [] cmd.op = "quit" -> Write(e, Line("eof"))
              [] OTHER -> UNCHANGED out
         /\ proc' = [proc EXCEPT ![e] = IF cmd.op = "go" THEN "thinking"
                                        ELSE IF cmd.op = "quit" THEN "dead" ELSE @]
         /\ search' = [search EXCEPT ![e] =
              IF cmd.op = "go" THEN [go |-> cmd.go, node |-> cmd.node, infos |-> 0] ELSE @]
         /\ configured' = [configured EXCEPT ![e] =
              (@ /\ ~(cmd.op = "ucinewgame" /\ sc.clears)) \/ cmd.op = "setoption"]
  /\ UNCHANGED_Harness /\ UNCHANGED faulty

Tell(e) ==
  /\ proc[e] = "thinking" /\ search[e].infos < sc.infos /\ Room(e)
  /\ \E score \in sc.scores[e] : Write(e, Info(search[e].go, score))
  /\ search' = [search EXCEPT ![e].infos = @ + 1]
  /\ UNCHANGED_Harness /\ UNCHANGED <<proc, inbox, configured, faulty>>

Answer(e) ==
  /\ proc[e] = "thinking" /\ Room(e)
  /\ \E id \in {m.id : m \in Graph[search[e].node].moves}
               \cup (IF sc.illegal THEN {NoMove} ELSE {}) :
       Write(e, Bestmove(search[e].go, id))
  /\ proc' = [proc EXCEPT ![e] = "idle"] /\ search' = [search EXCEPT ![e] = Quiet]
  /\ UNCHANGED_Harness /\ UNCHANGED <<inbox, configured, faulty>>

\* One that exits, one that stops answering, and one that does not stop talking.
Crash(e) ==
  /\ proc[e] \in {"idle", "thinking"} /\ MayFault("crash") /\ faulty' = TRUE
  /\ proc' = [proc EXCEPT ![e] = "dead"] /\ Write(e, Line("eof"))
  /\ UNCHANGED_Harness /\ UNCHANGED <<inbox, search, configured>>

Break(e, fault, state) ==
  /\ proc[e] \in {"idle", "thinking"} /\ MayFault(fault) /\ faulty' = TRUE
  /\ proc' = [proc EXCEPT ![e] = state]
  /\ UNCHANGED_Harness /\ UNCHANGED <<inbox, out, search, configured>>
Hang(e) == Break(e, "hang", "hung")
StartBabbling(e) == Break(e, "babble", "babbling")

Babble(e) ==
  /\ proc[e] = "babbling" /\ used.chatter < sc.chatter /\ Room(e)
  /\ Write(e, Line("info")) /\ used' = [used EXCEPT !.chatter = @ + 1]
  /\ UNCHANGED <<sc, cmds, open, dispatched, reports, pc, pair, leg, who, missed, gameVars,
                 outcome, won, lost, seen, proc, inbox, search, configured, faulty>>

\* The controller: pairs, one at a time, and an end at any time.  What it sends is
\* looked at when the worker is ready, and could as well be sent then.
UNCHANGED_Worker ==
  UNCHANGED <<sc, reports, pc, pair, leg, who, missed, gameVars, engineVars, used,
              faulty, outcome, won, lost, seen>>
Command ==
  /\ pc = "ready" /\ open /\ cmds = <<>> /\ dispatched < sc.pairs
  /\ cmds' = <<[op |-> "pair", pair |-> dispatched]>> /\ dispatched' = dispatched + 1
  /\ UNCHANGED_Worker /\ UNCHANGED open
Dismiss ==
  /\ pc = "ready" /\ open /\ open' = FALSE
  /\ cmds' = Append(cmds, [op |-> "quit", pair |-> 0])
  /\ UNCHANGED_Worker /\ UNCHANGED dispatched
Drop ==
  /\ pc = "ready" /\ open /\ open' = FALSE
  /\ UNCHANGED_Worker /\ UNCHANGED <<cmds, dispatched>>
-----------------------------------------------------------------------------
Init ==
  /\ sc \in Scenarios
  /\ cmds = <<>> /\ open = TRUE /\ dispatched = 0 /\ reports = <<>>
  /\ pc = "uciok" /\ who = "engine" /\ pair = 0 /\ leg = 0 /\ missed = FALSE
  /\ pos = StartPosition /\ clock = Clocks(0) /\ elapsed = 0 /\ asleep = 0
  /\ last_info = [p \in Players |-> NoInfo]
  /\ proc = [p \in Players |-> "idle"] /\ out = [p \in Players |-> <<>>]
  /\ inbox = [p \in Players |-> IF p = "engine" THEN <<Cmd("uci")>> ELSE <<>>]
  /\ search = [p \in Players |-> Quiet] /\ configured = [p \in Players |-> FALSE]
  /\ used = [ticks |-> 0, naps |-> 0, chatter |-> 0] /\ faulty = FALSE
  /\ record = <<>> /\ spent = [p \in Players |-> 0] /\ outcome = GoesOn
  /\ won = [i \in 1 .. 2 * MaxPairs |-> "none"] /\ lost = {} /\ seen = 0

\* The worker's thread, when what it waits for is there; its timers; and time.
Harness ==
  \/ HearAnswer \/ HearOther \/ HearEnd \/ Take \/ HungUp \/ ReportPair
  \/ HearInfo \/ HearBestmove \/ HearExit \/ Reap \/ JoinReader
Timer == NoAnswer \/ WatchdogExpires \/ WaitAgain
Engine(e) == Read(e) \/ Tell(e) \/ Answer(e)
Fault(e) == Crash(e) \/ Hang(e) \/ StartBabbling(e)

Terminated == pc = "gone" /\ UNCHANGED vars

Next ==
  \/ Harness \/ Timer \/ Slow \/ Tick \/ Nap
  \/ (\E e \in Players : Engine(e) \/ Fault(e) \/ Babble(e))
  \/ Command \/ Dismiss \/ Drop \/ Terminated

Spec == Init /\ [][Next]_vars

\* The worker is a thread; its timers go off and the clock runs; an engine that
\* neither hangs nor babbles answers; and the controller lets it go in the end.
FairSpec ==
  /\ Spec /\ WF_vars(Harness) /\ WF_vars(Timer) /\ WF_vars(Tick)
  /\ \A e \in Players : WF_vars(Engine(e))
  /\ WF_vars(Command) /\ WF_vars(Dismiss \/ Drop)

-----------------------------------------------------------------------------
Pairs == 0 .. MaxPairs - 1
Tags == {NoGo} \cup ((Pairs \cup {0}) \X {0, 1} \X Nat)
LineType ==
  [kind : {"uciok", "readyok", "info", "bestmove", "eof"}, go : Tags, score : ScoreType,
   move : Nat]
CommandType ==
  [op : {"uci", "isready", "setoption", "ucinewgame", "quit"}, go : {NoGo}, node : {NoMove}]
    \cup [op : {"go"}, go : Tags, node : DOMAIN Graph]
MoveType == [id : Nat, zeroes : BOOLEAN, to : DOMAIN Graph]
PositionType ==
  [history : Seq(DOMAIN Graph) \ {<<>>}, scores : [Colors -> Seq(ScoreType)],
   halfmove : Nat, number : Nat]
Outcomes ==
  [kind : {"none", "checkmate", "stalemate", "fifty", "threefold", "insufficient", "resign",
           "draw", "max_plies", "time", "illegal"},
   color : Colors]

Stages ==
  {"uciok", "static", "ready", "options", "newgame", "bestmove", "paired", "closing", "joining",
   "gone"}

WorkerTypeOK ==
  /\ sc \in Scenarios /\ open \in BOOLEAN /\ dispatched \in 0 .. MaxPairs
  /\ cmds \in Seq([op : {"pair", "quit"}, pair : Pairs \cup {0}])
  /\ reports \in Seq([kind : {"game", "pair", "failure"}, worker : {0}, game : Nat,
                      score : 0 .. 2])
  /\ pc \in Stages /\ pair \in Pairs \cup {0} /\ leg \in {0, 1}
  /\ who \in Players /\ missed \in BOOLEAN
  /\ won \in [1 .. 2 * MaxPairs -> Players \cup {"draw", "none"}]
  /\ lost \subseteq Players /\ seen \in Nat
GameTypeOK ==
  /\ pos \in PositionType /\ clock \in [Colors -> [remaining : Int, increment : Nat]]
  /\ elapsed \in 0 .. MaxElapsed /\ asleep \in Nat
  /\ last_info \in [Players -> [score : ScoreType, go : Tags]]
  /\ record \in Seq([side : Colors, move : MoveType, score : ScoreType, from : Tags,
                     answers : Tags, asked : Tags])
  /\ spent \in [Players -> Nat] /\ outcome \in Outcomes
  /\ used \in [ticks : Nat, naps : Nat, chatter : Nat] /\ faulty \in BOOLEAN
EngineTypeOK ==
  /\ proc \in [Players -> {"idle", "thinking", "hung", "babbling", "dead"}]
  /\ inbox \in [Players -> Seq(CommandType)] /\ out \in [Players -> Seq(LineType)]
  /\ search \in [Players -> [go : Tags, node : DOMAIN Graph \cup {NoMove}, infos : Nat]]
  /\ \A e \in Players : proc[e] = "thinking" => search[e].node \in DOMAIN Graph
  /\ configured \in [Players -> BOOLEAN]
TypeOK == WorkerTypeOK /\ GameTypeOK /\ EngineTypeOK

(***************************************************************************)
(* A move is the answer to the go it was asked for, by an engine that has  *)
(* the options of this pair; and the score that counts for resignation and *)
(* draws is what it said in that search, whatever was killed, was late or  *)
(* was left in a pipe before.                                              *)
(***************************************************************************)
AnswersItsGo ==
  /\ \A i \in DOMAIN record :
       /\ record[i].answers = record[i].asked
       /\ record[i].score # NoScore => record[i].from = record[i].asked
  /\ \A e \in Players : proc[e] = "thinking" => configured[e]

(***************************************************************************)
(* Each player has the time control of its own side of the command line,   *)
(* in both games of a pair: what is left on its clock is what it started   *)
(* with and its increments less the time it took, and it is forfeited      *)
(* exactly when that is overdrawn by more than the harness allows itself.  *)
(***************************************************************************)
ColorOf(p) == IF PlayerOf("white", leg) = p THEN "white" ELSE "black"
MovesBy(c) == Cardinality({i \in DOMAIN record : record[i].side = c})
Budget(p, moves) == sc.tc[p].initial + sc.tc[p].increment * moves - spent[p]
Playing == Thinking /\ outcome = GoesOn
ClocksAreTrue ==
  /\ Playing => \A p \in Players :
       clock[ColorOf(p)].remaining =
         IF sc.wallclock THEN Budget(p, MovesBy(ColorOf(p))) ELSE sc.tc[p].initial
  /\ Playing /\ sc.wallclock => \A p \in Players :
       Budget(p, MovesBy(ColorOf(p))) >= -HARNESS_OVERHEAD

(***************************************************************************)
(* A process that is alive is taken for hung only if it had the whole time *)
(* of the watchdog, up to the slack, while the machine was awake           *)
(* (driver.rs, SUSPEND_SLACK).                                             *)
(***************************************************************************)
HungIsHung ==
  [][(Thinking /\ lost' # lost /\ ~Dead(who)) => elapsed >= WATCHDOG - SUSPEND_SLACK]_vars

(***************************************************************************)
(* A game ends at the first ply at which a rule ends it, by the first of   *)
(* the rules that do, and for the side it is about; and it does not go on  *)
(* after that.  The rules are stated over the whole game, move by move.    *)
(***************************************************************************)
Losing(s) ==
  (s.kind = "cp" /\ s.value <= -RESIGN_SCORE) \/ (s.kind = "mate" /\ s.value < 0)
Level(s) == s.kind = "cp" /\ -DRAW_SCORE <= s.value /\ s.value <= DRAW_SCORE
KeyAt(k) == IF k = 0 THEN 1 ELSE record[k].move.to
By(c, k) == {i \in 1 .. k : record[i].side = c}
\* The last n moves of c before ply k all are so; there are that many.
Streak(c, n, k, Is(_)) ==
  \E from \in 0 .. k :
    LET window == {i \in By(c, k) : i > from}
    IN  Cardinality(window) = n /\ \A i \in window : Is(record[i].score)
\* Full moves begun when ply k has been played.
NumberAt(k) == 1 + Cardinality(By("black", k))
Rule(k) ==
  LET node == Graph[KeyAt(k)]
      mover == record[k].side
      still == {i \in 0 .. k : \A j \in i + 1 .. k : ~record[j].move.zeroes}
  IN  [checkmate |-> node.moves = {} /\ node.check,
       stalemate |-> node.moves = {} /\ ~node.check,
       fifty |-> Cardinality(still) > FIFTY_MOVES,
       threefold |-> \E i, j \in 0 .. k - 1 : i < j /\ KeyAt(i) = KeyAt(k) /\ KeyAt(j) = KeyAt(k),
       insufficient |-> node.bare,
       resign |-> Streak(mover, RESIGN_MOVECOUNT, k, Losing),
       draw |-> /\ NumberAt(k) >= DRAW_MOVENUMBER
                /\ \A c \in Colors : Streak(c, DRAW_MOVECOUNT, k, Level),
       max_plies |-> k >= sc.max_plies]
Precedence ==
  <<"checkmate", "stalemate", "fifty", "threefold", "insufficient", "resign", "draw",
    "max_plies">>
Reasons(k) == LET rule == Rule(k) IN {i \in DOMAIN Precedence : rule[Precedence[i]]}
Plies == Len(record)
Earned ==
  LET reasons == Reasons(Plies)
  IN  IF outcome.kind \in {"none", "time", "illegal"} THEN reasons = {}
      ELSE \E i \in reasons :
             /\ Precedence[i] = outcome.kind /\ \A j \in reasons : i <= j
             /\ outcome.kind \in {"checkmate", "resign"} => outcome.color = record[Plies].side
VerdictIsEarned == [][(record' # record /\ record' # <<>>) => Earned']_vars

(***************************************************************************)
(* Seen from its controller the worker is that of WorkerPool: it reports   *)
(* every game with the winner's score from clawfish's side, a pair after   *)
(* its two games, a failure last of all, and an engine that was lost in a  *)
(* game is never played with again.                                        *)
(***************************************************************************)
PoolPc ==
  CASE pc \in {"uciok", "static"} -> "starting"
    [] pc = "options" -> "syncing"
    [] pc = "bestmove" -> "newgame"
    [] pc \in {"closing", "joining"} -> "leaving"
    [] OTHER -> pc
Pool == INSTANCE WorkerPool WITH
  NWorkers <- 1, Pairs <- 0 .. MaxPairs - 1, Winners <- Players \cup {"draw"},
  MaxFaults <- 4,
  worker <- [w \in {0} |-> [pc |-> PoolPc, pair |-> pair, leg |-> leg]],
  alive <- [w \in {0} |-> Players \ lost],
  cmds <- [w \in {0} |-> cmds], faults <- seen
ImplementsPool ==
  /\ Pool!PoolInit
  /\ [][Pool!WorkerStep(0, sc.spsa) \/ Command \/ Dismiss \/ Drop]_(Pool!poolVars)

(***************************************************************************)
(* The worker comes to an end: no answer is waited for without a timer,    *)
(* and neither shutdown nor the reader is stuck behind lines that nobody   *)
(* reads.                                                                  *)
(***************************************************************************)
WorkerEnds == <>(pc = "gone")
=============================================================================
