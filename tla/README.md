# Clawfish in TLA+

A TLA+ model of Clawfish, a UCI chess engine in Rust, and of the tools around it, with what
TLC checks about it on small instances and what TLAPS proves about it for all.

File names below are relative to the source directory of the repository (`src/`); `ADR-n` is
`docs/decisions/n-*.md`.

## 1. The system

### Components

| component | code | state | operations |
|---|---|---|---|
| UCI engine | `engine.rs`, `main.rs` | the position, its history, the options; the stop flag; the handle of the search thread; the search object behind a mutex | one handler per command; the reader thread; the thread of a search |
| UCI parsing | `uci.rs` | none | `parse_uci_line` |
| search driver | `search.rs` (`AlphaBetaMover::go`), `search/params.rs` | the last completed iteration, the two prior scores, the PV and the root score, the aspiration window | deepen, search, search again, abort, wait, answer |
| time management | `search/time.rs` | a start and two deadlines | `compute_caps`, `max_depth_from_limits`, `should_abort` |
| interior search | `search.rs` (`negamax`, `qsearch`), `search/ordering.rs`, `see.rs` | killers, history scores, PV table, the stack of keys | alpha-beta with pruning, reductions and extensions |
| transposition table | `tt.rs` | slots, a generation | probe, store, new search, clear, resize |
| positions | `position.rs`, `mov.rs`, `zobrist.rs`, `history.rs` | board (three copies), rights, clocks, keys, evaluation sums | make, unmake, null moves, repetition |
| move generation | `movegen/`, `magic.rs`, `bitboard.rs` | constant tables | legal moves |
| evaluation | `eval.rs`, `eval/` | the pawn hash | `evaluate`, `evaluate_with_cache` |
| FEN | `fen.rs` | none | parse, write |
| self-play corpus | `corpus/selfplay.rs`, `dispatcher.rs`, `consumer.rs`, `pending.rs`, `pipeline.rs`, `store.rs` | on disk: `lane.bin`, `checkpoint.bin`, `pending/`; in memory: the dispatcher, the committer | claim, play, write, commit, resume |
| corpus command line | `bin/corpus.rs`, `corpus/manifest.rs` | the manifest | selfplay, fetch, extend, truncate, finalize, export |
| corpus fetch | `corpus/fetch/`, `corpus/pgn.rs` | the position in a download; the lane | stream, resume, decompress, split, commit |
| match harness | `elo_iterate/`, `match_clock.rs` | a pool of workers with two engine processes each; the estimate, the SPRT state; in a worker the clocks, the adjudication counters and the last info of each engine | dispatch pairs, play games, stop |
| tuner | `texel/` | weights, optimizer state, checkpoint | load, score, optimise, resume |

### How they interact

The engine is three kinds of threads. The reader turns lines into commands and sends them over
a channel. The orchestrator (`Engine::run`) handles one command at a time. A `go` spawns a
search thread, which holds the mutex of the search object for the whole of `Search::go`, writes
info lines, and writes its bestmove itself after it has released the mutex. What they share is
the stop flag (one for all searches, relaxed), standard output, the search object and the
transposition table, which has no lock: it relies on there being one mutator.

The search driver asks the time manager for its caps before it starts, runs negamax once or
twice per depth, and reads and writes the table through negamax. negamax makes and unmakes moves
on one position, pushes their keys on one history, and asks the evaluation at its leaves.

A self-play campaign has N workers and one consumer. A worker takes a game id from the
dispatcher, plays the game, writes it to a file of its own, and reports it done. The consumer
looks for the file of the next id, in order, and commits it: it appends a block to `lane.bin`,
writes the checkpoint, removes the file. The stop flag, raised by a signal or by the consumer
when the target is reached, ends all of them. Everything else about a campaign is on disk, and
a restart rebuilds the rest from there. A fetch commits to a lane in the same way, in the thread
that downloads: an outer loop opens a dump, a reader resumes it where a connection broke, a
watchdog thread ends an attempt that yields no game.

A match has one controller and N workers, each with two engine processes. The controller sends a
worker one pair of games at a time over that worker's channel; all workers report games, pairs and
failures over one channel. The controller stops when the estimate is stable, when the sequential
test is decided, at the limit of games, or when a worker fails. A worker talks to an engine
through pipes; a reader thread per engine moves lines into a bounded channel.

The tuner reads the evaluation twice: as the engine's own terms at other weights (the reference
scorer), and as counts of features multiplied with a flat vector of weights (the model it trains).

### What is hard

- the stop flag, shared by consecutive searches: lost and inherited stops;
- handlers that must join a search before they change what it reads, and must stop it before
  they join it;
- what is answered when a search is cut short between or inside iterations;
- two keys in one slot, mate scores that depend on the ply, bounds that are classified against a
  window that has moved, scores of a search that was aborted;
- three copies of the board and four sums that are kept by small steps over hundreds of moves;
  special moves that pin masks do not see;
- an evaluation whose terms are written once per colour, and a second time for the tuner;
- a kill between any two writes of a campaign, and what the restart finds; extending or truncating
  a campaign whose last game was cut off; games that are dropped while others wait for them;
- connections that break, stall or refuse to resume, told apart from a dump that has ended;
- a watchdog that expires while the answer is on its way; a host that sleeps; an answer to an
  earlier question;
- pairs of games under way on other workers when a match is decided, reaches its limit of games
  or loses an engine.

`PROJECT.json` lists them under "hazards", each with its line and the properties that cover it.

## 2. The plan

One module per component, the most important behaviour first. Done (sections 3 to 6):

| module | component | abstract specification | proofs |
|---|---|---|---|
| `UciEngine` | orchestrator, reader and search threads | `UciProtocol`: what a GUI may rely on | `UciEngine_proofs` |
| `SearchTime` | the arithmetic of the time manager (operators only) | - | `SearchDriver_proofs` |
| `SearchDriver` (extends `SearchTime`) | iterative deepening and aspiration | `AnytimeSearch`: what a search promises whoever waits for it | `SearchDriver_proofs` |
| `TranspositionTable` | `tt.rs` | `LossyMap`: it forgets, but never makes up | `TranspositionTable_proofs` |
| `SearchParams`, `SearchState`, `Quiescence`, `AlphaBeta` | negamax and qsearch | `Minimax`: what the score of a search may claim | - |
| `Board`, `Position`, `MoveGen`, `Fen`, `MakeMove` | the board, its moves, its text | `ChessRules`: legal moves without masks, a position from its board | `MakeMove_proofs` |
| `See`, `Evaluation`, `TexelFeatures` | static exchange, evaluation, the tuner's scorers (operators only) | `ChessValues`: the exchange played out, the colours swapped, one scorer against the other | - |
| `LaneCommit` | dedup and cap of one game (operators only) | - | - |
| `SelfPlay` | the self-play campaign, extend and truncate | stated inside it: the lane of an undisturbed run (`LaneIsCanonical`) | `SelfPlay_proofs` |
| `CorpusFetch` | the fetch command | stated inside it (`FetchedLaneIsCanonical`) | `CorpusFetch_proofs` |
| `WorkerPool`, `MatchHarness` | the workers of a match, and the controller that drives them (`MatchHarness` extends `WorkerPool`) | - | `MatchHarness_proofs` |
| `MatchGame` | one worker from the inside: two engine processes, clocks, adjudication | `WorkerPool`, the same worker as the controller sees it | `MatchGame_proofs` |

Still to do:

1. `TexelRun`: the loop of `texel/optimizer.rs` with its checkpoints (what reading it has shown so
   far is at the end of section 7).
2. The tokenizer of `uci.rs` and the movetext of `corpus/pgn.rs` as operators.

## 3. The modules and the code

**`UciEngine`** has one action per handler of `Engine::run`. Handlers that join a search take
three steps, because the join blocks: `StartJoining` (or `StartStopping`) raises the flag as the
code does before it joins, `Joined` waits for the thread, and the rest of the handler follows
(`Go`, `ResetSearch`, `SetHash`, `Stopped`, `Exit`, ...). `bench` is a loop of searches on the
orchestrator's own thread, each under the mutex. A search thread starts, takes the mutex,
iterates, and ends for its own reasons (`WorkerComplete`) or because it sees the flag
(`WorkerAbort`); then it releases the mutex (`WorkerUnlock`) and writes its line
(`WorkerReport`), in that order, as the code does. Positions and option values are tags; a line
of output is its kind and the number of its go. The history variables (`cancelled`, `ended`,
`used`, `resetAt`) record who told which search to stop, what each search used, and what was
reset when. `uciok` and `readyok` are only counted (`replies`), and `UciProtocol` has no `readyok`: that no line
of a search comes after the `readyok` that follows its `stop` is not checked.

**`SearchTime`** translates `compute_caps`, `max_depth_from_limits` and `should_abort` with
their saturating arithmetic; "unlimited" is a value of its own, as `Option` is in the code.

**`SearchDriver`** is `AlphaBetaMover::go`: `StartIteration` (depth, window, reset),
`Negamax` or an aborting `Poll`, `Research`, `CompleteIteration` or `DiscardIteration`,
`SelectResult`, and the wait loop (`EndWait`). `Tick` and `Stop` are the clock and the
orchestrator. negamax at the root is what its fail-soft contract lets it return, and may drift
between two tries.

**`TranspositionTable`** keeps the entry as the code packs it: key, score relative to the node,
depth, age and bound in one number, move. `Store`, `NewSearch`, `Clear` and `Resize` are the
actions; `Probe` is an operator, since it changes nothing. The keys of the instance are chosen
to collide. Each position has a true value (`Truth`), so that it can be said what a
probe ought to return at any ply.

**`AlphaBeta`, `Quiescence`** are negamax and qsearch as recursive operators over a state
(`SearchState`: position, history of keys, triangular PV, killers, history scores, table, node
count, abort flag), each returning a score and the next state. One operator per numbered step of
negamax: draws, the table cut, reverse futility, the null move, frontier futility, singular
extension with its verification search, late-move reduction, PVS and its re-searches, the store.
A step of the specification is one search of the root, aborted at any of several node counts or at
none. Chess is a small game graph whose nodes stand for keys; the evaluation, the static score that
the pruning techniques read instead of it (`static_eval_white`: no mobility, king safety and the like), the exchange
value and the MVV-LVA value of a move are numbers of the graph. A window may be empty when a node is called,
below a stalemating queen, and is then treated as the code does. **`SearchParams`** has the formulas of
`search/params.rs`. **`Minimax`** computes for each node and depth the interval in which a score may
lie, widened by exactly what each pruning technique takes for granted; on cyclic games, where
repetition makes scores depend on the path, only the PV and the balance are checked.

**`Board`, `Position`, `MoveGen`, `MakeMove`** are the real 8x8 board. A bitboard is a set of
squares and a shift is arithmetic on bit numbers, with the files that would wrap masked off as in
the code. A Zobrist key is the set of facts whose random numbers are XORed into it, so that XOR is
symmetric difference and two positions have one key exactly when they have the same facts.
`MakeMove` has `Make`, `MakeNull` and `Unmake` with the undo token of the code; the position carries
the mailbox, the piece and the colour sets, the king squares, both keys, the material and
piece-square sums and the phase, each updated where the code updates it. **`MoveGen`** has the pin
and check masks and every emitter. **`Fen`** parses and writes sequences of tokens, with every check of the parser.
**`ChessRules`** says what is legal by trying a move and looking at the king.

**`See`** is the swap algorithm with its attacker set. **`Evaluation`** is every term of `eval.rs` and
`eval/`, the blend, the endgame scales, the fifty-move taper, the mop-up and the pawn hash (a
function of slots, of which the instance has two). **`TexelFeatures`** is the layout of the tuned
vector, the accessors that count features, the linear model and the reference scorer. The passed pawn
term and the endgame scale of the reference scorer (`texel/features.rs:181`, `:233`) are copies of
the engine's in the code and are one definition here: they read the same weights by name.

**`LaneCommit`** is the pure part of a commit: which positions of a game survive the
deduplication within the lane and within the game and the cap per game, in the order in which
the code draws them.

**`SelfPlay`** is a campaign from its first start to its last: what is on disk (`lane`,
`checkpoint`, `pending`, `damaged`, `manifest`), the dispatcher, the workers, the consumer with
its committer. `Start`, `DropBoundary`, `ForgetCheckpoint` and `Resume` are the way up,
each a point at which a kill leaves something else behind; the actions of the consumer
are the writes of `run_consumer` one by one for the same reason. `CutLane`, `AppendPartial` and
`RemoveCheckpoint` are `corpus truncate`. `Kill` forgets what is not on
disk, and cuts an append in two. `WriteFails` is a `write_pending` that fails before its rename, or
after it because the directory cannot be synced (`pending.rs:63-64`): then the file is there while the game is queued
again. `unsynced` names these games, the only ones that may be played twice in a run; the lane has them once.

**`CorpusFetch`** is `cmd_fetch` with the outer loop of `fetch/mod.rs`, the resuming reader, the
gates, the streaming parser and the commit. A dump is a row of raw games; a connection delivers
units, stalls, breaks, refuses to resume or sends less than it said. A `.zst` dump is parsed as it
arrives, a `.zip` or `.7z` dump after it was downloaded. The gates read a part of the dump before
the parse, all of it if it is short; a decoder that has seen the end then does not read from the
connection again (`PastEof`). A commit can fail without ending the attempt, as in the
code.

**`WorkerPool`** is `production_worker_fn`: handshake, one command at a time, `readyok` before
the pair and before each game, the two games with colours swapped, the reports, shutdown. A game
is its winner; `Spoil` is an engine that exits or hangs in a game, which loses it and is found
dead at the next `readyok` (`Starved`). Each worker has a queue of commands, and all share one
queue of reports.

**`MatchHarness`** is the controller. For `run_iteration`: `Bootstrap`, the drain loop
(`HandleGame`, `HandlePair`, `HandleFailure`, `StopDraining`), `QuitAll`, the joins and what is
done with the pairs that are left (`ReturnOk`, `ReturnError`). For `run_spsa`: `SpsaDispatch`, the
barrier (`SpsaHandle`) and `SpsaStep`; an error returns at once (`SpsaFails`), and the process
and its workers end. The likelihood ratio is any function of the counts of pairs
(`LlrVerdict`), and the estimate may be stable at any time from `MinStable` games on. The
history variables are the winner of each game (`won`), the games whose reports were handled, and
how many games could still count when the match was told to stop (`limit`).

**`MatchGame`** is that worker again, line by line: `play_one_game` with both clocks, the watchdog
and its suspend check, every adjudication rule in the order of the code, the two engine processes
with their pipes, the reader's bounded channel, `kill` and `shutdown`. Engines are external: they
answer, write info lines, answer late or illegally, babble, hang or exit, as the scenario says.
Time passes in ticks, which both clocks count, and in naps of the host, which `recv_timeout`
counts and `Instant` does not.

The operators named as mutants in comments (`JoinWithoutSignal`, `ShiftedTooFar`, ...) are
not used by any specification. Each is a plausible bug of the definition it stands next to; it
takes the same parameters, and putting it in that definition's place makes TLC refute the
property `PROJECT.json` lists with it.

## 4. The runs

`PROJECT.json` lists the runs with their properties; each property has its meaning in a comment
above it.

| run | bounds | why they are enough |
|---|---|---|
| `uci_engine` | three lines of input, one info line per search, two searches per bench; every command, one representative of those that behave alike | three lines are a go, a command during its search, and one more go or command that meets what the second left behind; the end of input adds a quit. The interleavings of that command with the thread are all there. |
| `search_driver` | depth to 3, scores -2, 0 and 1, a clock of two ticks, one poll; nine go commands | a first-try fails on either side in depth 2 and its re-search returns something else than the failed bound; depth 3 is the first with two prior scores; a tick of two passes the soft and then the hard cap. |
| `transposition_table` | tables of one and two slots, three keys with moves of their own, two generations, two depths, two searches and three different results between two clears | every pair of keys collides in one slot, two in two; the generation wraps at the second search; three stores are a result with a move, the same position's without one, and another position's in between or after. |
| `alpha_beta` | five game graphs of about ten nodes, two go commands of depth 4, 13 slots, MAX_PLY 16; aborts at eight node counts; the depths at which pruning, aspiration, PVS ramp and singular extension begin are those of the code or smaller | every technique fires within depth 4, every bound is stored and answers another search, the second go reads what the first left, promotions and repetitions have a graph each; in the fifth a draw by a stalemating queen reaches beta, over a reply that stands pat and over one that has two captures. |
| `make_move` | thirteen positions, up to three legal or null moves from each (one move with more than ten pieces, two with more than one piece besides pawns and kings), the tuner's scorers on the first move | each position is built round a special move or a term: en passant on a pinned rank and diagonal, en passant nobody can take, castling through and out of attack, rights lost by capture, promotions, opposite and same-coloured bishops, passed pawns in a race. The weights are the tuned ones of `eval/data.rs`, with the endgame scales among those the outer sweep tries (32, 8, 16); in the place of the piece-square tables, which are data, stands a small term that tells all squares apart. |
| `self_play` | three games, two workers, three commands, one failed write (before or after its rename) or damaged file, targets 1 and 3, truncations to 1 and 2 | game 0 overflows the per-game cap and the target of 1 cuts it, game 1 adds nothing, game 2 meets positions that the cap took from game 0; three commands are a kill, a kill in what the restart does, and a clean run, or a run, a truncation and a run. Targets 3 and 4, where a truncation can end before the offset the manifest has, pass too. |
| `corpus_fetch` | a dump of four raw games, three of them parsable, a line that is not UTF-8 in none or in the third; `.zst` and `.zip`; targets 1, 3 and none; one resume without progress, a buffer of two units, a pre-flight of two or of the whole dump; three commands, one failed append | the games do to the lane what those of `self_play` do; a dump that is longer than the pre-flight and the buffer is cut in each part; three commands are a kill, a kill of the repeat, and a clean run or an extend. |
| `match_harness` | two workers, three pairs of a match or two SPSA iterations of two pairs, one crash, hang or missed `readyok` | the first verdict falls while another pair is under way, which can take the ratio over the other bound, and with a third pair still to be sent; a dead engine is noticed between games and between pairs; the limit of games is reached with no, one or two pairs that wait for their report. |
| `match_game` | nine scenarios of one or two pairs; a watchdog of three ticks, a slack of one; a channel of 4 lines for 1024, a pipe of 2; fifty moves are 9 halfmoves; resignation and draw after two scores | one scenario each for unequal clocks, a long game, scores, every kind of fault, two tuned pairs, two pairs of a test (an engine lost in the first, the other silent before the second) and a nap; more than a channel and a pipe of chatter fits in one game. |

Deadlock is checked where a next state is always owed: where the system may stop there is an
action that says so (`Terminated`, `Finished`, `Idle`). `make_move` and `alpha_beta` explore lines
of bounded length and simply end.

The three other runs each end in a counterexample, to a sentence of the documentation (section 7).

The type invariants of `UciEngine`, `SearchDriver` and `TranspositionTable` are proved rather than
run; so is what the age of an entry does to its replacement (`AgeBias`).

## 5. Fairness

- `UciEngine`: weak fairness of the orchestrator and of each search thread, and nothing of the
  reader, which is the GUI. They are threads of one process that block only on each other; a
  search that is stopped or limited comes to its poll. An infinite search that nobody stops
  has no obligation (`WorkerComplete` is not enabled for it).
- `SearchDriver`: weak fairness of the search and of the clock. `stop` is never owed.
- `MatchHarness`: weak fairness of the controller and of each worker; faults are never owed. Every
  game ends because each move has a watchdog and the game a limit of plies, `readyok` has a timeout
  and `shutdown` kills. `MatchGame` shows just that (`WorkerEnds`).
- `MatchGame`: weak fairness of the harness, its timer, time itself, each engine's program, and the
  controller that sends or closes. A hung engine owes nothing. A
  babbling engine writes a bounded number of lines.
- `SelfPlay`: weak fairness of the joining orchestrator, the consumer and each worker; interrupts,
  kills, failed writes and damaged files are never owed.
- `CorpusFetch`: weak fairness of the process. The network owes nothing: a silent connection is ended by
  the stall timeout of the client, which is part of the process. `FetchEnds` says of an attempt that
  it ends, or that the network goes on failing it.

## 6. The proofs

TLAPS proves what `PROJECT.json` lists under "theorems", for all values of the constants that
satisfy the assumptions named in the modules. Each proof module has an inductive invariant,
a lemma for each action or group of actions, and the theorems as its consequences.

- `UciEngine_proofs`: `SingleMutator` alone is not inductive: that the mutex is free when
  `ucinewgame` writes follows from the handle being joined, which follows from where the handler
  is. `IInv` ties the orchestrator's location to the handle (`HandlerInv`), the handle to the
  only thread that may be alive (`OwnerInv`), the mutex to the thread's state (`MutexInv`), the
  flag to who was told to stop (`CancelInv`), and what a thread holds to what the engine had at
  its go (`SettingsInv`, `GameInv`). The channel needs `ReaderInv`: the last command sent
  before the sender goes is a quit. `StopsAreExact` is both halves of `StopIsExact`: no stop is lost,
  and none is inherited. `ProtocolKept` is the refinement of `UciProtocol`, step by step: at most one search is alive,
  and it is the handle's or the one the handler is joining, so the lines a GUI sees are those of one search at a
  time. It covers `Protocol!Safety`; the fairness in `ImplementsProtocol` stays with TLC.
- `SearchDriver_proofs`: first the arithmetic of the time manager. `ClockCapsSane` is the forfeit guard for all
  clocks; `RawSoftFits` is that 64 bits are enough. Then that an aspirated iteration is exact needs that the re-search starts
  from a proved bound (`Trying`), that the window was open (`Order`) and what the
  score in hand proves (`Searched`); the two lemmas `FirstTry` and `SecondTry` are the
  mathematics, the rest is control.
  `SearchIsAnytime` is the refinement of `AnytimeSearch`: iterations follow each other one ply apart, and the
  result the wait loop holds is the one that was selected (`StepInv`).
- `TranspositionTable_proofs`: every slot holds a true score for its key, relative to the node
  (`TrueScore`), and its age is that of the search that wrote it (`Dated`). `Refinement` shows that
  every step of the table is a step of `LossyMap` or leaves it as it is: a store of a position takes
  in what was stored, or is refused, and clear and resize forget everything. `NothingIsMadeUp` then needs only the
  lossy map's own steps: what a probe gives was stored for that position since the last clear, move and all.

- `MatchHarness_proofs`: the tally and the counts of pairs are sums of reports, so the invariant says
  where reports come from. A worker has at most one pair in flight (`PairOf`), in its channel or in
  its hands, and no two workers the same (`OwnerInv`); its games are played once and in order
  (`FreshInv`), each has one report that says what it was worth, and the report of the pair comes after
  both (`ReportInv`, `OnceInv`, `OrderInv`). Hence a worker's buffer is at any time the scores of those
  games of its pair that were handled (`BufferInv`), and a pair that was dispatched is complete or in flight
  (`DoneInv`), from which `PairsAreWhole` follows by counting. `FirstCrossingStands` needs none of it.
  In a tuning run a worker has several pairs in its channel, so `StepsCorrect` has an invariant of its own
  (`SpsaInv`): a pair of the iteration is in one place at most (`SentInv`, `ApartInv`), its games are played once
  (`PlayedInv`) and reported before the pair is (`BehindInv`), and the controller's count is that of the pairs whose
  report it has read (`SumInv`). When the count is full, nothing of the iteration is missing or on its way, and the
  sum is that of its games. That such a sum does not depend on the order is an induction over finite sets: strict
  inclusion on them is well-founded, so of the sets for which it failed there would be a smallest one (`SmallestSet`,
  `TotalAdd`).
- `SelfPlay_proofs`: a game below the next to dispatch is in the lane, in a file, in the queue or with a
  worker that has yet to write it (`DispatchInv`); it is queued or played only if it is not there (`QueueInv`,
  `WorkerInv`), but for a game in `unsynced`, of which a second copy may be queued, played and written; the
  consumer's location tells what it found (`ConsumerInv`). `LaneCorrect` speaks of a campaign that is up, has
  returned or failed, and of a lane that was truncated, not of the steps in between, and says nothing of the manifest's
  offset, which section 7 shows to be wrong after a repeated run. That the lane is canonical needs more.
  `Grown`: a block is a beginning of what its game adds to the blocks before it, all of it but for the last.
  `SettledInv`: the games below the cursor are in the lane, or add nothing, or came after the target was reached;
  the checkpoint promises the same, except to a run that is about to extend. `EndsWell`: the last block is
  whole unless the target is reached; a larger target makes that false, and `DropBoundary`
  has to make it true again before anything reads the lane, so the phases in which it
  holds are part of the invariant. A game that was passed over goes on adding nothing because dedup only ever takes more
  (the last part of `SelfPlayAssumption`, which TLC evaluates for `LaneCommit`). `CommitterInv` says that the
  committer's memory is what the disk has, which is what a kill makes irrelevant and a resume restores.
- `CorpusFetch_proofs`: the lane is reasoned about as in `SelfPlay_proofs` (`Contiguous`, `Grown`, `EndsWell`,
  `CommitterInv`), but a fetch has no cursor on the disk: an attempt starts again at byte 0, and the games it has
  settled are those it has parsed (`SettledInv`). A game that is seen again is passed over by its id alone, so the
  proof needs that ids do not depend on the run and rise with the dump without a gap (`GameIds`). That Eos is true
  (`DrainInv`) rests on who may set `eof_reason` and `failure`: the reader sets InnerEof only when all of the dump was
  received and Target only when the target is reached, and what a lost connection leaves behind is a failure
  (`AttInv`). A stop at the target that cuts a game in two leaves the target reached, so it is no Eos of
  a lane that lacks something.

- `MatchGame_proofs`: a line of an engine does not say which question it answers, so the invariant is about the
  pipes. An engine nobody waits for has only info lines in its pipe (`Rests`); one that was asked has at most one answer
  there, and nothing after it (`Replies`); one that is to move has been sent the go of this position and speaks of
  no other (`Plays`). A late answer breaks that, and `LostInv` and `MissedInv` say why it does not matter: the worker
  never again listens to an engine that was lost or that missed a deadline, except on its way out. `AnswersCorrect` has
  one hypothesis, that engines keep their options over `ucinewgame` (`KeepsOptions`); without it the property is false,
  as section 7 has it. `ClockInv` ties both clocks to the record of the game.
  `VerdictsEarned` needs that the position the code adjudicates holds what the record of the whole game
  says (`Shows`): its keys, the plies since the halfmove clock was reset, and the j-th score of a side as that of its j-th move, so that
  the last n scores are the last n moves (`WindowShown`). `PoolImplemented` is the refinement
  of `WorkerPool`: handshake, options, a move, a lost engine, a failure and the last join are its steps, all
  else is none. It needs that at most two failures are seen, and which (`SeenInv`).

- `MakeMove_proofs`: `UnmakeCorrect` is `UnmakeRestores`, and `FenFaithful` is `IsWhatItsFenSays`, for any FENs
  (`GamesAssumption` only types their fields; TLC evaluates it) and lines of any length.
  *Taking back.* Unmake moves the board back and recomputes nothing, which gives the old
  board only if the move made sense. `StepInv` is what every emitter of `MoveGen` promises of its moves, special moves
  included; it needs the position to be `Legal`: the three copies of the board agree, a king is where `kingSq` says, the
  rights have their king and rook, the en passant target lies behind a pawn that can be taken, no pawn is on a last
  rank. A move and a pass leave a `Legal` position (`MadeLegal`, `PassedLegal`). So does the parser (`ParseLegal`), which is an
  induction over the tokens of the placement, done like that over finite sets above; a promise of the parser in its own
  right.
  *Small steps.* `Sane` adds to `Legal` that the keys and the sums equal a full computation (`ValuesInv`). `make_move` XORs
  and adds terms for the squares, rights and file it changes; the proof follows them through captures, en passant,
  promotion and castling, and needs `Legal` to know what stood on each square. `LinesLegal` is this for every position of a line.
  *Text.* What `format` writes is read back (`ReadBack`): the writer's pending run of empty squares and the reader's
  cursor are related after each square, then rank by rank; then rights, en passant target and clocks. A board that is the
  same has the same keys and sums, so the parsed position is the position.
  All three have one hypothesis, that the king of the side to move is on the board (`KingStands`): the parser accepts
  a FEN in which it can be captured. `FenFaithful` says nothing of a position whose 16-bit move number has wrapped to 0,
  which `format` writes and the parser refuses.

Only model-checked: liveness (`AlwaysResponds`, `Answers`, `RunEnds`, `WorkerEnds`, `FetchEnds`), the other
properties of the chess modules, and the search. The operators of `AlphaBeta`, `Quiescence` and `See` are recursive, which leaves the prover
without its arithmetic.

## 7. What the code and its documentation disagree about

Three runs show it:

| run | disagreement |
|---|---|
| `aspiration_panic` | two legal `setoption`s, Aspiration_Min above Aspiration_Max, make `clamp` panic, and the go is never answered |
| `extend` | repeating a finished run forgets the offset of the game it cut off, so that a later extend is not byte-identical |
| `fetch_torn` | a fetch never cuts a torn block from the end of its lane, and what follows is buried behind it; `consumer.rs:79` has the same gap for a first block |

`ScoresAreProven`, `LaneIsCanonical` and `FetchedLaneIsCanonical` exempt by name the states that defects
lead to, and hold in all others (`cut_short`: an empty window ended the loop of a node below beta, see Search below;
`HeadIsWhole`: no torn block at the head; `blind`: a run went on from a lane whose last game was
cut off, without knowing; `gapped` and `bad` below). Likewise `WindowsAreOpen` exempts
Aspiration_Min = 0, which the options admit: a window that is empty takes an upper bound for a
fail-high.

What else came up while the models were written, with no run of its own:

- *Engine.* `go searchmoves` with no legal move may answer with a move from the table instead of
  0000 (`search.rs:258` against `:107-109`). `elo_iterate/controller.rs:334-350` and
  `docs/plans/eloh.b.md:182` send `setoption` before `ucinewgame`
  to defend against an engine that forgets its options at `ucinewgame`; with such an engine (`clears`) it is
  that order in which `AnswersItsGo` fails.
- *Search.* Singular extensions let the ply outgrow the PV and killer tables: nothing in negamax
  compares it with MAX_PLY, though `docs/research/m5-singular-extensions.md:280-281` and `:392` rely on
  a ceiling. After a new queen that stalemates and whose draw reaches beta, qsearch searches the rook and the
  bishop in an empty window (`search.rs:2503-2526`). The node below, unless the table or its stand-pat score
  answers, is cut at `alpha >= beta` (2551) after its first move, whatever that scored, and stores the score as
  Upper, which `tt.rs:31` does not allow; `docs/decisions/0027-qsearch-correctness.md:87` moved that comparison
  as "Behavior-preserving on non-queen-promo moves". The game graph `Saves` of `MCAlphaBeta` gets there: black has
  a second capture worth 250 and -200 is stored as its upper bound, so that `ScoresAreProven` fails there
  without its exception. qsearch stores the score of a single reply as exact when alpha had been raised to the
  stand-pat score (`search/qsearch.rs:104-133`). The verification search of a singular extension leaves its PV in the
  row of the ply (`search.rs:429-430`). A root restricted by searchmoves is stored under the plain key. A
  stalemate is scored by standing pat or by reverse futility. `Minimax` widens its interval for
  these, as it does for the pruning that is meant.
- *Positions.* `position.rs:15-18` has the en passant target set after every double push; the getter's own comment
  (`position.rs:280-283`), `make_move`, the parser and ADR-0015 set it only when a pawn can take, and so does
  `Position`. The fullmove number is a u16 that `make_move` adds 1 to (`mov.rs:701-702`): in a release build it wraps
  to 0 after move 65535, which the position's own FEN then says and the parser refuses; the release-checked profile
  panics instead. A FEN is accepted in which the side to move can capture the king.
- *Self-play.* After a worker's fatal write the game is queued again, nobody claims it, and the
  consumer polls for ever (`consumer.rs:306`, `selfplay.rs:590`, against
  `docs/plans/m6.g-per-game-files.md:77`). When the consumer fails, nothing tells the workers.
- *Truncate.* The manifest keeps its target, so that the smaller target for which `cmd_selfplay` sends the operator to
  `corpus truncate` (`bin/corpus.rs:422`) is refused afterwards as well; a run to the old target keeps the game the
  truncation cut off. The manifest's offset stays too: an extend that finds the lane
  shorter than the offset fills it with zeros, which the resume cuts away. A kill between the cut and the removal of
  the checkpoint leaves a checkpoint that passes over the games that were cut.
- *Ingest.* `ingest-pgn` numbers its games above those of the lane so that ingests can be repeated
  (`bin/corpus.rs:715-718`), but it writes the source tag on which its second call is refused
  (`bin/corpus.rs:668-687`).
- *Fetch.* A failed append does not halt the games that are already buffered, so that a later run
  passes the failed one over for ever (`fetch/mod.rs:691-706`, where `reader.rs:77-81` has "so the parse
  halts"): `gapped`. A stop at the target ends a `.zip` download in a way that can leave half a
  game. The offset of a cut-off game is lost by a repeated run, a kill between the last commit and the manifest, and an extend
  from no target. Errors of the parser are dropped (`let _ =`, `fetch/mod.rs:597`): a line that is not
  UTF-8 is the end of the dump (`bad`), and a dump that fails the gates is fetched again for ever.
- *Match.* An engine that writes more lines than the channel holds while nobody reads blocks the
  reader thread that the worker joins (`driver.rs:490` against `:8-11` and `:308`); `WorkerEnds` holds as
  long as what is unread fits. `wait_for_readyok` (`driver.rs:443`) does not re-arm after a
  suspension, as the wait for a move does (`driver.rs:380`). A test whose last pair
  crosses a bound at the limit of games reports `verdict=continue`.
- *Tuner.* `texel/optimizer.rs:11-12` has "resume is bit-identical". A run killed after the last checkpoint of a
  plateau returns the last weights on resume and not the best; what `quant_stable` counts is not in the checkpoint; a rerun of
  a tune that ended on its plateau trains on.

## 8. What is not modelled

- Data: the piece-square tables, the Zobrist numbers, the magic multipliers and the search for them.
- Floating point: the likelihood ratio, the estimator, the SPSA step, the loss and the gradient of the
  tuner. Where they decide something the models take any value they could have.
- Character-level text: UCI lines, PGN movetext, EPD, JSON, command lines. The models take what they
  yield; `Fen` is modelled because its checks decide which positions exist.
- The EPD suite runner, a sequential client of the engine; perft; the quality gate and the
  filters, predicates on single positions; `finalize` and `export`, which write digests and text.
- The decompressors, the replay of a PGN game's moves, the file system's own failures other than a
  write that fails, an append that is cut off and a file that is damaged.
- Memory ordering: the flags are relaxed atomics that publish nothing else, so a flag that is
  seen late is a schedule in which its reader ran early.
- What section 2 still has to do. More than half of the repository's lines are tests
  (`search/tests.rs` alone is a quarter of them); the models cover the code they test.
