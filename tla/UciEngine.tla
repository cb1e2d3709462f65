----------------------------- MODULE UciEngine -----------------------------
(***************************************************************************)
(* The threads of the UCI engine (engine.rs, ADR-0011).                    *)
(*                                                                         *)
(*   reader thread --mpsc--> orchestrator (main thread) --spawn--> one     *)
(*   worker thread per `go`                                                *)
(*                                                                         *)
(* They share the stop flag (an AtomicBool), the search object behind a    *)
(* mutex, the transposition table (which has NO lock: it relies on a       *)
(* single mutator) and stdout (a mutex held for exactly one line, so that  *)
(* writing a line is one step).  A command handler that blocks, on a join  *)
(* or on the search mutex, is split at the point where it blocks.          *)
(*                                                                         *)
(* Data is abstract.  What a search leaves behind (table entries; history  *)
(* and pawn-hash contents of the search object) is the id of the search    *)
(* that wrote it.  A chess position is an opaque value, and a `position`   *)
(* command carries the position its handler ends with.  Lines other than   *)
(* the answers and the lines of a search are left out, and so is `debug`,  *)
(* which only switches log lines on and off.                               *)
(***************************************************************************)
EXTENDS Naturals, Sequences, FiniteSets

CONSTANTS
  Commands,       \* the UCI commands the GUI may send in this instance
  Positions,      \* what a position command may end with
  StartPosition,  \* Position::starting_position()
  Settings,       \* values of an option
  DefaultSetting, \* the value an option has at start-up
  MaxLines,       \* bound: lines the GUI sends before stdin is closed
  MaxInfos,       \* bound: iterations one search completes
  NBench          \* number of positions in the bench corpus

\* How a search ends by itself: a bounded one (depth, nodes, mate, clock,
\* movetime) reports when its limit is reached; the others wait for stop.
Kinds == {"bounded", "infinite", "ponder"}

AllCommands ==
  [op : {"uci", "isready", "ucinewgame", "bench", "stop", "quit", "ponderhit",
         "log", "seed", "hash"}, arg : {"none"}]
    \cup [op : {"go"}, arg : Kinds]
    \cup [op : {"position"}, arg : Positions]
    \cup [op : {"overhead", "params"}, arg : Settings]

ASSUME CommandsAssumption == Commands \subseteq AllCommands
ASSUME BoundsAssumption ==
  /\ MaxLines \in Nat /\ MaxInfos \in Nat /\ NBench \in Nat \ {0}
  /\ StartPosition \in Positions /\ DefaultSetting \in Settings

Workers == 1 .. MaxLines    \* one per `go`, numbered in the order of spawning
None == 0                   \* Option::None for handles, and the tag of bench
Orchestrator == MaxLines + 1
QuitCommand == [op |-> "quit", arg |-> "none"]
NoCommand == [op |-> "none", arg |-> "none"]

VARIABLES
  reader,     \* "reading" or "returned"
  lines,      \* lines read so far
  channel,    \* the mpsc queue of parsed commands
  pc,         \* where the orchestrator is
  cmd,        \* the command whose handler is running
  benchLeft,  \* bench positions still to search
  handle,     \* Engine::search_handle: a worker's id, or None
  awaiting,   \* the worker being joined: the handle that take() removed
  stop,       \* the shared cancellation flag
  mutex,      \* who holds the search mutex
  position,   \* Engine::position (and game_history, its trajectory)
  overhead,   \* Engine fields copied into the SearchContext of a go
  params,     \* Engine's mirror of the Aspiration_* options
  moverParams,\* AspirationParams inside the search object
  tt,         \* ids of the searches with entries in the table
  memory,     \* ids of the searches remembered in history and pawn hash
  spawned,    \* number of workers spawned so far
  worker,     \* where each worker is
  job,        \* what each worker was given at its go
  out,        \* the lines of searches, in the order stdout received them
  replies,    \* number of uciok and readyok lines
  \* history variables, read by properties only
  cancelled,  \* searches the GUI or a later handler asked to stop
  ended,      \* why each search ended
  used,       \* the settings each search ran with
  resetAt     \* `spawned` when the game was last reset

readerVars == <<reader, lines>>
engineVars == <<position, overhead, params>>
searchVars == <<mutex, moverParams, tt, memory>>
historyVars == <<cancelled, ended, used, resetAt>>
orchVars == <<pc, cmd, benchLeft, handle, awaiting>>
workerVars == <<spawned, worker, job>>
vars == <<readerVars, channel, orchVars, stop, engineVars, searchVars,
          workerVars, out, replies, historyVars>>

Info(i) == [line |-> "info", go |-> i]
Bestmove(i) == [line |-> "bestmove", go |-> i]

WorkerStates == {"unspawned", "spawned", "searching", "waiting", "found",
                 "reporting", "done"}
\* A worker between thread::spawn and the end of its closure.
Live == {i \in Workers : worker[i] \notin {"unspawned", "done"}}
\* A worker inside Search::go.
Searching == {i \in Workers : worker[i] \in {"searching", "waiting"}}

Jobs == [kind : Kinds, position : Positions, overhead : Settings,
         params : Settings]
NoJob == [kind |-> "bounded", position |-> StartPosition,
          overhead |-> DefaultSetting, params |-> DefaultSetting]

Init ==
  /\ reader = "reading" /\ lines = 0 /\ channel = <<>>
  /\ pc = "recv" /\ cmd = NoCommand /\ benchLeft = 0
  /\ handle = None /\ awaiting = None /\ stop = FALSE
  /\ mutex = None /\ moverParams = DefaultSetting /\ tt = {} /\ memory = {}
  /\ position = StartPosition /\ overhead = DefaultSetting
  /\ params = DefaultSetting
  /\ spawned = 0 /\ worker = [i \in Workers |-> "unspawned"]
  /\ job = [i \in Workers |-> NoJob]
  /\ out = <<>> /\ replies = 0
  /\ cancelled = {} /\ ended = [i \in Workers |-> "none"]
  /\ used = [i \in Workers |-> NoJob] /\ resetAt = 0

-----------------------------------------------------------------------------
\* The reader thread: reader_loop.

\* A line is parsed and sent; after Quit the loop returns.  (The loop also
\* returns when a send fails; run drops its receiver only after a Quit.)
ReadLine(c) ==
  /\ reader = "reading" /\ lines < MaxLines
  /\ lines' = lines + 1
  /\ channel' = Append(channel, c)
  /\ reader' = IF c.op = "quit" THEN "returned" ELSE reader
  /\ UNCHANGED <<orchVars, stop, engineVars, searchVars, workerVars, out,
                 replies, historyVars>>

\* End of file, or a line that cannot be read: a synthetic Quit is sent.
SentAtEof == Append(channel, QuitCommand)

ReadEof ==
  /\ reader = "reading"
  /\ reader' = "returned" /\ channel' = SentAtEof
  /\ UNCHANGED <<lines, orchVars, stop, engineVars, searchVars, workerVars,
                 out, replies, historyVars>>

-----------------------------------------------------------------------------
\* The orchestrator: Engine::run and the handlers.

\* rx.recv() returns the next command, whose handler starts.
Receive(ops) ==
  /\ pc = "recv" /\ channel # <<>> /\ Head(channel).op \in ops
  /\ channel' = Tail(channel)

\* Handlers that write a reply and change nothing: uci, isready.
HandleReply ==
  /\ Receive({"uci", "isready"}) /\ replies' = replies + 1
  /\ UNCHANGED <<readerVars, orchVars, stop, engineVars, searchVars,
                 workerVars, out, historyVars>>

\* Handlers that at most log: ponderhit, register, unknown commands, debug,
\* rejected option values, unknown options, a position with an invalid FEN.
HandleLog ==
  /\ Receive({"ponderhit", "log"})
  /\ UNCHANGED <<readerVars, orchVars, stop, engineVars, searchVars,
                 workerVars, out, replies, historyVars>>

\* handle_position.  No join: a running search has its own copy.
HandlePosition ==
  /\ Receive({"position"}) /\ position' = Head(channel).arg
  /\ UNCHANGED <<readerVars, orchVars, stop, overhead, params, searchVars,
                 workerVars, out, replies, historyVars>>

\* MoveOverhead and VirtualClock: fields read by the next handle_go; no join.
HandleOverhead ==
  /\ Receive({"overhead"}) /\ overhead' = Head(channel).arg
  /\ UNCHANGED <<readerVars, orchVars, stop, position, params, searchVars,
                 workerVars, out, replies, historyVars>>

\* Taking the handle and blocking in its join, having asked the searches `asked`
\* to stop.
Join(asked) ==
  /\ pc' = "join" /\ awaiting' = handle /\ handle' = None
  /\ cancelled' = cancelled \cup asked

Held == {handle} \ {None}

\* join_in_flight_worker: flag and join only if there is a handle to take.
\* Mutants: the worker is joined but not signalled, or signalled but its handle
\* dropped without a join.
JoinWithoutSignal == Join({}) /\ stop' = stop
SignalWithoutJoin ==
  /\ stop' = IF Held = {} THEN stop ELSE TRUE
  /\ pc' = "join" /\ awaiting' = None /\ handle' = None
  /\ cancelled' = cancelled \cup Held
JoinInFlightWorker == Join(Held) /\ stop' = IF Held = {} THEN stop ELSE TRUE

\* handle_stop and handle_quit set the flag whether or not a search runs.
\* Mutant: they leave the join to the next handler.
StopWithoutJoin ==
  /\ stop' = TRUE /\ pc' = "join" /\ UNCHANGED <<awaiting, handle>>
  /\ cancelled' = cancelled \cup Held
StopAndJoin == Join(Held) /\ stop' = TRUE

\* The first part of every handler that joins before it acts.
JoiningOps == {"go", "ucinewgame", "bench", "seed", "hash", "params"}
StartJoining ==
  /\ Receive(JoiningOps)
  /\ cmd' = Head(channel)
  /\ benchLeft' = IF Head(channel).op = "bench" THEN NBench ELSE 0
  /\ JoinInFlightWorker
  /\ UNCHANGED <<readerVars, engineVars, searchVars, workerVars, out, replies,
                 ended, used, resetAt>>

StartStopping ==
  /\ Receive({"stop", "quit"})
  /\ cmd' = Head(channel)
  /\ StopAndJoin
  /\ UNCHANGED <<readerVars, benchLeft, engineVars, searchVars, workerVars,
                 out, replies, ended, used, resetAt>>

\* JoinHandle::join returns when the closure of the worker has ended.
Joined ==
  /\ pc = "join" /\ (awaiting # None => worker[awaiting] = "done")
  /\ awaiting' = None /\ pc' = "act"
  /\ UNCHANGED <<readerVars, channel, cmd, benchLeft, handle, stop, engineVars,
                 searchVars, workerVars, out, replies, historyVars>>

\* The handler is over: back to rx.recv().
Return == pc' = "recv" /\ cmd' = NoCommand

\* The flag of the new search.  Mutant: whatever the last handler left there.
InheritedFlag == stop
FreshFlag == FALSE

\* The part of handle_go after the join.  The context it builds is copied; the
\* aspiration parameters are not, they stay in the search object.
Go ==
  /\ pc = "act" /\ cmd.op = "go"
  /\ stop' = FreshFlag
  /\ spawned' = spawned + 1
  /\ worker' = [worker EXCEPT ![spawned + 1] = "spawned"]
  /\ job' = [job EXCEPT ![spawned + 1] =
               [kind |-> cmd.arg, position |-> position,
                overhead |-> overhead, params |-> params]]
  /\ handle' = spawned + 1
  /\ Return
  /\ UNCHANGED <<readerVars, channel, benchLeft, awaiting, engineVars,
                 searchVars, out, replies, historyVars>>

\* handle_stop returns, leaving the flag set; so does handle_quit, and run.
Stopped ==
  /\ pc = "act" /\ cmd.op = "stop" /\ Return
  /\ UNCHANGED <<readerVars, channel, benchLeft, handle, awaiting, stop,
                 engineVars, searchVars, workerVars, out, replies, historyVars>>

Exit ==
  /\ pc = "act" /\ cmd.op = "quit" /\ pc' = "exited" /\ cmd' = NoCommand
  /\ UNCHANGED <<readerVars, channel, benchLeft, handle, awaiting, stop,
                 engineVars, searchVars, workerVars, out, replies, historyVars>>

\* Hash: the table is replaced, and the flag cleared.
SetHash ==
  /\ pc = "act" /\ cmd.op = "hash"
  /\ tt' = {} /\ stop' = FALSE /\ Return
  /\ UNCHANGED <<readerVars, channel, benchLeft, handle, awaiting, engineVars,
                 mutex, moverParams, memory, workerVars, out, replies,
                 historyVars>>

\* Random_Seed: set_seed under the mutex (a no-op in AlphaBetaMover); the
\* flag is left as the join left it.
SetSeed ==
  /\ pc = "act" /\ cmd.op = "seed" /\ mutex = None /\ Return
  /\ UNCHANGED <<readerVars, channel, benchLeft, handle, awaiting, stop,
                 engineVars, searchVars, workerVars, out, replies, historyVars>>

\* Aspiration_*: the engine's field, then the whole set pushed under the mutex.
SetParams ==
  /\ pc = "act" /\ cmd.op = "params" /\ mutex = None
  /\ params' = cmd.arg /\ moverParams' = cmd.arg /\ Return
  /\ UNCHANGED <<readerVars, channel, benchLeft, handle, awaiting, stop,
                 position, overhead, mutex, tt, memory, workerVars, out,
                 replies, historyVars>>
-----------------------------------------------------------------------------
\* reset_for_new_game, called by ucinewgame and before every bench position.
\* Its own join finds no handle when bench calls it.

ResetFields ==
  /\ pc = "act" /\ cmd.op \in {"ucinewgame", "bench"}
  /\ stop' = IF cmd.op = "bench" THEN FALSE ELSE stop
  /\ position' = StartPosition /\ tt' = {}
  /\ resetAt' = spawned
  /\ pc' = "resetSearch"
  /\ UNCHANGED <<readerVars, channel, cmd, benchLeft, handle, awaiting,
                 overhead, params, mutex, moverParams, memory, workerVars, out,
                 replies, cancelled, ended, used>>

\* What Search::reset leaves of the history table and the pawn hash.
\* Mutant: everything.
MemoryKept == memory
MemoryAfterReset == {}

\* Search::reset under the mutex, then the flag is cleared.
ResetSearch ==
  /\ pc = "resetSearch" /\ mutex = None
  /\ memory' = MemoryAfterReset /\ stop' = FALSE
  /\ IF cmd.op = "bench" THEN pc' = "benchLock" /\ cmd' = cmd ELSE Return
  /\ UNCHANGED <<readerVars, channel, benchLeft, handle, awaiting, engineVars,
                 mutex, moverParams, tt, workerVars, out, replies, historyVars>>

\* handle_bench searches each position on the orchestrator's own thread.
BenchSearch ==
  /\ pc = "benchLock" /\ mutex = None
  /\ mutex' = Orchestrator /\ pc' = "benchSearching"
  /\ UNCHANGED <<readerVars, channel, cmd, benchLeft, handle, awaiting, stop,
                 engineVars, moverParams, tt, memory, workerVars, out, replies,
                 historyVars>>

LastBench == benchLeft = 1

\* The fixed-depth search returns; the next position starts with a reset.
BenchDone ==
  /\ pc = "benchSearching"
  /\ tt' = tt \cup {None} /\ memory' = memory \cup {None}
  /\ mutex' = None /\ benchLeft' = benchLeft - 1
  /\ IF LastBench THEN Return ELSE pc' = "act" /\ cmd' = cmd
  /\ UNCHANGED <<readerVars, channel, handle, awaiting, stop, engineVars,
                 moverParams, workerVars, out, replies, historyVars>>

-----------------------------------------------------------------------------
\* The worker thread: the closure spawned by handle_go.

WorkerGoes(i, from, to) ==
  /\ worker[i] = from /\ worker' = [worker EXCEPT ![i] = to]
  /\ UNCHANGED <<readerVars, channel, orchVars, engineVars, moverParams, stop,
                 spawned, job, replies, cancelled, resetAt>>

\* The mutex is taken for the whole of Search::go.
WorkerStart(i) ==
  /\ mutex = None /\ mutex' = i
  /\ WorkerGoes(i, "spawned", "searching")
  /\ used' = [used EXCEPT ![i] = [job[i] EXCEPT !.params = moverParams]]
  /\ UNCHANGED <<tt, memory, out, ended>>

\* One iteration of the search: the table and the search object's memory are
\* written and an info line goes out.
WorkerIterate(i) ==
  /\ Cardinality({k \in DOMAIN out : out[k] = Info(i)}) < MaxInfos
  /\ WorkerGoes(i, "searching", "searching")
  /\ tt' = tt \cup {i} /\ memory' = memory \cup {i}
  /\ out' = Append(out, Info(i))
  /\ UNCHANGED <<mutex, used, ended>>

\* The search is complete; go infinite and go ponder wait for the flag.
WorkerComplete(i) ==
  /\ LET waits == job[i].kind \in {"infinite", "ponder"}
     IN  /\ WorkerGoes(i, "searching", IF waits THEN "waiting" ELSE "found")
         /\ ended' = IF waits THEN ended ELSE [ended EXCEPT ![i] = "complete"]
  /\ UNCHANGED <<mutex, tt, memory, out, used>>

\* A poll of should_abort sees the flag, in the search or in the wait loop.
WorkerAbort(i) ==
  /\ stop
  /\ \E from \in {"searching", "waiting"} : WorkerGoes(i, from, "found")
  /\ ended' = [ended EXCEPT ![i] = "stopped"]
  /\ UNCHANGED <<mutex, tt, memory, out, used>>

WorkerUnlock(i) ==
  /\ WorkerGoes(i, "found", "reporting") /\ mutex' = None
  /\ UNCHANGED <<tt, memory, out, used, ended>>

\* The worker itself writes its bestmove line, its last act.
WorkerReport(i) ==
  /\ WorkerGoes(i, "reporting", "done") /\ out' = Append(out, Bestmove(i))
  /\ UNCHANGED <<mutex, tt, memory, used, ended>>

-----------------------------------------------------------------------------
ReaderNext == ReadEof \/ \E c \in Commands : ReadLine(c)

OrchestratorNext ==
  \/ HandleReply \/ HandleLog \/ HandlePosition \/ HandleOverhead
  \/ StartJoining \/ StartStopping \/ Joined
  \/ Go \/ Stopped \/ Exit \/ SetHash \/ SetSeed \/ SetParams
  \/ ResetFields \/ ResetSearch \/ BenchSearch \/ BenchDone

WorkerNext(i) ==
  \/ WorkerStart(i) \/ WorkerIterate(i) \/ WorkerComplete(i)
  \/ WorkerAbort(i) \/ WorkerUnlock(i) \/ WorkerReport(i)

\* The process is over: run has returned and process::exit follows.
Terminated == pc = "exited" /\ reader = "returned" /\ UNCHANGED vars

Next == ReaderNext \/ OrchestratorNext \/ (\E i \in Workers : WorkerNext(i))
          \/ Terminated

\* The OS schedules runnable threads; nothing is assumed of the GUI.
Fairness == WF_vars(OrchestratorNext) /\ \A i \in Workers : WF_vars(WorkerNext(i))

Spec == Init /\ [][Next]_vars
FairSpec == Spec /\ Fairness

-----------------------------------------------------------------------------
TypeOK ==
  /\ reader \in {"reading", "returned"} /\ lines \in 0 .. MaxLines
  /\ channel \in Seq(AllCommands)
  /\ pc \in {"recv", "join", "act", "resetSearch", "benchLock",
             "benchSearching", "exited"}
  /\ cmd \in AllCommands \cup {NoCommand}
  /\ benchLeft \in 0 .. NBench
  /\ handle \in Workers \cup {None} /\ awaiting \in Workers \cup {None}
  /\ stop \in BOOLEAN /\ mutex \in Workers \cup {None, Orchestrator}
  /\ position \in Positions /\ overhead \in Settings
  /\ params \in Settings /\ moverParams \in Settings
  /\ tt \subseteq Workers \cup {None} /\ memory \subseteq Workers \cup {None}
  /\ spawned \in 0 .. MaxLines /\ worker \in [Workers -> WorkerStates]
  /\ job \in [Workers -> Jobs] /\ used \in [Workers -> Jobs]
  /\ out \in Seq([line : {"info", "bestmove"}, go : Workers])
  /\ replies \in Nat
  /\ cancelled \subseteq Workers
  /\ ended \in [Workers -> {"none", "complete", "stopped"}]
  /\ resetAt \in 0 .. MaxLines

\* The orchestrator is inside a handler that writes the table or the search's
\* memory itself: Hash, ucinewgame, and bench with its own searches.
OrchestratorMutates ==
  \/ pc = "act" /\ cmd.op \in {"hash", "ucinewgame", "bench"}
  \/ pc \in {"resetSearch", "benchLock", "benchSearching"}

(***************************************************************************)
(* The table has one mutator at a time (engine.rs, field `tt`; ADR-0011    *)
(* and ADR-0018): at most one worker is inside Search::go, and none while  *)
(* the orchestrator clears, resizes or searches.  The table has no lock,   *)
(* so an overlap would be a data race.                                     *)
(***************************************************************************)
SingleMutator ==
  /\ \A i, j \in Searching : i = j
  /\ OrchestratorMutates => Searching = {}

(***************************************************************************)
(* A cancellation is never lost: from the moment a stop, a quit or a       *)
(* joining handler signals search i, the shared flag stays up until search *)
(* i has seen it.  The flag is per engine, not per search, and each go     *)
(* lowers it again.                                                        *)
(***************************************************************************)
StopNotLost ==
  \A i \in cancelled : worker[i] \in {"spawned", "searching", "waiting"} => stop

(***************************************************************************)
(* A search is cut short only if something asked for it after its own go:  *)
(* a flag left up by an earlier stop, quit or option never ends it.        *)
(***************************************************************************)
NoSpuriousAbort ==
  \A i \in Workers : ended[i] = "stopped" => i \in cancelled

(***************************************************************************)
(* Both ways round: a search is cut short exactly when it was asked for.   *)
(***************************************************************************)
StopIsExact == StopNotLost /\ NoSpuriousAbort

(***************************************************************************)
(* A search runs with the position and options in force when its go was    *)
(* handled, although the orchestrator goes on handling position and        *)
(* setoption, and the aspiration parameters live in the shared search      *)
(* object rather than in the context that handle_go copies.                *)
(***************************************************************************)
SearchSeesItsGo ==
  \A i \in Workers : worker[i] \notin {"unspawned", "spawned"} => used[i] = job[i]

(***************************************************************************)
(* After ucinewgame no search sees a table entry, a history score or a     *)
(* pawn-hash entry of an earlier game, and every bench position starts     *)
(* from empty tables, on which the determinism of bench rests.             *)
(***************************************************************************)
GamesDoNotMix ==
  /\ Searching # {} => \A t \in tt \cup memory : t = None \/ t > resetAt
  /\ pc = "benchSearching" => tt \cup memory = {}

(***************************************************************************)
(* The `unreachable!` of Engine::run: while the orchestrator waits for a   *)
(* command, the channel is never both empty and disconnected.              *)
(***************************************************************************)
RecvNeverDisconnected ==
  ~ (pc = "recv" /\ channel = <<>> /\ reader = "returned")

\* The search under way, as the GUI sees it.
Running == IF Live = {} THEN None ELSE CHOOSE i \in Live : TRUE
\* It ends without further commands: it is bounded, or has been cancelled.
MustEnd ==
  Running # None /\ (job[Running].kind = "bounded" \/ Running \in cancelled)

(***************************************************************************)
(* What the GUI is promised (module UciProtocol): every go is answered by  *)
(* one bestmove, in the order of the goes, with all its info lines before  *)
(* it and those of no other search; nothing is pending when the process    *)
(* ends; and a search that is bounded or cancelled is answered.            *)
(***************************************************************************)
Protocol == INSTANCE UciProtocol WITH
  running <- Running, mustEnd <- MustEnd, asked <- spawned, over <- pc = "exited"
ImplementsProtocol == Protocol!Spec

(***************************************************************************)
(* The engine never hangs: isready is always answered, also during         *)
(* `go infinite`, as no handler waits for a search without having told it  *)
(* to stop; and once stdin is closed or quit is read the process ends,     *)
(* whatever search or bench is under way.  n counts the questions so far.  *)
(***************************************************************************)
Asked == replies + Cardinality({k \in DOMAIN channel :
                                  channel[k].op \in {"uci", "isready"}})
AlwaysResponds ==
  /\ \A n \in 1 .. MaxLines : (Asked >= n) ~> (replies >= n \/ pc = "exited")
  /\ (reader = "returned") ~> (pc = "exited")
=============================================================================
