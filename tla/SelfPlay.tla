------------------------------ MODULE SelfPlay ------------------------------
(***************************************************************************)
(* The self-play corpus pipeline (corpus/selfplay.rs, dispatcher.rs,       *)
(* pending.rs, consumer.rs, pipeline.rs, store.rs and the selfplay and     *)
(* truncate commands of bin/corpus.rs).  Workers claim game ids from a     *)
(* dispatcher, play, and write each game to a file of pending/; one        *)
(* consumer commits the games to lane.bin in the order of their ids.  The  *)
(* process may be killed at any point, and the operator starts it again.   *)
(*                                                                         *)
(* The content of a game depends on its id only, so a file of pending/ is  *)
(* its id.  write_pending, atomic_write and a truncation are atomic for a  *)
(* kill; an append is not, and one that is cut off leaves Torn at the end  *)
(* of the lane.  Left out: files in pending/ that are oversized or hold    *)
(* another game than they are named for, and the guards that refuse an     *)
(* extend with other options.                                              *)
(***************************************************************************)
EXTENDS Integers, SequencesExt, FiniteSetsExt

CONSTANTS
  NGames,          \* --games
  Workers,
  Targets,         \* the values of --cap-positions in this instance
  Caps,            \* and of those that truncate is given
  Survivors(_, _), \* what dedup and cap keep of a game (module LaneCommit)
  Fens,
  None, Torn,
  MaxStarts,       \* bound: commands
  MaxFaults        \* bound: failed writes and damaged files

Games == 0 .. NGames - 1
BlockType == [game : Games, start : Nat, fens : Seq(Fens)]

ASSUME SelfPlayAssumption ==
  /\ NGames \in Nat \ {0} /\ Targets \cup Caps \subseteq Nat \ {0}
  /\ \A g \in 0 .. NGames, seen \in SUBSET Fens :
       /\ Survivors(g, seen) \in Seq(Fens)
       /\ ToSet(Survivors(g, seen)) \cap seen = {}
       /\ Survivors(g, seen) = <<>> =>
            \A more \in SUBSET Fens : Survivors(g, seen \cup more) = <<>>
  /\ MaxStarts \in Nat /\ MaxFaults \in Nat
  /\ None \notin Nat /\ Torn \notin BlockType

VARIABLES
  \* on disk
  lane,        \* lane.bin: blocks, and Torn where one is cut off
  checkpoint,  \* next_consume_id, or None
  pending,     \* ids of the files in pending/
  damaged,     \* those of them that do not decode
  manifest,    \* target_usable and truncated_boundary_offset
  \* the process
  phase,       \* what it is doing, or how it ended
  target,      \* --cap-positions
  rest,        \* the block that a truncate has still to append, or None
  stop,        \* the campaign's stop flag
  nextDispatch, gapQueue, claimed,  \* Dispatcher
  worker,      \* where each worker is
  game,        \* the game it has claimed, or None
  \* the consumer and its LaneCommitter
  cpc, next, committedAtResume,
  fen_set, committed, boundary,
  \* history variables, read by properties only
  starts, faults,
  unsynced,    \* games whose file is there though its write was said to fail
  blind        \* a run went on from a lane whose last game was cut off without
               \* knowing, or whose truncation was cut short

disk == <<lane, checkpoint, pending, damaged, manifest>>
dispatcher == <<nextDispatch, gapQueue, claimed>>
workers == <<worker, game>>
committer == <<fen_set, committed, boundary>>
history == <<starts, faults, unsynced, blind>>
command == <<target, rest>>
vars == <<disk, phase, command, stop, dispatcher, workers, cpc, next,
          committedAtResume, committer, history>>

-----------------------------------------------------------------------------
\* scan_valid_blocks: the blocks before the first that is cut off.
FirstTorn == SelectInSeq(lane, LAMBDA b : b = Torn)
Blocks == IF FirstTorn = 0 THEN lane ELSE SubSeq(lane, 1, FirstTorn - 1)

Ids(blocks) == {b.game : b \in ToSet(blocks)}
FensOf(blocks) == UNION {ToSet(b.fens) : b \in ToSet(blocks)}
\* A block carries the number of positions before it, so that they need not
\* be summed.
Count(blocks) ==
  IF blocks = <<>> THEN 0 ELSE Last(blocks).start + Len(Last(blocks).fens)

Truncated(records, count) ==
  LET room == IF count < target THEN target - count ELSE 0
  IN  IF Len(records) > room THEN SubSeq(records, 1, room) ELSE records

Ended == {"down", "failed", "returned", "truncated"}
Dead == {"gone", "broken"}
Alive == {w \in Workers : worker[w] \notin Dead}
is_fully_drained_at(id) == gapQueue = <<>> /\ \A c \in claimed : c > id

Init ==
  /\ lane = <<>> /\ checkpoint = None /\ pending = {} /\ damaged = {}
  /\ manifest = [target |-> None, offset |-> None]
  /\ phase = "down" /\ target \in Targets /\ rest = None /\ stop = FALSE
  /\ nextDispatch = 0 /\ gapQueue = <<>> /\ claimed = {}
  /\ worker = [w \in Workers |-> "gone"] /\ game = [w \in Workers |-> None]
  /\ cpc = "done" /\ next = 0 /\ committedAtResume = {}
  /\ fen_set = {} /\ committed = 0 /\ boundary = None
  /\ starts = 0 /\ faults = 0 /\ unsynced = {} /\ blind = FALSE

-----------------------------------------------------------------------------
\* The selfplay command.  A target below that of the manifest is refused, and
\* the operator never goes below that of the last command.

\* The last block of the lane was cut off to fit an earlier target.
EndsCut ==
  Blocks # <<>> /\
    LET b == Last(Blocks) IN b.fens # Survivors(b.game, FensOf(Front(Blocks)))

\* What an extend drops: the block at the offset the manifest has, which may
\* lie behind the end of a lane that was truncated since.
DropsCutGame == manifest.offset # None /\ manifest.offset = Len(Blocks) - 1

Start(t) ==
  /\ phase \in Ended /\ starts < MaxStarts
  /\ t = target \/ (phase \in {"returned", "truncated"} /\ t > target)
  /\ manifest.target # None => t >= manifest.target
  /\ starts' = starts + 1 /\ target' = t
  /\ LET extends == manifest.target # None /\ t > manifest.target
     IN  /\ phase' = IF extends THEN "extending" ELSE "resuming"
         /\ blind' = (blind \/ (EndsCut /\ Count(Blocks) < t /\ ~(extends /\ DropsCutGame)))
  /\ UNCHANGED <<disk, rest, stop, dispatcher, workers, cpc, next,
                 committedAtResume, committer, faults, unsynced>>

\* An extend drops the game that was cut off at the old target.  set_len fills
\* a lane that has become shorter with zeros, which are no block ...
TruncatedAt(offset) ==
  IF offset < Len(lane) THEN SubSeq(lane, 1, offset)
  ELSE IF offset > Len(lane) \/ EndsCut THEN Append(lane, Torn)
  ELSE lane

DropBoundary ==
  /\ phase = "extending" /\ phase' = "forgetting"
  /\ lane' = IF manifest.offset = None THEN lane ELSE TruncatedAt(manifest.offset)
  /\ UNCHANGED <<checkpoint, pending, damaged, manifest, command, stop,
                 dispatcher, workers, cpc, next, committedAtResume, committer,
                 history>>

\* ... and the checkpoint, which may be past games that had no room.
\* Mutant: the checkpoint stays.
CheckpointKept == checkpoint
CheckpointOnExtend == None
CheckpointOnTruncate == None

ForgetCheckpoint ==
  /\ phase = "forgetting" /\ phase' = "resuming"
  /\ checkpoint' = CheckpointOnExtend
  /\ UNCHANGED <<lane, pending, damaged, manifest, command, stop, dispatcher,
                 workers, cpc, next, committedAtResume, committer, history>>

smallest_not_in(S) == CHOOSE n \in 0 .. NGames + 1 : n \notin S /\ 0 .. n - 1 \subseteq S
Cursor == IF checkpoint # None THEN checkpoint ELSE smallest_not_in(Ids(Blocks))

\* Files of pending/ that decode and are not ghosts: not of a game in the lane,
\* nor below the checkpoint.
LiveFiles ==
  (pending \ damaged) \ (Ids(Blocks) \cup (IF checkpoint = None THEN {}
                                           ELSE 0 .. checkpoint - 1))

\* The games between the cursor and the highest known are played again, unless
\* they are there.  Mutant: the files of pending/ are forgotten.
UpperOfLane == Max(Ids(Blocks) \cup {Cursor - 1, 0}) + 1
Upper == Max(Ids(Blocks) \cup LiveFiles \cup {Cursor - 1, 0}) + 1
Ascending(S) ==
  CHOOSE q \in [1 .. Cardinality(S) -> S] : \A i, j \in DOMAIN q : i < j => q[i] < q[j]
GapList == Ascending((Cursor .. Upper - 1) \ (Ids(Blocks) \cup LiveFiles))

\* A lane whose very first block is cut off is left as it is (valid_len is 0).
TruncatedToValid == IF Blocks = <<>> THEN lane ELSE Blocks

\* resume, and run up to the spawning of the threads.
Resume ==
  /\ phase = "resuming" /\ phase' = "up"
  /\ lane' = TruncatedToValid
  /\ pending' = LiveFiles /\ damaged' = {}
  /\ next' = Cursor /\ nextDispatch' = Upper /\ gapQueue' = GapList
  /\ claimed' = {} /\ stop' = FALSE
  /\ committedAtResume' = Ids(Blocks)
  /\ fen_set' = FensOf(Blocks) /\ committed' = Count(Blocks) /\ boundary' = None
  /\ worker' = [w \in Workers |-> "top"] /\ game' = [w \in Workers |-> None]
  /\ cpc' = "top" /\ unsynced' = {}
  /\ UNCHANGED <<checkpoint, manifest, command, starts, faults, blind>>

\* SIGTERM or SIGINT.
Interrupt ==
  /\ phase = "up" /\ ~stop /\ stop' = TRUE
  /\ UNCHANGED <<disk, phase, command, dispatcher, workers, cpc, next,
                 committedAtResume, committer, history>>

\* run has joined the workers and the consumer.
Joined == phase = "up" /\ Alive = {} /\ cpc \in {"done", "failed"}
AllWell == cpc = "done" /\ \A w \in Workers : worker[w] = "gone"

Return ==
  /\ Joined /\ AllWell /\ phase' = "returned"
  /\ manifest' = [target |-> target, offset |-> boundary]
  /\ UNCHANGED <<lane, checkpoint, pending, damaged, command, stop, dispatcher,
                 workers, cpc, next, committedAtResume, committer, history>>

Fail ==
  /\ Joined /\ ~AllWell /\ phase' = "failed"
  /\ UNCHANGED <<disk, command, stop, dispatcher, workers, cpc, next,
                 committedAtResume, committer, history>>

-----------------------------------------------------------------------------
\* The truncate command: of the lane it keeps the games that fit under the cap
\* and the positions of the next one that do.  pending/ and the manifest stay.
Fitting(cap) ==
  Cardinality({i \in DOMAIN Blocks : Blocks[i].start + Len(Blocks[i].fens) <= cap})

CutLane(cap) ==
  /\ phase \in Ended /\ phase' = "truncating"
  /\ starts < MaxStarts /\ starts' = starts + 1
  /\ target' = Min({target, cap})
  /\ LET kept == Fitting(cap)
         cut == kept < Len(Blocks)
     IN  /\ lane' = IF cut THEN SubSeq(Blocks, 1, kept) ELSE lane
         /\ rest' = IF cut /\ Blocks[kept + 1].start < cap
                    THEN [Blocks[kept + 1] EXCEPT !.fens = SubSeq(@, 1, cap - Blocks[kept + 1].start)]
                    ELSE None
  /\ UNCHANGED <<checkpoint, pending, damaged, manifest, stop, dispatcher,
                 workers, cpc, next, committedAtResume, committer, faults,
                 unsynced, blind>>

AppendPartial ==
  /\ phase = "truncating" /\ phase' = "unchecking"
  /\ lane' = IF rest = None THEN lane ELSE Append(lane, rest)
  /\ rest' = None
  /\ UNCHANGED <<checkpoint, pending, damaged, manifest, target, stop,
                 dispatcher, workers, cpc, next, committedAtResume, committer,
                 history>>

RemoveCheckpoint ==
  /\ phase = "unchecking" /\ phase' = "truncated"
  /\ checkpoint' = CheckpointOnTruncate
  /\ UNCHANGED <<lane, pending, damaged, manifest, command, stop, dispatcher,
                 workers, cpc, next, committedAtResume, committer, history>>

-----------------------------------------------------------------------------
\* worker_loop.
WorkerGoes(w, from, to) ==
  /\ phase = "up" /\ worker[w] = from
  /\ worker' = [worker EXCEPT ![w] = to]
  /\ UNCHANGED <<lane, checkpoint, manifest, phase, command, stop, cpc, next,
                 committedAtResume, committer, starts, blind>>

\* Dispatcher::release_unclaimed, by the drop of the ClaimGuard or the consumer.
release_unclaimed(g) ==
  claimed' = claimed \ {g} /\ gapQueue' = Append(gapQueue, g)

\* Dispatcher::claim_next: gaps first.
QueueWithoutClaim == Tail(gapQueue)

MoreGames == nextDispatch < NGames

Claim(w) ==
  /\ ~stop /\ WorkerGoes(w, "top", "claimed")
  /\ \/ /\ gapQueue # <<>> /\ game' = [game EXCEPT ![w] = Head(gapQueue)]
        /\ gapQueue' = QueueWithoutClaim /\ UNCHANGED nextDispatch
     \/ /\ gapQueue = <<>> /\ MoreGames
        /\ game' = [game EXCEPT ![w] = nextDispatch]
        /\ nextDispatch' = nextDispatch + 1 /\ UNCHANGED gapQueue
  /\ claimed' = claimed \cup {game'[w]}
  /\ UNCHANGED <<pending, damaged, faults, unsynced>>

Leave(w) ==
  /\ stop \/ (gapQueue = <<>> /\ ~MoreGames)
  /\ WorkerGoes(w, "top", "gone")
  /\ UNCHANGED <<pending, damaged, dispatcher, game, faults, unsynced>>

\* The stop flag is copied once, after the claim: a game is dropped only if it
\* was raised by then.  Later the game is played to its end.
Play(w) ==
  /\ ~stop /\ WorkerGoes(w, "claimed", "played")
  /\ UNCHANGED <<pending, damaged, dispatcher, game, faults, unsynced>>

DropGame(w) ==
  /\ stop /\ WorkerGoes(w, "claimed", "top")
  /\ release_unclaimed(game[w]) /\ game' = [game EXCEPT ![w] = None]
  /\ UNCHANGED <<pending, damaged, nextDispatch, faults, unsynced>>

WritePending(w) ==
  /\ WorkerGoes(w, "played", "written")
  /\ pending' = pending \cup {game[w]} /\ damaged' = damaged \ {game[w]}
  /\ UNCHANGED <<dispatcher, game, faults, unsynced>>

\* ClaimGuard::notify_completed.
NotifyCompleted(w) ==
  /\ WorkerGoes(w, "written", "top")
  /\ claimed' = claimed \ {game[w]} /\ game' = [game EXCEPT ![w] = None]
  /\ UNCHANGED <<pending, damaged, nextDispatch, gapQueue, faults, unsynced>>

\* write_pending fails: before its rename, or after it when the directory cannot
\* be synced (pending.rs:57-64), and then the file is there while the game is
\* queued again.  The claim is dropped before the AliveGuard.
WriteFails(w) ==
  /\ faults < MaxFaults /\ faults' = faults + 1
  /\ \/ WorkerGoes(w, "played", "leaving") /\ UNCHANGED unsynced
     \/ WorkerGoes(w, "written", "leaving") /\ unsynced' = unsynced \cup {game[w]}
  /\ release_unclaimed(game[w]) /\ game' = [game EXCEPT ![w] = None]
  /\ UNCHANGED <<pending, damaged, nextDispatch>>

Break(w) ==
  /\ WorkerGoes(w, "leaving", "broken")
  /\ UNCHANGED <<pending, damaged, dispatcher, game, faults, unsynced>>

-----------------------------------------------------------------------------
\* consumer_loop.
ConsumerGoes(from, to) ==
  /\ phase = "up" /\ cpc = from /\ cpc' = to
  /\ UNCHANGED <<manifest, phase, command, nextDispatch, workers,
                 committedAtResume, starts, blind>>

\* With the stop flag raised, the games that the workers gave up are not waited
\* for.  Mutant: they are.
ExitWhenDrained == next >= NGames \/ (stop /\ is_fully_drained_at(next))
ExitDue ==
  \/ next >= NGames
  \/ stop /\ (is_fully_drained_at(next) \/ Alive = {})

ConsumerExits ==
  /\ ExitDue /\ ConsumerGoes("top", "done")
  /\ UNCHANGED <<lane, checkpoint, pending, damaged, stop, claimed, gapQueue,
                 next, committer, faults, unsynced>>

\* A game that was in the lane when the run began.
SkipCommitted ==
  /\ ~ExitDue /\ next \in committedAtResume
  /\ ConsumerGoes("top", "top") /\ next' = next + 1
  /\ UNCHANGED <<lane, checkpoint, pending, damaged, stop, claimed, gapQueue,
                 committer, faults, unsynced>>

\* The file of the next game is read.
Probe ==
  /\ ~ExitDue /\ next \notin committedAtResume
  /\ ConsumerGoes("top", IF next \notin pending THEN "missing"
                         ELSE IF next \in damaged THEN "garbage" ELSE "found")
  /\ UNCHANGED <<lane, checkpoint, pending, damaged, stop, claimed, gapQueue,
                 next, committer, faults, unsynced>>

\* It was not there: wait for it, or find that nobody will write it.
Wedged == Alive = {} /\ is_fully_drained_at(next)
Wait ==
  /\ ConsumerGoes("missing", IF Wedged THEN "failed" ELSE "top")
  /\ UNCHANGED <<lane, checkpoint, pending, damaged, stop, claimed, gapQueue,
                 next, committer, faults, unsynced>>

\* It does not decode: it is removed and the game is to be played again.
RejectDamaged ==
  /\ ConsumerGoes("garbage", IF Alive = {} THEN "failed" ELSE "top")
  /\ pending' = pending \ {next} /\ damaged' = damaged \ {next}
  /\ release_unclaimed(next)
  /\ UNCHANGED <<lane, checkpoint, stop, next, committer, faults, unsynced>>

\* commit_game.  The block is appended before the checkpoint is written, and
\* the file removed last.
Commit ==
  /\ ConsumerGoes("found", "committed")
  /\ \E survivors \in {Survivors(next, fen_set)} :
       \E kept \in {Truncated(survivors, committed)} :
         \/ kept = <<>> /\ UNCHANGED <<lane, committer>>
         \/ /\ kept # <<>>
            /\ lane' = Append(lane, [game |-> next, start |-> committed,
                                     fens |-> kept])
            /\ fen_set' = fen_set \cup ToSet(kept)
            /\ committed' = committed + Len(kept)
            /\ boundary' = IF kept # survivors /\ boundary = None
                           THEN Len(lane) ELSE boundary
  /\ UNCHANGED <<checkpoint, pending, damaged, stop, claimed, gapQueue, next,
                 faults, unsynced>>

WriteCheckpoint ==
  /\ ConsumerGoes("committed", "saved")
  /\ next' = next + 1 /\ checkpoint' = next + 1
  /\ UNCHANGED <<lane, pending, damaged, stop, claimed, gapQueue, committer,
                 faults, unsynced>>

\* The consumer raises the stop flag once the target is reached.
Unlink ==
  /\ ConsumerGoes("saved", "top")
  /\ pending' = pending \ {next - 1} /\ damaged' = damaged \ {next - 1}
  /\ stop' = (stop \/ committed >= target)
  /\ UNCHANGED <<lane, checkpoint, claimed, gapQueue, next, committer, faults, unsynced>>

\* An append or a checkpoint fails.
Cut == {lane, Append(lane, Torn)}
ConsumerFails ==
  /\ faults < MaxFaults /\ faults' = faults + 1
  /\ \/ /\ ConsumerGoes("found", "failed")
        /\ Truncated(Survivors(next, fen_set), committed) # <<>> /\ lane' \in Cut
     \/ ConsumerGoes("committed", "failed") /\ UNCHANGED lane
  /\ UNCHANGED <<checkpoint, pending, damaged, stop, claimed, gapQueue, next,
                 committer, unsynced>>

-----------------------------------------------------------------------------
\* The process is killed, possibly in the middle of an append.
Kill ==
  /\ phase \notin Ended /\ phase' = "down"
  /\ stop' = FALSE /\ nextDispatch' = 0 /\ gapQueue' = <<>> /\ claimed' = {}
  /\ worker' = [w \in Workers |-> "gone"] /\ game' = [w \in Workers |-> None]
  /\ cpc' = "done" /\ next' = 0 /\ committedAtResume' = {}
  /\ fen_set' = {} /\ committed' = 0 /\ boundary' = None
  /\ rest' = None /\ unsynced' = {}
  /\ \/ UNCHANGED lane
     \/ (cpc = "found" \/ rest # None) /\ lane' \in Cut
  /\ blind' = (blind \/ (phase \in {"truncating", "unchecking"} /\ checkpoint # None))
  /\ UNCHANGED <<checkpoint, pending, damaged, manifest, target, starts, faults>>

\* A file of pending/ that its worker is done with is damaged on the disk.
Damage ==
  /\ faults < MaxFaults /\ faults' = faults + 1
  /\ \E g \in pending \ (damaged \cup claimed) : damaged' = damaged \cup {g}
  /\ UNCHANGED <<lane, checkpoint, pending, manifest, phase, command, stop,
                 dispatcher, workers, cpc, next, committedAtResume, committer,
                 starts, unsynced, blind>>

WorkerNext(w) ==
  \/ Claim(w) \/ Leave(w) \/ Play(w) \/ DropGame(w) \/ WritePending(w)
  \/ NotifyCompleted(w) \/ Break(w)

ConsumerNext ==
  \/ ConsumerExits \/ SkipCommitted \/ Probe \/ Wait \/ RejectDamaged \/ Commit
  \/ WriteCheckpoint \/ Unlink

Boot == DropBoundary \/ ForgetCheckpoint \/ Resume
Truncate == AppendPartial \/ RemoveCheckpoint
Join == Return \/ Fail

Fault == ConsumerFails \/ Damage \/ \E w \in Workers : WriteFails(w)

Idle == phase \in Ended /\ UNCHANGED vars

Next ==
  \/ Boot \/ Truncate \/ Join \/ ConsumerNext \/ \E w \in Workers : WorkerNext(w)
  \/ (\E t \in Targets : Start(t)) \/ (\E cap \in Caps : CutLane(cap))
  \/ Interrupt \/ Kill \/ Fault \/ Idle

\* The threads are scheduled.
Spec == Init /\ [][Next]_vars
FairSpec ==
  /\ Spec /\ WF_vars(Join) /\ WF_vars(ConsumerNext)
  /\ \A w \in Workers : WF_vars(WorkerNext(w))

-----------------------------------------------------------------------------
TypeOK ==
  /\ lane \in Seq(BlockType \cup {Torn})
  /\ checkpoint \in 0 .. NGames \cup {None}
  /\ pending \subseteq Games /\ damaged \subseteq pending
  /\ manifest \in [target : Nat \cup {None}, offset : Nat \cup {None}]
  /\ phase \in Ended \cup {"extending", "forgetting", "resuming", "up",
                          "truncating", "unchecking"}
  /\ target \in Targets \cup Caps /\ rest \in BlockType \cup {None} /\ stop \in BOOLEAN
  /\ nextDispatch \in 0 .. NGames /\ gapQueue \in Seq(Games)
  /\ claimed \subseteq Games
  /\ worker \in [Workers -> {"top", "claimed", "played", "written", "leaving",
                             "gone", "broken"}]
  /\ game \in [Workers -> Games \cup {None}]
  /\ cpc \in {"top", "missing", "garbage", "found", "committed", "saved",
             "done", "failed"}
  /\ next \in 0 .. NGames /\ committedAtResume \subseteq Games
  /\ fen_set \subseteq Fens /\ committed \in Nat
  /\ boundary \in Nat \cup {None}
  /\ starts \in 0 .. MaxStarts /\ faults \in 0 .. MaxFaults
  /\ unsynced \subseteq Games /\ blind \in BOOLEAN

\* The lane does not begin with a block that is cut off.
HeadIsWhole == lane # <<>> => Head(lane) # Torn

(***************************************************************************)
(* lane.bin is what one worker would have written without interruption     *)
(* (ADR-0035: "independent of worker count", "byte-identical to a fresh    *)
(* build"), whatever the schedule, the kills and restarts, and the extends *)
(* from a smaller target.  Each block holds what its game adds to the      *)
(* blocks before it, and a game that is passed over adds nothing, which    *)
(* leaves no choice.  After a truncate it is what a run to the positions   *)
(* that are left would have written.                                       *)
(***************************************************************************)
Adds(g, blocks) ==
  LET survivors == Survivors(g, FensOf(blocks))
      limit == IF phase = "truncated" THEN Count(Blocks) ELSE target
  IN SubSeq(survivors, 1, Min({Len(survivors), Max({limit - Count(blocks), 0})}))
Before(g) == SubSeq(Blocks, 1, Cardinality({i \in DOMAIN Blocks : Blocks[i].game < g}))
Passed(g) ==
  \/ checkpoint # None /\ g < checkpoint
  \/ \E h \in Ids(Blocks) : g < h
LaneIsCanonical ==
  (phase \in {"up", "returned", "failed", "truncated"} /\ HeadIsWhole /\ ~blind) =>
    /\ \A i \in DOMAIN Blocks :
         LET before == SubSeq(Blocks, 1, i - 1)
         IN  /\ \A j \in 1 .. i - 1 : Blocks[j].game < Blocks[i].game
             /\ Blocks[i].start = Count(before)
             /\ Blocks[i].fens = Adds(Blocks[i].game, before)
    /\ \A g \in Games \ Ids(Blocks) : Passed(g) => Adds(g, Before(g)) = <<>>

(***************************************************************************)
(* While the campaign runs, every game from the cursor on is in the lane,  *)
(* in a file, queued, in the hands of a worker that has yet to write it,   *)
(* or not yet dispatched: none is lost on the way.  And none is played     *)
(* twice, at once by two workers or again when it is there already, unless *)
(* its file is there and write_pending said that it had failed.            *)
(***************************************************************************)
Queued == ToSet(gapQueue)
Held == {game[w] : w \in Alive} \ {None}
Playing == {w \in Workers : worker[w] \in {"claimed", "played"}}
EachGameHasOnePlace ==
  phase = "up" =>
    /\ \A g \in Games : g >= next =>
         \/ g \in committedAtResume \cup pending \cup Queued \cup {game[w] : w \in Playing}
         \/ g >= nextDispatch
    /\ claimed \ unsynced = Held \ unsynced /\ Queued \cap Held \subseteq unsynced
    /\ \A v, w \in Alive : game[v] = game[w] /\ game[v] \notin {None} \cup unsynced => v = w
    /\ \A i, j \in DOMAIN gapQueue :
         gapQueue[i] = gapQueue[j] /\ gapQueue[i] \notin unsynced => i = j
    /\ \A g \in (Queued \cup {game[w] : w \in Playing}) \ unsynced :
         g >= next /\ g \notin committedAtResume \cup pending

(***************************************************************************)
(* As long as no write fails and no file is damaged, a run comes to an     *)
(* end: no game is waited for that nobody will play.                       *)
(***************************************************************************)
RunEnds == (phase = "up") ~> (phase # "up" \/ faults > 0)

(***************************************************************************)
(* ADR-0035: "extending a lane built to N up to T yields a lane.bin        *)
(* byte-identical to a fresh build to T".                                  *)
(***************************************************************************)
ExtendIsExact ==
  (phase = "returned" /\ HeadIsWhole) =>
    \A i \in DOMAIN Blocks :
      Blocks[i].fens = Adds(Blocks[i].game, SubSeq(Blocks, 1, i - 1))
=============================================================================
