---------------------------- MODULE CorpusFetch ----------------------------
(***************************************************************************)
(* The fetch command of the corpus (corpus/fetch/, corpus/pgn.rs,          *)
(* LaneCommitter of corpus/pipeline.rs and cmd_fetch of bin/corpus.rs): a  *)
(* dump of games is streamed over HTTP, decompressed, parsed and committed *)
(* game by game to lane.bin.  A lost or stalled connection is resumed where*)
(* it broke; when that fails the whole dump is read again from byte 0; and *)
(* the operator repeats a command that was killed, or extends its target.  *)
(*                                                                         *)
(* The dump is a row of raw games, the unit in which it is received: n     *)
(* units are the text of n games, the last of which is complete only when  *)
(* the next begins or the dump ends.  A .zst dump is parsed as it arrives; *)
(* a .zip or .7z dump is downloaded first and then parsed from the disk.   *)
(* Time is left out: the stall watchdog may find that no game was parsed   *)
(* for too long whenever it looks.  Left out too: fetch-state.json, and    *)
(* the guards that refuse an extend with another source, seed or engine.   *)
(***************************************************************************)
EXTENDS Integers, SequencesExt, FiniteSetsExt

CONSTANTS
  NRaw,                \* raw games in the dump
  Parsable,            \* those that replay to a result
  recs(_),             \* the quiet positions of a game the filter admits
  Survivors(_, _, _),  \* what dedup and cap keep of them (module LaneCommit)
  Fens,
  BadLines,            \* raw games with a line that is not UTF-8, or None
  Codecs,
  Targets,             \* the values of --target-positions
  Unbounded,           \* the one that stands for none
  max_noprogress_resumes,
  Preflights,          \* units the pre-flight gates may read, depending on the dump
  Buffer,              \* units a read may return
  None, Torn,
  MaxStarts,           \* bound: commands of the operator
  MaxAppendFaults      \* bound: appends that fail

RawGames == 1 .. NRaw
\* stream_pgn numbers the games it emits: the id does not depend on the run.
GameId(raw) == Cardinality({r \in Parsable : r <= raw})
Ids == 1 .. Cardinality(Parsable)
BlockType == [game : Ids, start : Nat, fens : Seq(Fens)]

ASSUME CorpusFetchAssumption ==
  /\ NRaw \in Nat \ {0} /\ Parsable \subseteq 1 .. NRaw
  /\ \A id \in Ids :
       /\ recs(id) \in Seq(Fens)
       /\ \A n \in 0 .. Len(recs(id)), seen \in SUBSET Fens :
            Survivors(SubSeq(recs(id), 1, n), id, seen) \in Seq(Fens)
       /\ \A seen, more \in SUBSET Fens :
            Survivors(recs(id), id, seen) = <<>> =>
              Survivors(recs(id), id, seen \cup more) = <<>>
  /\ Codecs \subseteq {"zst", "zip"} /\ BadLines \subseteq 1 .. NRaw \cup {None}
  /\ Targets \subseteq 1 .. Unbounded /\ Unbounded \in Nat
  /\ max_noprogress_resumes \in Nat /\ Preflights \subseteq Nat \ {0}
  /\ Buffer \in Nat \ {0} /\ MaxStarts \in Nat /\ MaxAppendFaults \in Nat
  /\ None \notin Nat \cup {"InnerEof", "Target", "Stall", "Transient", "Permanent",
                          "RangeIgnored", "Eos", "EarlyTarget", "Stopped"}
  /\ Torn \notin BlockType

VARIABLES
  \* outside
  codec, bad,  \* the dump: how it is compressed, its line that is not UTF-8, and
  preflight,   \* how many of its units the pre-flight gates read
  \* on disk
  lane,        \* lane.bin: blocks, and Torn where one is cut off
  manifest,    \* target_usable and truncated_boundary_offset
  \* the process
  pc, target, stop,
  call,        \* CallState and LaneCommitter
  att,         \* AttemptState, ResumableHttpReader and the parser
  terminated,
  \* history variables, read by properties only
  starts, faults,
  blind,       \* a run went on behind a game that was cut off at a target
  gapped       \* a game was committed after one that could not be

disk == <<lane, manifest>>
dump == <<codec, bad, preflight>>
history == <<starts, faults, blind, gapped>>
vars == <<dump, disk, pc, target, stop, call, att, terminated, history>>

-----------------------------------------------------------------------------
\* scan_valid_blocks: the blocks before the first that is cut off.
FirstTorn == SelectInSeq(lane, LAMBDA b : b = Torn)
Blocks == IF FirstTorn = 0 THEN lane ELSE SubSeq(lane, 1, FirstTorn - 1)
IdsOf(blocks) == {b.game : b \in ToSet(blocks)}
FensOf(blocks) == UNION {ToSet(b.fens) : b \in ToSet(blocks)}
Count(blocks) ==
  IF blocks = <<>> THEN 0 ELSE Last(blocks).start + Len(Last(blocks).fens)

\* The cut at the target in commit_game.
Truncated(records, count) ==
  LET room == IF count < target THEN target - count ELSE 0
  IN  IF Len(records) > room THEN SubSeq(records, 1, room) ELSE records

NewAttempt == [got |-> 0, fed |-> 0, lost |-> FALSE, games_since_resume |-> FALSE,
               noprogress_resumes |-> 0, eof_reason |-> None, failure |-> None]
NewCall == [resume_skip_through |-> 0, max_appended_game_id |-> 0, fen_set |-> {},
            committed |-> 0, boundary |-> None, commit_abort |-> FALSE]

Down == {"down", "failed", "returned"}
Running == pc \notin Down
target_reached == call.committed >= target

Init ==
  /\ codec \in Codecs /\ bad \in BadLines /\ preflight \in Preflights
  /\ lane = <<>> /\ manifest = [target |-> None, offset |-> None]
  /\ pc = "down" /\ target \in Targets /\ stop = FALSE
  /\ call = NewCall /\ att = NewAttempt /\ terminated = None
  /\ starts = 0 /\ faults = 0 /\ blind = FALSE /\ gapped = FALSE

-----------------------------------------------------------------------------
\* cmd_fetch, up to the call of stream_to_ingest.  The operator repeats a run
\* that did not end well before extending it, and never shrinks the target.
Start(t) ==
  /\ pc \in Down /\ starts < MaxStarts /\ starts' = starts + 1
  /\ t = target \/ (pc = "returned" /\ t > target)
  /\ target' = t /\ terminated' = None
  /\ pc' = IF t # Unbounded /\ manifest.target # None /\ t > manifest.target
           THEN "extending" ELSE "resuming"
  /\ UNCHANGED <<dump, disk, stop, call, att, faults, blind, gapped>>

\* An extend drops the game that was cut off at the old target.
DropBoundary ==
  /\ pc = "extending" /\ pc' = "resuming"
  /\ lane' = IF manifest.offset = None THEN lane
             ELSE SubSeq(lane, 1, manifest.offset)
  /\ UNCHANGED <<dump, manifest, target, stop, call, att, terminated, history>>

\* The last block was cut off to fit an earlier target.
EndsCut ==
  Blocks # <<>> /\
    LET b == Last(Blocks)
    IN  b.fens # Survivors(recs(b.game), b.game, FensOf(Front(Blocks)))

\* The games below the highest in the lane are not looked at again.
\* Mutant: nor is the one after them.
SkipsOneMore(blocks) == IF blocks = <<>> THEN 0 ELSE Max(IdsOf(blocks)) + 1
resume_skip_through(blocks) == IF blocks = <<>> THEN 0 ELSE Max(IdsOf(blocks))

\* LaneCommitter::resume and the early-out.  A torn tail stays where it is.
Resume ==
  /\ pc = "resuming"
  /\ call' = [NewCall EXCEPT
                !.resume_skip_through = resume_skip_through(Blocks),
                !.fen_set = FensOf(Blocks), !.committed = Count(Blocks)]
  /\ IF Count(Blocks) >= target
     THEN pc' = "leaving" /\ terminated' = "EarlyTarget" /\ UNCHANGED blind
     ELSE pc' = "attempting" /\ blind' = (blind \/ EndsCut) /\ UNCHANGED terminated
  /\ UNCHANGED <<dump, disk, target, stop, att, starts, faults, gapped>>

-----------------------------------------------------------------------------
\* The outer loop of stream_to_ingest.  There is no limit to the attempts.
\* What the process knows goes with it, and what an attempt knows with that.
Goes(from, to) ==
  /\ pc = from /\ pc' = to
  /\ IF to \in Down THEN call' = NewCall /\ stop' = FALSE
     ELSE UNCHANGED <<call, stop>>
  /\ IF to \in Down \cup {"leaving", "backoff"} THEN att' = NewAttempt
     ELSE UNCHANGED att
  /\ UNCHANGED <<dump, lane, target, history>>

AttemptStopped ==
  /\ stop /\ Goes("attempting", "leaving") /\ terminated' = "Stopped"
  /\ UNCHANGED manifest

\* The opener at offset 0.
Open ==
  /\ ~stop /\ Goes("attempting", IF codec = "zip" THEN "downloading" ELSE "preflight")
  /\ UNCHANGED <<manifest, terminated>>

OpenFails ==
  /\ ~stop /\ \E to \in {"backoff", "failed"} : Goes("attempting", to)
  /\ UNCHANGED <<manifest, terminated>>

\* sleep_interruptible.
WakeUp == Goes("backoff", "attempting") /\ UNCHANGED <<manifest, terminated>>

-----------------------------------------------------------------------------
\* A decoder that has seen the end of the dump does not read on.
PastEof == att.eof_reason # None

\* ResumableHttpReader, for the decoder of a .zst dump or for a download.
Reads ==
  /\ ~att.lost /\ ~PastEof
  /\ \/ pc = "downloading"
     \/ codec = "zst" /\ pc = "preflight"
     \/ codec = "zst" /\ pc = "parsing" /\ att.fed = att.got

NetworkGoes(to, a) ==
  /\ pc' = to /\ att' = a
  /\ UNCHANGED <<dump, manifest, target, stop, terminated, starts, faults, blind>>
LaneKept == UNCHANGED <<lane, call, gapped>>

Halted == call.commit_abort \/ stop

\* Mutant: a resumed connection always counts as progress.
AlwaysProgress(a) == 0
NoProgress(a) == IF a.games_since_resume THEN 0 ELSE a.noprogress_resumes + 1

\* The connection fails, or the watchdog finds it stalled ...
Lose ==
  /\ Reads /\ ~Halted /\ ~target_reached /\ LaneKept
  /\ NetworkGoes(pc, [att EXCEPT !.lost = TRUE])

\* ... and do_reconnect resumes it, or gives up.
ReconnectErrors ==
  {"Transient", "Permanent"} \cup (IF att.got > 0 THEN {"RangeIgnored"} ELSE {})
Reconnect ==
  /\ att.lost /\ LaneKept
  /\ LET n == NoProgress(att)
         tried == [att EXCEPT !.lost = FALSE, !.noprogress_resumes = n,
                              !.games_since_resume = FALSE]
     IN  IF n > max_noprogress_resumes
         THEN NetworkGoes("classifying", [tried EXCEPT !.failure = "Stall"])
         ELSE \/ NetworkGoes(pc, tried)
              \/ \E e \in ReconnectErrors :
                   NetworkGoes("classifying", [tried EXCEPT !.failure = e])

\* A read that returns bytes.  In a download bytes are progress.
Receive ==
  /\ Reads /\ ~Halted /\ ~target_reached /\ LaneKept
  /\ \E n \in 1 .. Buffer :
       /\ att.got + n <= NRaw
       /\ NetworkGoes(
            IF pc = "preflight" /\ att.got + n >= preflight THEN "parsing" ELSE pc,
            [att EXCEPT !.got = @ + n,
                        !.games_since_resume = @ \/ pc = "downloading"])

-----------------------------------------------------------------------------
\* ingest_game and commit_game for a raw game of which these are the records.
AppendBlock(id, kept, survivors) ==
  /\ lane' = Append(lane, [game |-> id, start |-> call.committed, fens |-> kept])
  /\ call' = [call EXCEPT
                !.fen_set = @ \cup ToSet(kept), !.committed = @ + Len(kept),
                !.boundary = IF kept # survivors /\ @ = None THEN Len(lane) ELSE @,
                !.max_appended_game_id = id]
  /\ gapped' = (gapped \/ call.commit_abort) /\ UNCHANGED faults

\* The positions enter the dedup set although the append fails.
AppendFails(kept) ==
  /\ faults < MaxAppendFaults /\ faults' = faults + 1
  /\ lane' \in {lane, Append(lane, Torn)}
  /\ call' = [call EXCEPT !.fen_set = @ \cup ToSet(kept), !.commit_abort = TRUE]
  /\ UNCHANGED gapped

\* Mutant: a game that was appended before the restart is looked at again.
NotBelow(id) == id <= call.resume_skip_through
Seen(id) == id <= call.resume_skip_through \/ id <= call.max_appended_game_id

Kept(raw, records) ==
  LET id == GameId(raw)
  IN  IF raw \notin Parsable \/ Seen(id) \/ target_reached THEN <<>>
      ELSE Truncated(Survivors(records, id, call.fen_set), call.committed)

Ingest(raw, records) ==
  LET kept == Kept(raw, records)
      id == GameId(raw)
  IN  IF kept = <<>> THEN LaneKept /\ UNCHANGED faults
      ELSE \/ AppendBlock(id, kept, Survivors(records, id, call.fen_set))
           \/ AppendFails(kept)

\* note_progress is called for every game that is emitted.
Noted(a, raw) == [a EXCEPT !.games_since_resume = @ \/ raw \in Parsable]

ParserGoes(to, a) ==
  /\ pc = "parsing" /\ pc' = to /\ att' = a
  /\ UNCHANGED <<dump, manifest, target, stop, terminated, starts, blind>>

\* stream_pgn: a game is processed when the next one begins.  A line that is
\* not UTF-8 ends the parse.
ParseGame ==
  /\ pc = "parsing" /\ att.fed < att.got
  /\ ParserGoes(IF att.fed + 1 = bad THEN "classifying" ELSE "parsing",
                [Noted(att, att.fed) EXCEPT !.fed = @ + 1])
  /\ IF att.fed = 0 THEN LaneKept /\ UNCHANGED faults
     ELSE Ingest(att.fed, recs(GameId(att.fed)))

\* ... or the dump ends.  records may be part of the last game.
LastGame(records, eof) ==
  /\ ParserGoes("classifying", [Noted(att, att.fed) EXCEPT !.eof_reason = eof])
  /\ Ingest(att.fed, records)

-----------------------------------------------------------------------------
\* The reader returns no bytes: the dump has ended, or the parse is to stop.
\* Once the target is reached a last read tells which.
EofReasons ==
  IF Halted \/ PastEof THEN {att.eof_reason}
  ELSE IF ~target_reached THEN {"InnerEof"}
  ELSE {"Target"} \cup (IF att.got = NRaw THEN {"InnerEof"} ELSE {})
StreamEnds == Halted \/ target_reached \/ att.got = NRaw

\* Of a download.  What was cut short is not an archive.
DownloadEnds ==
  /\ pc = "downloading" /\ Reads /\ StreamEnds /\ LaneKept
  /\ IF att.got = NRaw
     THEN NetworkGoes("preflight", [att EXCEPT !.got = 0, !.eof_reason = None])
     ELSE NetworkGoes("backoff", NewAttempt)

\* Of a .zst dump.  The decoder rejects one that is cut short.
DecoderEnds ==
  /\ codec = "zst"
  /\ \/ Reads /\ StreamEnds
     \/ PastEof /\ pc = "parsing" /\ att.fed = att.got
  /\ \E eof \in EofReasons :
       \/ /\ att.got = NRaw /\ pc = "preflight" /\ LaneKept
          /\ NetworkGoes("parsing", [att EXCEPT !.eof_reason = eof])
       \/ /\ att.got = NRaw /\ LastGame(recs(GameId(att.fed)), eof)
       \/ /\ att.got < NRaw /\ LaneKept
          /\ NetworkGoes("classifying", [att EXCEPT !.eof_reason = eof])

\* TargetGuard, which reads a downloaded dump: it does not look at stop, and a
\* game that it cuts off looks like the last.
LocalReads ==
  codec = "zip" /\ (pc = "preflight" \/ (pc = "parsing" /\ att.fed = att.got))
GuardHalts == call.commit_abort \/ target_reached
LocalRead ==
  /\ LocalReads /\ ~GuardHalts /\ LaneKept
  /\ \E n \in 1 .. Buffer :
       /\ att.got + n <= NRaw /\ att' = [att EXCEPT !.got = @ + n]
       /\ pc' = IF pc = "preflight" /\ att.got + n >= preflight THEN "parsing" ELSE pc
  /\ UNCHANGED <<dump, manifest, target, stop, terminated, starts, faults, blind>>
LocalEnds ==
  /\ LocalReads /\ (GuardHalts \/ att.got = NRaw)
  /\ \/ /\ pc = "preflight" /\ pc' = "parsing" /\ LaneKept
        /\ UNCHANGED <<dump, manifest, target, stop, att, terminated, starts,
                       faults, blind>>
     \/ LET records == recs(GameId(att.fed))
        IN  \E n \in IF att.got = NRaw THEN {Len(records)} ELSE 0 .. Len(records) :
              LastGame(SubSeq(records, 1, n), att.eof_reason)

\* Gates 5 and 6: what was received is not a PGN, nor an archive of one.
NotPgn ==
  /\ ~att.lost /\ Goes("preflight", "backoff")
  /\ UNCHANGED <<manifest, terminated>>

-----------------------------------------------------------------------------
\* classify_attempt.  Mutants: only the reader may say that the dump has ended,
\* as it cannot of one that is parsed from the disk; a stall is such an end.
OnlyByReader(a) == a.eof_reason = "InnerEof"
OrStalled(a) ==
  a.eof_reason = "InnerEof" \/ (~target_reached /\ a.failure # "Permanent")
Drained(a) == a.eof_reason = "InnerEof" \/ (~target_reached /\ a.failure = None)
Ends(how) == Goes("classifying", "leaving") /\ terminated' = how
Fails(to) == Goes("classifying", to) /\ UNCHANGED terminated
Classify ==
  /\ UNCHANGED manifest
  /\ IF call.commit_abort THEN Fails("failed")
     ELSE IF stop THEN Ends("Stopped")
     ELSE IF Drained(att) THEN Ends("Eos")
     ELSE IF target_reached THEN Ends("EarlyTarget")
     ELSE Fails(IF att.failure = "Permanent" THEN "failed" ELSE "backoff")

\* The manifest is written last.
Return ==
  /\ Goes("leaving", "returned")
  /\ manifest' = [target |-> IF target = Unbounded THEN None ELSE target,
                  offset |-> call.boundary]
  /\ UNCHANGED terminated

-----------------------------------------------------------------------------
\* SIGINT or SIGTERM.
Interrupt ==
  /\ Running /\ ~stop /\ stop' = TRUE
  /\ UNCHANGED <<dump, disk, pc, target, call, att, terminated, history>>

\* The process is killed, possibly in the middle of an append.
Appends ==
  /\ pc = "parsing" /\ att.fed > 0 /\ (att.fed < att.got \/ att.got = NRaw)
  /\ Kept(att.fed, recs(GameId(att.fed))) # <<>>
Kill ==
  /\ Running /\ pc' = "down" /\ stop' = FALSE /\ terminated' = None
  /\ call' = NewCall /\ att' = NewAttempt
  /\ UNCHANGED lane \/ (Appends /\ lane' = Append(lane, Torn))
  /\ UNCHANGED <<dump, manifest, target, history>>

NetworkFault == OpenFails \/ Lose \/ NotPgn
Parse == ParseGame \/ DecoderEnds \/ LocalRead \/ LocalEnds
Attempt ==
  \/ AttemptStopped \/ Open \/ WakeUp
  \/ Receive \/ Reconnect \/ DownloadEnds \/ Classify
Process == DropBoundary \/ Resume \/ Attempt \/ Parse \/ NetworkFault \/ Return

Idle == ~Running /\ UNCHANGED vars

Next ==
  \/ Process \/ Interrupt \/ Kill \/ Idle
  \/ \E t \in Targets : Start(t)

\* One thread, which every wait of the network gives back within stall_timeout.
Spec == Init /\ [][Next]_vars
FairSpec == Spec /\ WF_vars(Process)

-----------------------------------------------------------------------------
TypeOK ==
  /\ codec \in Codecs /\ bad \in BadLines /\ preflight \in Preflights
  /\ lane \in Seq(BlockType \cup {Torn})
  /\ manifest \in [target : Nat \cup {None}, offset : Nat \cup {None}]
  /\ pc \in Down \cup {"extending", "resuming", "attempting", "backoff",
                       "downloading", "preflight", "parsing", "classifying",
                       "leaving"}
  /\ target \in Targets /\ stop \in BOOLEAN
  /\ call \in [resume_skip_through : Ids \cup {0},
               max_appended_game_id : Ids \cup {0}, fen_set : SUBSET Fens,
               committed : Nat, boundary : Nat \cup {None}, commit_abort : BOOLEAN]
  /\ att \in [got : 0 .. NRaw, fed : 0 .. NRaw, lost : BOOLEAN,
              games_since_resume : BOOLEAN,
              noprogress_resumes : 0 .. max_noprogress_resumes + 1,
              eof_reason : {None, "InnerEof", "Target"},
              failure : {None, "Stall", "Transient", "Permanent", "RangeIgnored"}]
  /\ terminated \in {None, "Eos", "EarlyTarget", "Stopped"}
  /\ starts \in 0 .. MaxStarts /\ faults \in 0 .. MaxAppendFaults
  /\ blind \in BOOLEAN /\ gapped \in BOOLEAN

(***************************************************************************)
(* lane.bin is what one undisturbed fetch would have written (fetch/mod.rs:*)
(* "bit-identical extend", "restarts are true no-ops"): each block is what *)
(* its whole game adds to the blocks before it, and a game that is passed  *)
(* over adds nothing.  So it is however often the connection is resumed,   *)
(* the dump read again from byte 0, the process killed, repeated and       *)
(* extended, and whichever part of the dump a run saw.  Exempt are lanes   *)
(* that went on behind a cut-off game or behind a failed append.           *)
(***************************************************************************)
Adds(id, blocks) ==
  Truncated(Survivors(recs(id), id, FensOf(blocks)), Count(blocks))
Before(id) ==
  SubSeq(Blocks, 1, Cardinality({i \in DOMAIN Blocks : Blocks[i].game < id}))
FetchedLaneIsCanonical ==
  (pc \notin {"down", "extending", "resuming"} /\ ~blind /\ ~gapped) =>
    /\ \A i \in DOMAIN Blocks :
         LET before == SubSeq(Blocks, 1, i - 1)
         IN  /\ \A j \in 1 .. i - 1 : Blocks[j].game < Blocks[i].game
             /\ Blocks[i].start = Count(before)
             /\ Blocks[i].fens = Adds(Blocks[i].game, before)
    /\ \A id \in Ids \ IdsOf(Blocks) :
         (\E h \in IdsOf(Blocks) : id < h) => Adds(id, Before(id)) = <<>>

(***************************************************************************)
(* A fetch says truly how it ended: Eos only when the dump has nothing to  *)
(* add to the lane (Termination::Eos: "Stream drained to EOF") or the      *)
(* target is met, however often it lost the connection on the way, and     *)
(* EarlyTarget only at the target.  Exempt are lanes with a torn tail and  *)
(* dumps with a line that is not UTF-8.                                    *)
(***************************************************************************)
DrainedMeansDrained ==
  (pc = "returned" /\ Blocks = lane /\ ~blind /\ ~gapped) =>
    /\ terminated = "EarlyTarget" => Count(lane) >= target
    /\ terminated = "Eos" /\ bad = None =>
         \/ Count(lane) >= target
         \/ \A id \in Ids \ IdsOf(lane) : Adds(id, Before(id)) = <<>>

Attempting == pc \in {"downloading", "preflight", "parsing", "classifying"}

(***************************************************************************)
(* Whatever the network does, an attempt comes to an end: a connection     *)
(* that is alive but yields no games is given up after                     *)
(* max_noprogress_resumes (reader.rs: "the anti-livelock bound").  And the *)
(* fetch, which tries again for ever, comes to its end once the network    *)
(* behaves; once the operator stops it, also if the network never does.    *)
(***************************************************************************)
FetchEnds ==
  /\ Attempting ~> ~Attempting
  /\ <>[][NetworkFault => stop]_vars => (Running ~> ~Running)

(***************************************************************************)
(* ADR-0035: "Torn final block is discarded WHOLESALE ... the shard is     *)
(* truncated to the last fully-valid byte on resume": nothing is ever      *)
(* written behind one.                                                     *)
(***************************************************************************)
NothingBuried == \A i \in 1 .. Len(lane) - 1 : lane[i] # Torn
=============================================================================
