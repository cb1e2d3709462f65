----------------------------- MODULE LaneCommit -----------------------------
(***************************************************************************)
(* What LaneCommitter::commit_game keeps of one game (corpus/pipeline.rs): *)
(* positions new to the lane, at most PerGameCap of them drawn by a seeded *)
(* reservoir.  (The cut at the target is in SelfPlay.)  A position is its  *)
(* FEN: the other fields of a record follow from the game and the ply.     *)
(***************************************************************************)
EXTENDS Naturals, SequencesExt, FiniteSetsExt

CONSTANTS
  Fens,
  Records,     \* Records[game]: the positions a game emits, in ply order
  Draws,       \* Draws[game][k]: what the game's generator draws below k
  PerGameCap

\* First seen wins, within the lane and within the game.
Fresh(records, seen) ==
  LET Keep(i) == records[i] \notin seen /\ \A j \in 1 .. i - 1 : records[j] # records[i]
  IN  FlattenSeq([i \in DOMAIN records |->
                    IF Keep(i) THEN <<records[i]>> ELSE <<>>])

\* Algorithm R: slot s holds the last record whose draw fell on it.
cap_dedup_survivors(records, game) ==
  LET n == Len(records)
      Hits(s) == {k \in PerGameCap + 1 .. n : Draws[game][k] = s}
  IN  IF n <= PerGameCap THEN records
      ELSE [s \in 1 .. PerGameCap |->
              records[IF Hits(s) = {} THEN s ELSE Max(Hits(s))]]

DedupAndCapOf(records, game, seen) ==
  cap_dedup_survivors(Fresh(records, seen), game)
DedupAndCap(game, seen) == DedupAndCapOf(Records[game], game, seen)
=============================================================================
