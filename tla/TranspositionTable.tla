------------------------- MODULE TranspositionTable -------------------------
(***************************************************************************)
(* The transposition table (tt.rs, ADR-0018): a direct-mapped array of     *)
(* 16-byte entries with depth-preferred, age-biased replacement, driven by *)
(* the searches of a session.  It has a single mutator (UciEngine), so     *)
(* every method is one step.                                               *)
(*                                                                         *)
(* A score is counted from the root of the search that found it: a mate    *)
(* found at ply p that is d plies away scores Mate - (p + d).  The same    *)
(* position is met at other plies and in other searches, which is why the  *)
(* table stores mates counted from the position.                           *)
(***************************************************************************)
EXTENDS Integers, FiniteSets

CONSTANTS
  Keys,         \* Zobrist keys; 0 is the mark of an empty slot
  EntryCounts,  \* table lengths that Hash may give: powers of two
  Generations,  \* the generation counter counts modulo this (64)
  Depths,
  BestMoves,    \* the encodings of each position's moves, which are not zero
  Mate, MaxPly, \* MATE and MAX_PLY
  Truth,        \* what each position is worth, see Values
  None,
  MaxSearches,  \* bound: searches between two clears
  MaxStored     \* bound: different results stored between two clears

Bounds == 0 .. 2     \* TtBound: Exact, Lower, Upper
NoMove == 0
MateInMaxPly == Mate - MaxPly
Plies == 0 .. MaxPly - 1

\* A position is worth some centipawns, or a mate in a number of plies, for
\* (1) or against (-1) the side to move.
Values == [mate : {0}, cp : -MateInMaxPly .. MateInMaxPly]
            \cup [mate : {1, -1}, in : Plies]

ASSUME TableAssumption ==
  /\ Keys \subseteq Nat /\ EntryCounts \subseteq Nat \ {0}
  /\ Generations \in Nat \ {0} /\ Depths \subseteq Nat
  /\ BestMoves \in [Keys -> SUBSET (Nat \ {NoMove})]
  /\ Mate \in Nat /\ MaxPly \in Nat \ {0} /\ 2 * MaxPly < Mate
  /\ Truth \in [Keys -> Values]
  /\ MaxSearches \in Nat /\ MaxStored \in Nat
  /\ None \notin [score : Int, depth : Nat, bound : Nat, best_move : Nat]

VARIABLES
  count,       \* entries.len(): mask + 1
  entries,
  generation,
  \* history variables, read by properties only
  searches,    \* number of searches so far
  born,        \* the search that wrote each slot
  stored       \* the data stored for each key since the last clear or resize

vars == <<count, entries, generation, searches, born, stored>>

-----------------------------------------------------------------------------
\* Mate-score adjustments: score_to_tt and score_from_tt.

\* Mutant: adjusted the wrong way.
score_counted_twice(score, ply) ==
  IF score > MateInMaxPly THEN score + ply
  ELSE IF score < -MateInMaxPly THEN score - ply ELSE score

score_to_tt(score, ply) ==
  IF score > MateInMaxPly THEN score + ply
  ELSE IF score < -MateInMaxPly THEN score - ply ELSE score

score_from_tt(score, ply) ==
  IF score > MateInMaxPly THEN score - ply
  ELSE IF score < -MateInMaxPly THEN score + ply ELSE score

\* The score of a position met at ply, counted from the root.
RootScore(v, ply) ==
  IF v.mate = 0 THEN v.cp ELSE v.mate * (Mate - (ply + v.in))

-----------------------------------------------------------------------------
\* TtEntry.  Age and bound share a byte.
pack_age_bound(age, bound) == (age % Generations) * 4 + bound
Age(e) == e.age_and_bound \div 4
Bound(e) == e.age_and_bound % 4

EmptyEntry ==
  [key |-> 0, score |-> 0, depth |-> 0, age_and_bound |-> 0, best_move |-> NoMove]
IsEmpty(e) == e.key = 0
EmptyTable(n) == [i \in 0 .. n - 1 |-> EmptyEntry]

index_for(key) == key % count
SlotOf(key) == entries[index_for(key)]

\* probe: the entry without its key and age.
Probe(key) ==
  LET e == SlotOf(key)
  IN  IF IsEmpty(e) \/ e.key # key THEN None
      ELSE [score |-> e.score, depth |-> e.depth, bound |-> Bound(e),
            best_move |-> e.best_move]

\* TtData, as a search makes it for the value it found at ply.
Data(key, ply, depth, bound, best_move) ==
  [score |-> score_to_tt(RootScore(Truth[key], ply), ply), depth |-> depth,
   bound |-> bound, best_move |-> best_move]

Init ==
  /\ count \in EntryCounts /\ entries = EmptyTable(count) /\ generation = 0
  /\ searches = 0 /\ born = [i \in 0 .. count - 1 |-> 0]
  /\ stored = [key \in Keys |-> {}]

\* new_search, once per go.
NextGeneration == (generation + 1) % Generations

NewSearch ==
  /\ searches < MaxSearches
  /\ generation' = NextGeneration /\ searches' = searches + 1
  /\ UNCHANGED <<count, entries, born, stored>>

Replaces(old, data) ==
  IsEmpty(old) \/ Age(old) # generation \/ old.depth <= data.depth

\* Mutant: the move of whatever position held the slot is kept.
MoveOfTheSlot(old, key, data) ==
  IF data.best_move = NoMove THEN old.best_move ELSE data.best_move
PreservedMove(old, key, data) ==
  IF data.best_move = NoMove /\ old.key = key /\ old.best_move # NoMove
  THEN old.best_move ELSE data.best_move

NewEntry(old, key, data) ==
  [key |-> key, score |-> data.score, depth |-> data.depth,
   age_and_bound |-> pack_age_bound(generation, data.bound),
   best_move |-> PreservedMove(old, key, data)]

\* store.  The caller never passes key 0 in a debug build; a release build
\* would leave an entry that reads as empty.
Store(key, data) ==
  /\ IF Replaces(SlotOf(key), data)
     THEN /\ entries' = [entries EXCEPT ![index_for(key)] =
                           NewEntry(SlotOf(key), key, data)]
          /\ born' = [born EXCEPT ![index_for(key)] = searches]
     ELSE UNCHANGED <<entries, born>>
  /\ stored' = [stored EXCEPT ![key] = @ \cup {data}]
  /\ UNCHANGED <<count, generation, searches>>

Clear ==
  /\ entries' = EmptyTable(count) /\ generation' = 0
  /\ searches' = 0 /\ born' = [i \in 0 .. count - 1 |-> 0]
  /\ stored' = [key \in Keys |-> {}]
  /\ UNCHANGED count

\* Mutant: the entries that fit are kept.
Shrunk(n) == [i \in 0 .. n - 1 |-> IF i < count THEN entries[i] ELSE EmptyEntry]
Rebuilt(n) == EmptyTable(n)

Resize(n) ==
  /\ count' = n /\ entries' = Rebuilt(n) /\ generation' = 0
  /\ searches' = 0 /\ born' = [i \in 0 .. n - 1 |-> 0]
  /\ stored' = [key \in Keys |-> {}]

\* What the searches of a session may store for each key.
Given ==
  [key \in Keys |->
     {Data(key, ply, depth, bound, best_move) :
        ply \in Plies, depth \in Depths, bound \in Bounds,
        best_move \in BestMoves[key] \cup {NoMove}}]

WithinBound == Cardinality(UNION {{key} \X stored'[key] : key \in Keys}) <= MaxStored

Next ==
  \/ NewSearch
  \/ \E key \in Keys : \E data \in Given[key] : Store(key, data) /\ WithinBound
  \/ Clear
  \/ \E n \in EntryCounts : Resize(n)

Spec == Init /\ [][Next]_vars

-----------------------------------------------------------------------------
Moves == {NoMove} \cup UNION {BestMoves[key] : key \in Keys}
AllData == [score : Int, depth : Depths, bound : Bounds, best_move : Moves]
Entries ==
  [key : Keys \cup {0}, score : Int, depth : Nat, age_and_bound : Nat,
   best_move : Moves]

\* An entry lies where a probe for its key would look.
TypeOK ==
  /\ count \in EntryCounts /\ generation \in 0 .. Generations - 1
  /\ entries \in [0 .. count - 1 -> Entries]
  /\ \A i \in 0 .. count - 1 :
       ~IsEmpty(entries[i]) => index_for(entries[i].key) = i
  /\ searches \in 0 .. MaxSearches /\ born \in [0 .. count - 1 -> 0 .. MaxSearches]
  /\ stored \in [Keys -> SUBSET AllData]

(***************************************************************************)
(* Whatever the ply and the search that stored it, a probe at any ply      *)
(* gives the true score of the position counted from the present root,     *)
(* unless a mate was found more than MaxPly from its root: score_to_tt     *)
(* takes that for a plain score, and a probe never makes it a mate again.  *)
(***************************************************************************)
IsMate(score) == score > MateInMaxPly \/ score < -MateInMaxPly
ProbedScoreIsTrue ==
  \A key \in Keys, ply \in Plies :
    LET probed == Probe(key)
    IN  /\ probed # None
        /\ Truth[key].mate = 0 \/ IsMate(probed.score)
        => score_from_tt(probed.score, ply) = RootScore(Truth[key], ply)

(***************************************************************************)
(* The table is a lossy map (module LossyMap): a store takes effect or is  *)
(* refused, may make the table forget other positions, and keeps the move  *)
(* known of its own position when it brings none (ADR-0018, 7); clear and  *)
(* resize forget everything.                                               *)
(***************************************************************************)
Map == INSTANCE LossyMap WITH
  known <- [key \in Keys |-> Probe(key)], Results <- Given
ImplementsLossyMap == Map!Spec

(***************************************************************************)
(* What a probe gives for a position was stored for that position since    *)
(* the last clear or resize, and so was the move it gives: neither a key   *)
(* in the same slot nor an earlier game lends it anything.                 *)
(***************************************************************************)
NothingMadeUp == Map!NothingMadeUp

(***************************************************************************)
(* Replacement prefers depth (ADR-0018, 1): within one search a slot never *)
(* trades a deeper entry for a shallower one.                              *)
(***************************************************************************)
NeverShallower ==
  [][\A i \in DOMAIN entries :
       (i \in DOMAIN entries' /\ ~IsEmpty(entries[i]) /\ ~IsEmpty(entries'[i])
          /\ born[i] = searches /\ searches' = searches)
       => entries'[i].depth >= entries[i].depth]_vars

(***************************************************************************)
(* Replacement is biased by age: whatever its depth, an entry of an        *)
(* earlier search gives way to any store of this one, until the            *)
(* generation counter has come round to the entry's age (ADR-0018, 9).     *)
(***************************************************************************)
StaleGivesWay ==
  \A i \in DOMAIN entries, depth \in Depths :
    (born[i] < searches /\ searches < born[i] + Generations) =>
      Replaces(entries[i], [depth |-> depth])
=============================================================================
