---------------------- MODULE TranspositionTable_proofs ----------------------
(***************************************************************************)
(* The invariants of the transposition table and its refinement of a lossy *)
(* map, for every table size, generation counter and set of positions.     *)
(***************************************************************************)
EXTENDS TranspositionTable, TLAPS

\* An entry holds the score of its position, stored at some ply.
TrueScore(e) ==
  e.key \in Keys /\ \E p \in Plies :
    e.score = score_to_tt(RootScore(Truth[e.key], p), p)

\* How long ago an entry was written can be read off its age, for as many
\* searches as the generation counter can count.
AgeOf(d, g) == IF d <= g THEN g - d ELSE g - d + Generations
Dated(i) ==
  /\ born[i] <= searches
  /\ searches - born[i] < Generations =>
       Age(entries[i]) = AgeOf(searches - born[i], generation)

Slots == 0 .. count - 1
IInv ==
  /\ TypeOK
  /\ \A i \in Slots : ~IsEmpty(entries[i]) => TrueScore(entries[i]) /\ Dated(i)

-----------------------------------------------------------------------------
(***************************************************************************)
(* The mate-score round trip: a score stored at one ply and read at        *)
(* another is counted from the reader's root.                              *)
(***************************************************************************)
THEOREM RoundTrip ==
  ASSUME NEW v \in Values, NEW p \in Plies, NEW q \in Plies
  PROVE  LET s == score_to_tt(RootScore(v, p), p)
         IN  v.mate = 0 \/ IsMate(s) => score_from_tt(s, q) = RootScore(v, q)
<1> USE TableAssumption DEF Plies, MateInMaxPly
<1>1. CASE v.mate = 0 /\ v.cp \in -MateInMaxPly .. MateInMaxPly
  BY <1>1 DEF score_to_tt, score_from_tt, RootScore, IsMate
<1>2. CASE v.mate = 1 /\ v.in \in Plies
  <2>1. RootScore(v, p) = Mate - (p + v.in) /\ RootScore(v, q) = Mate - (q + v.in)
    BY <1>2 DEF RootScore
  <2> QED BY <1>2, <2>1 DEF score_to_tt, score_from_tt, IsMate
<1>3. CASE v.mate = -1 /\ v.in \in Plies
  <2>1. RootScore(v, p) = -(Mate - (p + v.in)) /\ RootScore(v, q) = -(Mate - (q + v.in))
    BY <1>3 DEF RootScore
  <2> QED BY <1>3, <2>1 DEF score_to_tt, score_from_tt, IsMate
<1> QED BY <1>1, <1>2, <1>3 DEF Values

LEMMA ScoreType ==
  ASSUME NEW v \in Values, NEW p \in Plies
  PROVE  score_to_tt(RootScore(v, p), p) \in Int
<1> USE TableAssumption DEF Plies, MateInMaxPly
<1>1. RootScore(v, p) \in Int
  <2>1. CASE v.mate = 0 /\ v.cp \in -MateInMaxPly .. MateInMaxPly
    BY <2>1 DEF RootScore
  <2>2. CASE v.mate = 1 /\ v.in \in Plies
    BY <2>2 DEF RootScore
  <2>3. CASE v.mate = -1 /\ v.in \in Plies
    BY <2>3 DEF RootScore
  <2> QED BY <2>1, <2>2, <2>3 DEF Values
<1> QED BY <1>1 DEF score_to_tt

(***************************************************************************)
(* A key has one slot, within the table.                                   *)
(***************************************************************************)
LEMMA SlotType ==
  ASSUME NEW key \in Nat, count \in Nat \ {0}
  PROVE  index_for(key) \in Slots
BY DEF index_for, Slots

(***************************************************************************)
(* Age and bound are packed without loss.                                  *)
(***************************************************************************)
LEMMA Packing ==
  ASSUME NEW g \in 0 .. Generations - 1, NEW b \in Bounds
  PROVE  /\ pack_age_bound(g, b) \in Nat
         /\ pack_age_bound(g, b) \div 4 = g /\ pack_age_bound(g, b) % 4 = b
<1>1. g % Generations = g
  BY TableAssumption
<1>2. g \in Nat /\ b \in 0 .. 2
  BY TableAssumption DEF Bounds
<1> QED BY <1>1, <1>2 DEF pack_age_bound

(***************************************************************************)
(* The generation counter moves by one or comes round to zero.             *)
(***************************************************************************)
LEMMA NextGenerationType ==
  ASSUME generation \in 0 .. Generations - 1
  PROVE  NextGeneration = IF generation + 1 = Generations THEN 0 ELSE generation + 1
BY TableAssumption DEF NextGeneration

(***************************************************************************)
(* What a search hands to store.                                           *)
(***************************************************************************)
LEMMA DataType ==
  ASSUME NEW key \in Keys, NEW data \in Given[key]
  PROVE  /\ data \in AllData
         /\ \E p \in Plies : data.score = score_to_tt(RootScore(Truth[key], p), p)
<1>1. PICK ply \in Plies, depth \in Depths, bound \in Bounds,
           best_move \in BestMoves[key] \cup {NoMove} :
        data = Data(key, ply, depth, bound, best_move)
  BY DEF Given
<1>2. Truth[key] \in Values
  BY TableAssumption
<1>3. score_to_tt(RootScore(Truth[key], ply), ply) \in Int
  BY <1>2, ScoreType
<1>4. best_move \in Moves
  BY DEF Moves
<1> QED BY <1>1, <1>3, <1>4 DEF Data, AllData

LEMMA MovesAreNumbers == Moves \subseteq Nat
<1> SUFFICES ASSUME NEW m \in Moves PROVE m \in Nat
  OBVIOUS
<1>1. CASE m = NoMove
  BY <1>1 DEF NoMove
<1>2. ASSUME NEW key \in Keys, m \in BestMoves[key] PROVE m \in Nat
  BY <1>2, TableAssumption
<1> QED BY <1>1, <1>2 DEF Moves

-----------------------------------------------------------------------------
(***************************************************************************)
(* The slot of a key holds an entry of the table.                          *)
(***************************************************************************)
LEMMA SlotOfType ==
  ASSUME TypeOK, NEW key \in Keys
  PROVE  /\ count \in Nat \ {0} /\ key \in Nat /\ index_for(key) \in Slots
         /\ entries[index_for(key)] \in Entries
<1>1. count \in Nat \ {0} /\ key \in Nat
  BY TableAssumption DEF TypeOK
<1>2. index_for(key) \in Slots
  BY <1>1, SlotType
<1> QED BY <1>1, <1>2 DEF TypeOK, Slots

(***************************************************************************)
(* The entry that store makes.                                             *)
(***************************************************************************)
LEMMA NewEntryType ==
  ASSUME TypeOK, NEW key \in Keys, NEW data \in AllData
  PROVE  LET e == NewEntry(SlotOf(key), key, data)
         IN  /\ e \in Entries
             /\ e.key = key /\ e.score = data.score /\ e.depth = data.depth
             /\ e.best_move = PreservedMove(SlotOf(key), key, data)
             /\ Age(e) = generation /\ Bound(e) = data.bound
<1>1. SlotOf(key) \in Entries
  BY SlotOfType DEF SlotOf
<1>2. PreservedMove(SlotOf(key), key, data) \in Moves
  BY <1>1 DEF PreservedMove, Entries, AllData
<1>3. /\ data.bound \in Bounds /\ generation \in 0 .. Generations - 1
      /\ data.score \in Int /\ data.depth \in Nat
  BY TableAssumption DEF AllData, TypeOK
<1>4. /\ pack_age_bound(generation, data.bound) \in Nat
      /\ pack_age_bound(generation, data.bound) \div 4 = generation
      /\ pack_age_bound(generation, data.bound) % 4 = data.bound
  BY <1>3, Packing
<1> QED BY <1>2, <1>3, <1>4 DEF NewEntry, Entries, Age, Bound

(***************************************************************************)
(* store keeps the invariant.                                              *)
(***************************************************************************)
LEMMA StoreKeeps ==
  ASSUME IInv, NEW key \in Keys, NEW data \in AllData, Store(key, data),
         \E p \in Plies : data.score = score_to_tt(RootScore(Truth[key], p), p)
  PROVE  IInv'
<1> DEFINE i == index_for(key)
           e == NewEntry(SlotOf(key), key, data)
<1>1. TypeOK /\ i \in Slots /\ searches \in Nat
  BY SlotOfType DEF IInv, TypeOK
<1>2. /\ e \in Entries /\ e.key = key /\ e.score = data.score
      /\ Age(e) = generation
  BY <1>1, NewEntryType
<1> HIDE DEF e
<1>3. count' = count /\ generation' = generation /\ searches' = searches
  BY DEF Store
<1>6. stored' \in [Keys -> SUBSET AllData]
  BY <1>1 DEF Store, TypeOK
<1>4. CASE Replaces(SlotOf(key), data)
  <2>1. /\ entries' = [entries EXCEPT ![i] = e]
        /\ born' = [born EXCEPT ![i] = searches]
    BY <1>4 DEF Store, e
  <2>2. index_for(key)' = i
    BY <1>3 DEF index_for
  <2> HIDE DEF i
  <2>3. DOMAIN entries = Slots /\ DOMAIN born = Slots
    BY <1>1 DEF TypeOK, Slots
  <2>4. \A j \in Slots : /\ entries'[j] = IF j = i THEN e ELSE entries[j]
                         /\ born'[j] = IF j = i THEN searches ELSE born[j]
    BY <2>1, <2>3
  <2>5. /\ entries' \in [Slots -> Entries]
        /\ born' \in [Slots -> 0 .. MaxSearches]
    BY <1>1, <1>2, <2>1 DEF TypeOK, Slots
  <2>6. \A j \in Slots : ~IsEmpty(entries'[j]) => entries'[j].key % count = j
    <3> TAKE j \in Slots
    <3>1. CASE j = i
      BY <1>2, <2>4, <3>1 DEF i, index_for
    <3>2. CASE j # i
      BY <1>1, <2>4, <3>2 DEF TypeOK, Slots, index_for
    <3> QED BY <3>1, <3>2
  <2>7. TypeOK'
    BY <1>1, <1>3, <1>6, <2>5, <2>6 DEF TypeOK, Slots, index_for
  <2>8. ASSUME NEW j \in Slots, ~IsEmpty(entries'[j])
        PROVE  TrueScore(entries'[j]) /\ Dated(j)'
    <3>1. CASE j = i
      <4>1. TrueScore(e)
        BY <1>2 DEF TrueScore
      <4>2. Dated(j)'
        <5>1. born'[j] = searches /\ Age(entries'[j]) = generation
          BY <1>2, <2>4, <3>1
        <5>2. AgeOf(searches - searches, generation) = generation
          BY <1>1 DEF AgeOf, TypeOK
        <5> QED BY <1>1, <1>3, <5>1, <5>2 DEF Dated
      <4> QED BY <2>4, <3>1, <4>1, <4>2
    <3>2. CASE j # i
      <4>1. entries'[j] = entries[j] /\ born'[j] = born[j]
        BY <2>4, <3>2
      <4>2. TrueScore(entries[j]) /\ Dated(j)
        BY <2>8, <4>1 DEF IInv
      <4> QED BY <1>3, <4>1, <4>2 DEF Dated
    <3> QED BY <3>1, <3>2
  <2> QED BY <1>3, <2>7, <2>8 DEF IInv, Slots
<1>5. CASE ~Replaces(SlotOf(key), data)
  <2>1. entries' = entries /\ born' = born
    BY <1>5 DEF Store
  <2> QED BY <1>3, <1>6, <2>1 DEF IInv, TypeOK, Slots, Dated, index_for
<1> QED BY <1>4, <1>5

(***************************************************************************)
(* new_search keeps it: every entry is one search older.                   *)
(***************************************************************************)
LEMMA NewSearchKeeps ==
  ASSUME IInv, NewSearch
  PROVE  IInv'
<1>1. /\ generation' = NextGeneration /\ searches' = searches + 1
      /\ searches < MaxSearches /\ UNCHANGED <<count, entries, born, stored>>
  BY DEF NewSearch
<1>2. /\ generation \in 0 .. Generations - 1 /\ searches \in 0 .. MaxSearches
      /\ Generations \in Nat /\ MaxSearches \in Nat
  BY TableAssumption DEF IInv, TypeOK
<1>3. generation' = IF generation + 1 = Generations THEN 0 ELSE generation + 1
  BY <1>1, <1>2, NextGenerationType
<1>4. generation' \in 0 .. Generations - 1 /\ searches' \in 0 .. MaxSearches
  BY <1>1, <1>2, <1>3
<1>5. TypeOK'
  BY <1>1, <1>4 DEF IInv, TypeOK, index_for
<1>6. ASSUME NEW i \in Slots, ~IsEmpty(entries[i]) PROVE Dated(i)'
  <2>1. Dated(i) /\ born[i] \in Nat
    BY <1>6 DEF IInv, TypeOK, Slots
  <2>2. \A d \in Nat : d + 1 < Generations =>
          AgeOf(d + 1, generation') = AgeOf(d, generation)
    BY <1>2, <1>3 DEF AgeOf
  <2> DEFINE d == searches - born[i]
  <2>3. d \in Nat /\ searches' - born'[i] = d + 1
    BY <1>1, <1>2, <2>1 DEF Dated
  <2>4. Age(entries'[i]) = Age(entries[i]) /\ born'[i] = born[i]
    BY <1>1
  <2>5. d + 1 < Generations => Age(entries'[i]) = AgeOf(d + 1, generation')
    BY <1>2, <2>1, <2>2, <2>3, <2>4 DEF Dated
  <2>6. born'[i] <= searches'
    BY <1>1, <1>2, <2>1 DEF Dated
  <2> HIDE DEF d
  <2> QED BY <2>3, <2>5, <2>6 DEF Dated
<1>7. \A i \in Slots : ~IsEmpty(entries[i]) => TrueScore(entries[i])
  BY DEF IInv
<1> QED BY <1>1, <1>5, <1>6, <1>7 DEF IInv, Slots

(***************************************************************************)
(* A table made anew, by clear or resize, is empty.                        *)
(***************************************************************************)
LEMMA EmptyTableKeeps ==
  ASSUME count' \in EntryCounts, entries' = EmptyTable(count'), generation' = 0,
         searches' = 0, born' = [i \in 0 .. count' - 1 |-> 0],
         stored' = [key \in Keys |-> {}]
  PROVE  IInv'
<1>1. EmptyEntry \in Entries
  BY DEF EmptyEntry, Entries, Moves
<1>2. \A i \in Slots' : entries'[i] = EmptyEntry /\ IsEmpty(entries'[i])
  BY DEF EmptyTable, Slots, IsEmpty, EmptyEntry
<1>3. 0 \in 0 .. Generations - 1 /\ 0 \in 0 .. MaxSearches
  BY TableAssumption
<1>4. entries' \in [Slots' -> Entries] /\ born' \in [Slots' -> 0 .. MaxSearches]
  <2>1. entries' = [i \in Slots' |-> EmptyEntry] /\ born' = [i \in Slots' |-> 0]
    BY DEF EmptyTable, Slots
  <2> QED BY <1>1, <1>3, <2>1
<1>5. TypeOK'
  BY <1>2, <1>3, <1>4, TableAssumption DEF TypeOK, Slots
<1> QED BY <1>2, <1>5 DEF IInv

LEMMA InitIInv == Init => IInv
<1> SUFFICES ASSUME Init PROVE IInv
  OBVIOUS
<1>1. EmptyEntry \in Entries
  BY DEF EmptyEntry, Entries, Moves
<1>2. \A i \in Slots : entries[i] = EmptyEntry /\ IsEmpty(entries[i])
  BY DEF Init, EmptyTable, Slots, IsEmpty, EmptyEntry
<1>3. 0 \in 0 .. Generations - 1 /\ 0 \in 0 .. MaxSearches
  BY TableAssumption
<1>4. entries \in [Slots -> Entries] /\ born \in [Slots -> 0 .. MaxSearches]
  <2>1. entries = [i \in Slots |-> EmptyEntry] /\ born = [i \in Slots |-> 0]
    BY DEF Init, EmptyTable, Slots
  <2> QED BY <1>1, <1>3, <2>1
<1>5. TypeOK
  BY <1>2, <1>3, <1>4 DEF Init, TypeOK, Slots
<1> QED BY <1>2, <1>5 DEF IInv

(***************************************************************************)
(* The inductive invariant of the table.                                   *)
(***************************************************************************)
THEOREM Invariance == Spec => []IInv
<1>1. IInv /\ [Next]_vars => IInv'
  <2> SUFFICES ASSUME IInv, [Next]_vars PROVE IInv'
    OBVIOUS
  <2>1. CASE NewSearch
    BY <2>1, NewSearchKeeps
  <2>2. ASSUME NEW key \in Keys, NEW data \in Given[key], Store(key, data)
        PROVE  IInv'
    BY <2>2, DataType, StoreKeeps
  <2>3. CASE Clear
    <3>1. count' = count /\ count \in EntryCounts
      BY <2>3 DEF Clear, IInv, TypeOK
    <3> QED BY <2>3, <3>1, EmptyTableKeeps DEF Clear
  <2>4. ASSUME NEW n \in EntryCounts, Resize(n) PROVE IInv'
    BY <2>4, EmptyTableKeeps DEF Resize, Rebuilt
  <2>5. CASE UNCHANGED vars
    BY <2>5 DEF IInv, vars, TypeOK, Slots, Dated, index_for
  <2> QED BY <2>1, <2>2, <2>3, <2>4, <2>5 DEF Next
<1> QED BY <1>1, InitIInv, PTL DEF Spec

(***************************************************************************)
(* Every entry is well-formed and lies in the slot of its key.             *)
(***************************************************************************)
THEOREM TypeCorrect == Spec => []TypeOK
<1>1. IInv => TypeOK
  BY DEF IInv
<1> QED BY <1>1, Invariance, PTL

(***************************************************************************)
(* A probe gives the score of the position counted from the present root.  *)
(***************************************************************************)
THEOREM ScoresAreTrue == Spec => []ProbedScoreIsTrue
<1>1. IInv => ProbedScoreIsTrue
  <2> SUFFICES ASSUME IInv, NEW key \in Keys, NEW ply \in Plies,
                      Probe(key) # None,
                      Truth[key].mate = 0 \/ IsMate(Probe(key).score)
               PROVE  score_from_tt(Probe(key).score, ply) = RootScore(Truth[key], ply)
    BY DEF ProbedScoreIsTrue
  <2> DEFINE e == entries[index_for(key)]
  <2>1. index_for(key) \in Slots
    BY SlotOfType DEF IInv
  <2>2. ~IsEmpty(e) /\ e.key = key /\ Probe(key).score = e.score
    BY DEF Probe, SlotOf
  <2>3. TrueScore(e)
    BY <2>1, <2>2 DEF IInv
  <2>4. PICK p \in Plies : e.score = score_to_tt(RootScore(Truth[key], p), p)
    BY <2>2, <2>3 DEF TrueScore
  <2>5. Truth[key] \in Values
    BY TableAssumption
  <2> QED BY <2>2, <2>4, <2>5, RoundTrip
<1> QED BY <1>1, Invariance, PTL

(***************************************************************************)
(* Entries of earlier searches give way.                                   *)
(***************************************************************************)
THEOREM AgeBias == Spec => []StaleGivesWay
<1>1. IInv => StaleGivesWay
  <2> SUFFICES ASSUME IInv, NEW i \in DOMAIN entries, NEW depth \in Depths,
                      born[i] < searches, searches < born[i] + Generations,
                      ~IsEmpty(entries[i])
               PROVE  Age(entries[i]) # generation
    BY DEF StaleGivesWay, Replaces
  <2>1. i \in Slots
    BY DEF IInv, TypeOK, Slots
  <2>2. /\ searches \in Nat /\ born[i] \in Nat /\ generation \in 0 .. Generations - 1
        /\ Generations \in Nat
    BY <2>1, TableAssumption DEF IInv, TypeOK, Slots
  <2>3. Age(entries[i]) = AgeOf(searches - born[i], generation)
    BY <2>1, <2>2 DEF IInv, Dated
  <2> QED BY <2>2, <2>3 DEF AgeOf
<1> QED BY <1>1, Invariance, PTL

(***************************************************************************)
(* Within a search no slot trades a deeper entry for a shallower one.      *)
(***************************************************************************)
THEOREM DepthPreferred == Spec => NeverShallower
<1> DEFINE A == \A i \in DOMAIN entries :
       (i \in DOMAIN entries' /\ ~IsEmpty(entries[i]) /\ ~IsEmpty(entries'[i])
          /\ born[i] = searches /\ searches' = searches)
       => entries'[i].depth >= entries[i].depth
<1>1. IInv /\ [Next]_vars => [A]_vars
  <2> SUFFICES ASSUME IInv, Next, NEW i \in DOMAIN entries, i \in DOMAIN entries',
                      ~IsEmpty(entries[i]), ~IsEmpty(entries'[i]),
                      born[i] = searches
               PROVE  entries'[i].depth >= entries[i].depth
    OBVIOUS
  <2>1. i \in Slots /\ entries[i] \in Entries
    BY DEF IInv, TypeOK, Slots
  <2>2. entries[i].depth \in Nat
    BY <2>1 DEF Entries
  <2>3. CASE NewSearch
    BY <2>2, <2>3 DEF NewSearch
  <2>4. ASSUME NEW key \in Keys, NEW data \in AllData, Store(key, data)
        PROVE  entries'[i].depth >= entries[i].depth
    <3>1. CASE i = index_for(key) /\ Replaces(SlotOf(key), data)
      <4>1. entries'[i] = NewEntry(SlotOf(key), key, data)
        BY <2>1, <2>4, <3>1 DEF Store, IInv, TypeOK, Slots
      <4>2. entries'[i].depth = data.depth
        BY <4>1 DEF NewEntry
      <4>3. Age(entries[i]) = generation
        <5>1. Dated(i) /\ searches \in Nat /\ generation \in 0 .. Generations - 1
          BY <2>1 DEF IInv, TypeOK
        <5> QED BY <5>1, TableAssumption DEF Dated, AgeOf
      <4>4. data.depth \in Nat
        BY <2>4, TableAssumption DEF AllData
      <4> QED BY <2>2, <3>1, <4>2, <4>3, <4>4 DEF Replaces, SlotOf
    <3>2. CASE ~(i = index_for(key) /\ Replaces(SlotOf(key), data))
      <4>1. entries'[i] = entries[i]
        BY <2>1, <2>4, <3>2 DEF Store, IInv, TypeOK, Slots
      <4> QED BY <2>2, <4>1
    <3> QED BY <3>1, <3>2
  <2>5. CASE Clear
    BY <2>5 DEF Clear, EmptyTable, EmptyEntry, IsEmpty
  <2>6. ASSUME NEW n \in EntryCounts, Resize(n) PROVE FALSE
    BY <2>6 DEF Resize, Rebuilt, EmptyTable, EmptyEntry, IsEmpty
  <2> QED BY <2>3, <2>4, <2>5, <2>6, DataType DEF Next
<1> QED BY <1>1, Invariance, PTL DEF Spec, NeverShallower

-----------------------------------------------------------------------------
(***************************************************************************)
(* What a probe gives of an entry is never mistaken for a miss.            *)
(***************************************************************************)
Contents(e) ==
  [score |-> e.score, depth |-> e.depth, bound |-> Bound(e),
   best_move |-> e.best_move]

LEMMA ContentsAreSome ==
  ASSUME NEW e \in Entries
  PROVE  Contents(e) # None
<1>1. /\ e.score \in Int /\ e.depth \in Nat /\ e.age_and_bound \in Nat
      /\ e.best_move \in Moves
  BY DEF Entries
<1>2. e.best_move \in Nat
  BY <1>1, MovesAreNumbers
<1>3. Bound(e) \in Nat
  BY <1>1 DEF Bound
<1>4. Contents(e) \in [score : Int, depth : Nat, bound : Nat, best_move : Nat]
  BY <1>1, <1>2, <1>3 DEF Contents
<1> QED BY <1>4, TableAssumption

(***************************************************************************)
(* A table that was made anew knows nothing.                               *)
(***************************************************************************)
LEMMA EmptyKnowsNothing ==
  ASSUME NEW key \in Keys, count \in Nat \ {0}, entries = EmptyTable(count)
  PROVE  Probe(key) = None
<1>1. index_for(key) \in Slots
  BY SlotType, TableAssumption
<1> QED BY <1>1 DEF Probe, SlotOf, EmptyTable, EmptyEntry, IsEmpty, Slots

(***************************************************************************)
(* store keeps the move known of its position, may be refused, and may     *)
(* forget another position: the store of the lossy map.                    *)
(***************************************************************************)
KeptMove(key, data) ==
  IF data.best_move = NoMove /\ Probe(key) # None
  THEN Probe(key).best_move ELSE data.best_move

LEMMA StoreIsLossy ==
  ASSUME IInv, NEW key \in Keys, NEW data \in AllData, Store(key, data)
  PROVE  /\ \A k \in Keys \ {key} : Probe(k)' \in {Probe(k), None}
         /\ Probe(key)' \in
              {Probe(key), [data EXCEPT !.best_move = KeptMove(key, data)]}
<1> DEFINE i == index_for(key)
           old == entries[i]
           e == NewEntry(SlotOf(key), key, data)
<1>1. TypeOK /\ i \in Slots
  BY SlotOfType DEF IInv
<1>2. /\ e.key = key /\ e.score = data.score /\ e.depth = data.depth
      /\ e.best_move = PreservedMove(SlotOf(key), key, data) /\ Bound(e) = data.bound
  BY <1>1, NewEntryType
<1> HIDE DEF e
<1>3. count' = count
  BY DEF Store
<1>4. \A k \in Keys : index_for(k)' = index_for(k)
  BY <1>3 DEF index_for
<1>5. CASE ~Replaces(SlotOf(key), data)
  <2>1. entries' = entries
    BY <1>5 DEF Store
  <2>2. \A k \in Keys : Probe(k)' = Probe(k)
    BY <1>4, <2>1 DEF Probe, SlotOf, IsEmpty, Bound
  <2> QED BY <2>2
<1>6. CASE Replaces(SlotOf(key), data)
  <2>1. entries' = [entries EXCEPT ![i] = e]
    BY <1>6 DEF Store, e
  <2>2. \A j \in Slots : entries'[j] = IF j = i THEN e ELSE entries[j]
    BY <1>1, <2>1 DEF TypeOK, Slots
  <2>3. ASSUME NEW k \in Keys \ {key} PROVE Probe(k)' \in {Probe(k), None}
    <3>1. index_for(k) \in Slots
      BY <1>1, SlotOfType
    <3>2. CASE index_for(k) = i
      BY <1>2, <1>4, <2>2, <3>1, <3>2 DEF Probe, SlotOf
    <3>3. CASE index_for(k) # i
      BY <1>4, <2>2, <3>1, <3>3 DEF Probe, SlotOf, Bound, IsEmpty
    <3> QED BY <3>2, <3>3
  <2>4. SlotOf(key)' = e
    <3>1. SlotOf(key)' = entries'[index_for(key)']
      BY DEF SlotOf
    <3>2. index_for(key)' = i
      BY <1>4
    <3> HIDE DEF i
    <3> QED BY <1>1, <2>2, <3>1, <3>2
  <2>5. CASE IsEmpty(e)
    <3>1. Probe(key)' = None
      BY <2>4, <2>5 DEF Probe, IsEmpty
    <3>2. key = 0
      BY <1>2, <2>5 DEF IsEmpty
    <3>3. Probe(key) = None
      BY <3>2 DEF Probe, IsEmpty
    <3> QED BY <2>3, <3>1, <3>3
  <2>6. CASE ~IsEmpty(e)
    <3>1. Probe(key)' = Contents(e)
      BY <1>2, <2>4, <2>6 DEF Probe, Contents, IsEmpty, Bound
    <3>2. data = [score |-> data.score, depth |-> data.depth,
                  bound |-> data.bound, best_move |-> data.best_move]
      BY DEF AllData
    <3>3. PreservedMove(SlotOf(key), key, data) = KeptMove(key, data)
      <4>1. CASE old.key = key
        <5>1. ~IsEmpty(old)
          BY <1>2, <2>6, <4>1 DEF IsEmpty
        <5>2. Probe(key) = Contents(old)
          BY <4>1, <5>1 DEF Probe, SlotOf, Contents
        <5>3. Contents(old) # None /\ Contents(old).best_move = old.best_move
          BY <1>1, ContentsAreSome DEF TypeOK, Slots, Contents
        <5> QED BY <4>1, <5>2, <5>3 DEF PreservedMove, KeptMove, SlotOf
      <4>2. CASE old.key # key
        <5>1. Probe(key) = None
          BY <4>2 DEF Probe, SlotOf
        <5> QED BY <4>2, <5>1 DEF PreservedMove, KeptMove, SlotOf
      <4> QED BY <4>1, <4>2
    <3>4. Contents(e) = [data EXCEPT !.best_move = KeptMove(key, data)]
      BY <1>2, <3>2, <3>3 DEF Contents
    <3> QED BY <2>3, <3>1, <3>4
  <2> QED BY <2>5, <2>6
<1> QED BY <1>5, <1>6

(***************************************************************************)
(* The table implements the lossy map: a store is the map's store, clear   *)
(* and resize empty it, and a new search leaves it as it is.               *)
(***************************************************************************)
THEOREM Refinement == Spec => ImplementsLossyMap
<1> DEFINE Known == [key \in Keys |-> Probe(key)]
<1>1. Init => Map!Init
  <2> SUFFICES ASSUME Init, NEW key \in Keys PROVE Probe(key) = None
    BY DEF Map!Init, Init
  <2>1. count \in Nat \ {0}
    BY TableAssumption DEF Init
  <2> QED BY <2>1, EmptyKnowsNothing DEF Init
<1>2. IInv /\ [Next]_vars => [Map!Next]_(Map!vars)
  <2> SUFFICES ASSUME IInv, [Next]_vars
               PROVE  Map!Next \/ (UNCHANGED Known /\ UNCHANGED stored)
    BY DEF Map!vars
  <2>1. CASE NewSearch \/ UNCHANGED vars
    <3>1. count' = count /\ entries' = entries /\ stored' = stored
      BY <2>1 DEF NewSearch, vars
    <3>2. \A k \in Keys : Probe(k)' = Probe(k)
      BY <3>1 DEF Probe, SlotOf, index_for, IsEmpty, Bound
    <3> QED BY <3>1, <3>2
  <2>2. CASE Clear \/ \E n \in EntryCounts : Resize(n)
    <3>1. count' \in Nat \ {0} /\ entries' = EmptyTable(count')
      BY <2>2, TableAssumption
         DEF Clear, Resize, Rebuilt, IInv, TypeOK, EmptyTable
    <3>2. ASSUME NEW k \in Keys PROVE Probe(k)' = None
      <4>1. index_for(k)' \in 0 .. count' - 1
        <5>1. k \in Nat
          BY TableAssumption
        <5>2. \A n \in Nat \ {0} : k % n \in 0 .. n - 1
          BY <5>1
        <5>3. index_for(k)' = k % count'
          BY DEF index_for
        <5> QED BY <3>1, <5>2, <5>3
      <4> QED BY <3>1, <4>1 DEF Probe, SlotOf, EmptyTable, EmptyEntry, IsEmpty
    <3>3. stored' = [key \in Keys |-> {}]
      BY <2>2 DEF Clear, Resize
    <3>4. Map!Clear
      BY <3>2, <3>3 DEF Map!Clear
    <3> QED BY <3>4 DEF Map!Next
  <2>3. ASSUME NEW key \in Keys, NEW data \in Given[key], Store(key, data)
        PROVE  Map!Next
    <3>1. data \in AllData
      BY DataType
    <3>2. /\ \A k \in Keys \ {key} : Probe(k)' \in {Probe(k), None}
          /\ Probe(key)' \in
               {Probe(key), [data EXCEPT !.best_move = KeptMove(key, data)]}
      BY <2>3, <3>1, StoreIsLossy
    <3>3. [data EXCEPT !.best_move = KeptMove(key, data)] = Map!Kept(key, data)
      <4>1. Known[key] = Probe(key)
        OBVIOUS
      <4>2. CASE data.best_move = NoMove /\ Probe(key) # None
        BY <4>1, <4>2 DEF Map!Kept, KeptMove
      <4>3. CASE ~(data.best_move = NoMove /\ Probe(key) # None)
        <5>1. [data EXCEPT !.best_move = data.best_move] = data
          BY <3>1 DEF AllData
        <5> QED BY <4>1, <4>3, <5>1 DEF Map!Kept, KeptMove
      <4> QED BY <4>2, <4>3
    <3>4. \A k \in Keys : Known[k] = Probe(k) /\ Known'[k] = Probe(k)'
      OBVIOUS
    <3>5. Known' = [k \in Keys |-> Known'[k]]
      OBVIOUS
    <3>6. stored' = [stored EXCEPT ![key] = @ \cup {data}]
      BY <2>3 DEF Store
    <3>7. /\ Known'[key] \in {Known[key], Map!Kept(key, data)}
          /\ \A j \in Keys \ {key} : Known'[j] \in {Known[j], None}
      BY <3>2, <3>3, <3>4
    <3>8. Map!Store(key, data)
      <4> HIDE DEF Known
      <4> QED BY <3>5, <3>6, <3>7 DEF Map!Store, Known
    <3> QED BY <3>8 DEF Map!Next
  <2> QED BY <2>1, <2>2, <2>3 DEF Next
<1> QED BY <1>1, <1>2, Invariance, PTL DEF Spec, Map!Spec, ImplementsLossyMap

(***************************************************************************)
(* A result d that is known, made from the results of the set S.           *)
(***************************************************************************)
MadeFrom(d, S) ==
  d # None =>
    /\ \E r \in S : d = [r EXCEPT !.best_move = d.best_move]
    /\ d.best_move # NoMove => \E r \in S : r.best_move = d.best_move

(***************************************************************************)
(* What a probe gives was stored for its position since the last clear or  *)
(* resize, move and all: an invariant of the lossy map's own steps.        *)
(***************************************************************************)
THEOREM NothingIsMadeUp == Spec => []NothingMadeUp
<1> DEFINE Known == [key \in Keys |-> Probe(key)]
<1>1. \A key \in Keys : Known[key] = Probe(key) /\ Known'[key] = Probe(key)'
  OBVIOUS
<1>2. Map!NothingMadeUp <=> \A k \in Keys : MadeFrom(Known[k], stored[k])
  BY DEF Map!NothingMadeUp, MadeFrom
<1>3. Map!NothingMadeUp' <=> \A k \in Keys : MadeFrom(Known'[k], stored'[k])
  BY DEF Map!NothingMadeUp, MadeFrom
<1>4. Map!Init => Map!NothingMadeUp
  <2> SUFFICES ASSUME Map!Init, NEW k \in Keys PROVE MadeFrom(Known[k], stored[k])
    BY <1>2
  <2>1. Known[k] = None
    BY DEF Map!Init
  <2> QED BY <2>1 DEF MadeFrom
<1>5. IInv /\ Map!NothingMadeUp /\ [Map!Next]_(Map!vars) => Map!NothingMadeUp'
  <2> SUFFICES ASSUME IInv, Map!NothingMadeUp, [Map!Next]_(Map!vars)
               PROVE  Map!NothingMadeUp'
    OBVIOUS
  <2>1. CASE UNCHANGED Map!vars
    <3>1. Known' = Known /\ stored' = stored
      BY <2>1 DEF Map!vars
    <3> HIDE DEF Known
    <3> QED BY <1>2, <1>3, <3>1
  <2>2. CASE Map!Clear
    <3>1. \A k \in Keys : Known'[k] = None
      BY <2>2 DEF Map!Clear
    <3> HIDE DEF Known
    <3> QED BY <1>3, <3>1 DEF MadeFrom
  <2>3. ASSUME NEW k \in Keys, NEW r \in Given[k], Map!Store(k, r)
        PROVE  Map!NothingMadeUp'
    <3>1. r \in AllData /\ stored \in [Keys -> SUBSET AllData]
      BY DataType DEF IInv, TypeOK
    <3>2. /\ stored' = [stored EXCEPT ![k] = @ \cup {r}]
          /\ Known'[k] \in {Known[k], Map!Kept(k, r)}
          /\ \A j \in Keys \ {k} : Known'[j] \in {Known[j], None}
      BY <2>3 DEF Map!Store
    <3>3. Map!Kept(k, r) = IF r.best_move = NoMove /\ Known[k] # None
                           THEN [r EXCEPT !.best_move = Known[k].best_move] ELSE r
      BY DEF Map!Kept
    <3> HIDE DEF Known
    <3>4. /\ stored'[k] = stored[k] \cup {r}
          /\ \A j \in Keys \ {k} : stored'[j] = stored[j]
      BY <3>1, <3>2
    <3>5. \A j \in Keys : MadeFrom(Known[j], stored[j])
      BY <1>2
    <3>6. ASSUME NEW j \in Keys \ {k} PROVE MadeFrom(Known'[j], stored'[j])
      BY <3>2, <3>4, <3>5 DEF MadeFrom
    <3>7. MadeFrom(Known[k], stored[k] \cup {r})
      BY <3>5 DEF MadeFrom
    <3>8. MadeFrom(Map!Kept(k, r), stored[k] \cup {r})
      <4>1. CASE r.best_move = NoMove /\ Known[k] # None
        <5>1. Map!Kept(k, r) = [r EXCEPT !.best_move = Known[k].best_move]
          BY <3>3, <4>1
        <5>2. [r EXCEPT !.best_move = Known[k].best_move].best_move
                = Known[k].best_move
          BY <3>1 DEF AllData
        <5>3. Known[k].best_move # NoMove =>
                \E q \in stored[k] : q.best_move = Known[k].best_move
          BY <3>5, <4>1 DEF MadeFrom
        <5> QED BY <5>1, <5>2, <5>3 DEF MadeFrom
      <4>2. CASE ~(r.best_move = NoMove /\ Known[k] # None)
        <5>1. Map!Kept(k, r) = r
          BY <3>3, <4>2
        <5>2. [r EXCEPT !.best_move = r.best_move] = r
          BY <3>1 DEF AllData
        <5> QED BY <5>1, <5>2 DEF MadeFrom
      <4> QED BY <4>1, <4>2
    <3>9. MadeFrom(Known'[k], stored'[k])
      BY <3>2, <3>4, <3>7, <3>8
    <3> QED BY <1>3, <3>6, <3>9
  <2> QED BY <2>1, <2>2, <2>3 DEF Map!Next
<1>6. Spec => Map!Spec
  BY Refinement DEF ImplementsLossyMap
<1> QED BY <1>4, <1>5, <1>6, Invariance, PTL DEF Map!Spec, NothingMadeUp
=============================================================================
