------------------------ MODULE MatchHarness_proofs ------------------------
(***************************************************************************)
(* The safety of a match in MatchHarness, proved for any number of workers *)
(* and pairs, any verdict and any number of faults.                        *)
(*                                                                         *)
(* The tally and the counts of pairs are kept by adding up reports, so     *)
(* what has to be shown is where the reports come from.  A worker that has *)
(* a pair in flight (Busy) has exactly one, PairOf(w), which is still in   *)
(* its channel (Waiting) or in its hands (PlaceInv); no two workers have   *)
(* the same (OwnerInv).  The games of that pair are played once and in     *)
(* order (FreshInv), each has one report that says what it was worth, and  *)
(* the report of the pair comes after both (ReportInv, OrderInv).  Hence   *)
(* the buffer of a worker is at any time the scores of the games of its    *)
(* pair that were handled (BufferInv), and a pair that was dispatched and  *)
(* is not complete is in flight somewhere (DoneInv).                       *)
(*                                                                         *)
(* A tuning run (SpsaInv) sends a worker several pairs.  A pair of the     *)
(* iteration is in one place at most (SentInv, ApartInv), each of its games*)
(* is played once (PlayedInv) and reported before the pair is (BehindInv). *)
(* The count of complete pairs is that of the pairs whose workers said so  *)
(* and whose report was read (SumInv): when it is full, nothing of the     *)
(* iteration is missing or on its way, and the sum is the sum of its games.*)
(* That the sum over a finite set does not depend on the order is shown by *)
(* taking a smallest set for which it would (SmallestSet).                 *)
(***************************************************************************)
EXTENDS MatchHarness, FiniteSetTheorems, SequenceTheorems, WellFoundedInduction, TLAPS

Match == mode # "spsa"
Busy(w) == pairs_in_flight[w] = 1
Waiting(w) == cmds[w] # <<>> /\ Head(cmds[w]).op = "pair"
PairOf(w) == IF Waiting(w) THEN Head(cmds[w]).pair ELSE worker[w].pair
GameOf(w, leg) == game_index(worker[w].pair, leg)
Dispatched == 1 .. 2 * pairs_dispatched

\* A channel holds at most the pair in flight and the quit behind it.
CommandInv ==
  \A w \in WorkerIds :
    /\ Len(cmds[w]) <= 2
    /\ \A i \in 1 .. Len(cmds[w]) : cmds[w][i].op = "pair" => i = 1 /\ Busy(w)
    /\ open => Len(cmds[w]) <= 1
    /\ \A i \in 1 .. Len(cmds[w]) : cmds[w][i].op = "quit" => ~open
    /\ Len(cmds[w]) = 2 => cmds[w][1].op = "pair"

\* Where the controller is.
PhaseInv ==
  /\ cpc \in {"bootstrap", "drain", "quit", "join", "returned", "failed"}
  /\ open <=> cpc \in {"bootstrap", "drain", "quit"}
  /\ cpc = "bootstrap" => ~terminating /\ slot <= NWorkers
  /\ cpc = "bootstrap" => \A w \in WorkerIds : w >= slot => ~Busy(w)
  /\ cpc \in {"quit", "join", "returned"} /\ ~failure => handled = Dispatched
  /\ cpc = "returned" => ~failure

\* A worker with no pair in flight, or one it has not taken yet, is between
\* pairs.
PlaceInv ==
  \A w \in WorkerIds :
    /\ Busy(w) => PairOf(w) \in 0 .. pairs_dispatched - 1
    /\ ~Busy(w) \/ Waiting(w) => worker[w].pc \in {"starting", "ready", "leaving", "gone"}
    /\ worker[w].pc = "syncing" => worker[w].leg = 0
    /\ worker[w].pc = "starting" /\ Busy(w) => Waiting(w)

OwnerInv ==
  \A v, w \in WorkerIds : Busy(v) /\ Busy(w) /\ PairOf(v) = PairOf(w) => v = w

\* Games that are not played yet.
FreshInv ==
  /\ \A p \in Pairs, leg \in {0, 1} :
       p >= pairs_dispatched => won[game_index(p, leg)] = "none"
  /\ \A w \in WorkerIds, leg \in {0, 1} :
       \/ Waiting(w)
       \/ worker[w].pc \in {"syncing", "newgame"} /\ leg >= worker[w].leg
       => won[game_index(PairOf(w), leg)] = "none"

\* What a report says.
ReportInv ==
  \A i \in 1 .. Len(reports), w \in WorkerIds :
    reports[i].worker = w =>
      /\ reports[i].kind # "failure" => Busy(w) /\ ~Waiting(w)
      /\ reports[i].kind = "game" =>
           /\ reports[i].game \in {GameOf(w, 0), GameOf(w, 1)} \ handled
           /\ won[reports[i].game] # "none" /\ reports[i].score = Worth(reports[i].game)
      /\ reports[i].kind = "pair" => worker[w].pc \in {"ready", "leaving", "gone"}

Reported(g, n) == \E j \in 1 .. n : reports[j].kind = "game" /\ reports[j].game = g

\* Each report comes once.
OnceInv ==
  \A i, j \in 1 .. Len(reports) :
    /\ reports[i].kind = reports[j].kind
    /\ \/ reports[i].kind = "game" /\ reports[i].game = reports[j].game
       \/ reports[i].kind = "pair" /\ reports[i].worker = reports[j].worker
    => i = j

\* And after those of the games before it.
OrderInv ==
  \A i \in 1 .. Len(reports), w \in WorkerIds, leg \in {0, 1} :
    /\ reports[i].worker = w
    /\ \/ reports[i].kind = "pair"
       \/ reports[i].kind = "game" /\ reports[i].game = GameOf(w, 1) /\ leg = 0
    => GameOf(w, leg) \in handled \/ Reported(GameOf(w, leg), i - 1)

\* What was played is reported, or was.
ToldInv ==
  \A g \in Games : won[g] # "none" => g \in handled \/ Reported(g, Len(reports))

\* What a worker has done of its pair.
StageInv ==
  \A w \in WorkerIds :
    /\ worker[w].pc = "newgame" /\ worker[w].leg = 1 => won[GameOf(w, 0)] # "none"
    /\ worker[w].pc = "paired" => \A leg \in {0, 1} : won[GameOf(w, leg)] # "none"

Scores(w) ==
  IF ~Busy(w) \/ Waiting(w) \/ GameOf(w, 0) \notin handled THEN <<>>
  ELSE IF GameOf(w, 1) \notin handled THEN <<Worth(GameOf(w, 0))>>
  ELSE <<Worth(GameOf(w, 0)), Worth(GameOf(w, 1))>>

BufferInv ==
  /\ cpc # "returned" => \A w \in WorkerIds : pair_score_buffers[w] = Scores(w)
  /\ cpc = "returned" => \A w \in WorkerIds : pair_score_buffers[w] = <<>>
  /\ \A w \in WorkerIds :
       Busy(w) /\ ~Waiting(w) /\ GameOf(w, 1) \in handled => GameOf(w, 0) \in handled

HandledInv ==
  /\ handled \subseteq Dispatched /\ t = Cardinality(handled)
  /\ \A g \in handled : won[g] # "none"
  /\ terminating => limit = t + Cardinality(Dispatched \ handled)
  /\ ~terminating => limit = MaxGames

\* A pair is complete or in flight, and a worker that left without being told
\* to has said so.
DoneInv ==
  /\ \A p \in 0 .. pairs_dispatched - 1 :
       \/ {game_index(p, 0), game_index(p, 1)} \subseteq handled
       \/ \E w \in WorkerIds : Busy(w) /\ PairOf(w) = p
  /\ \A w \in WorkerIds :
       open /\ worker[w].pc \in {"leaving", "gone"} =>
         failure \/ \E i \in 1 .. Len(reports) : reports[i].kind = "failure"

MatchCore ==
  /\ CommandInv /\ PhaseInv /\ PlaceInv /\ OwnerInv /\ FreshInv
  /\ ReportInv /\ OnceInv /\ OrderInv /\ ToldInv /\ StageInv
  /\ BufferInv /\ HandledInv /\ DoneInv

\* What PairsAreWhole says, in terms of the pairs that are complete and those
\* of which one game was handled (WholeMeans).
Complete(b) ==
  {p \in Pairs : /\ {game_index(p, 0), game_index(p, 1)} \subseteq handled
                 /\ Worth(game_index(p, 0)) + Worth(game_index(p, 1)) = b}
Half ==
  {p \in Pairs : \/ game_index(p, 0) \in handled /\ game_index(p, 1) \notin handled
                 \/ game_index(p, 0) \notin handled /\ game_index(p, 1) \in handled}
Ready(b) == {w \in Buffered(2) : PairScore(pair_score_buffers[w]) = b}
Whole ==
  /\ \A b \in Bins : pair_counts[b] + Cardinality(Ready(b)) = Cardinality(Complete(b))
  /\ discarded_singletons + Cardinality(Buffered(1)) = Cardinality(Half)
  /\ cpc = "returned" =>
       /\ handled = {i \in Games : i <= 2 * pairs_dispatched}
       /\ discarded_singletons = 0

\* The invariant of a match.
MatchInv == MatchCore /\ TallyIsTrue /\ Whole

\* In a tuning run, the pairs of an iteration that exists are dispatched.
TuningInv ==
  /\ wins + losses + draws = t
  /\ ~Match => cpc \in {"dispatch", "barrier", "quit", "join", "returned", "failed"}
  /\ cpc = "dispatch" => iter < NIters /\ slot < PairsPerIter
  /\ cpc = "barrier" => iter < NIters
  /\ cpc = "bootstrap" => slot <= NWorkers

\* A report of a game names one.
NamedInv ==
  \A i \in 1 .. Len(reports) : reports[i].kind = "game" => reports[i].game \in Games

IInv == TypeOK /\ TuningInv /\ NamedInv /\ (Match => MatchInv)

USE DEF poolVars, dispatchVars, tallyVars, sprtVars, stopVars, spsaVars, vars

-----------------------------------------------------------------------------
LEMMA TotalPairs ==
  /\ total_pairs \in Nat /\ MaxGames = 2 * total_pairs /\ MaxGames \in Nat
  /\ Pairs \subseteq Nat /\ 0 .. total_pairs - 1 \subseteq Pairs
BY HarnessAssumption, PoolAssumption DEF total_pairs

LEMMA GameIndex ==
  ASSUME NEW p \in Nat, NEW q \in Nat, NEW k \in {0, 1}, NEW l \in {0, 1},
         game_index(p, k) = game_index(q, l)
  PROVE  p = q /\ k = l
BY DEF game_index

LEMMA GamesType ==
  /\ Games \subseteq Nat \ {0}
  /\ \A p \in Pairs, l \in {0, 1} : game_index(p, l) \in Games
BY PoolAssumption DEF Games, game_index

\* A report is typed.
LEMMA ReportTypes ==
  ASSUME NEW w \in WorkerIds, NEW g \in Games, NEW s \in 0 .. 2
  PROVE  /\ GameComplete(w, g, s) \in ReportType
         /\ PairComplete(w) \in ReportType /\ Failure(w) \in ReportType
BY DEF GameComplete, PairComplete, Failure, ReportType

LEMMA HeadOfReports ==
  ASSUME reports \in Seq(ReportType), reports # <<>>
  PROVE  /\ Report \in ReportType /\ Report = reports[1]
         /\ Len(reports) \in Nat \ {0}
         /\ Tail(reports) \in Seq(ReportType)
         /\ Len(Tail(reports)) = Len(reports) - 1
         /\ \A i \in 1 .. Len(reports) - 1 : Tail(reports)[i] = reports[i + 1]
BY HeadTailProperties, EmptySeq DEF Report

LEMMA ReportFields ==
  ASSUME TypeOK
  PROVE  /\ Len(reports) \in Nat
         /\ \A i \in 1 .. Len(reports) :
              /\ reports[i] \in ReportType
              /\ reports[i].worker \in WorkerIds
              /\ reports[i].kind \in {"game", "pair", "failure"}
<1>1. reports \in Seq(ReportType)
  BY DEF TypeOK, PoolTypeOK
<1>2. \A i \in 1 .. Len(reports) : reports[i] \in ReportType
  BY <1>1, ElementOfSeq
<1> QED BY <1>1, <1>2 DEF ReportType

\* A report is sent.
LEMMA SaidReport ==
  ASSUME TypeOK, NEW r \in ReportType, reports' = Append(reports, r)
  PROVE  /\ Len(reports) \in Nat /\ Len(reports') = Len(reports) + 1
         /\ \A i \in 1 .. Len(reports) : /\ reports'[i] = reports[i]
                                         /\ reports[i].worker \in WorkerIds
                                         /\ i \in 1 .. Len(reports')
         /\ reports'[Len(reports')] = r
         /\ \A i \in 1 .. Len(reports') : i \in 1 .. Len(reports) \/ i = Len(reports')
<1>1. reports \in Seq(ReportType)
  BY DEF TypeOK, PoolTypeOK
<1>2. /\ Len(reports) \in Nat /\ Len(reports') = Len(reports) + 1
      /\ \A i \in 1 .. Len(reports) : reports'[i] = reports[i]
      /\ reports'[Len(reports) + 1] = r
  BY <1>1, AppendProperties
<1> QED BY <1>2, ReportFields

\* The score of a game is what the game was worth.
LEMMA ScoreIsWorth ==
  ASSUME NEW winner \in Results, NEW leg \in {0, 1}
  PROVE  LET color == IF winner = "draw" THEN "draw" ELSE ColorOf(winner, leg)
             score == compute_clawfish_score(color, leg = 0)
         IN  /\ score \in 0 .. 2
             /\ score = CASE winner = "engine" -> 2 [] winner = "opponent" -> 0
                        [] OTHER -> 1
BY DEF Results, Players, ColorOf, compute_clawfish_score, WhiteScore

CommandType == [op : {"pair", "quit"}, pair : Pairs \cup {0}]

LEMMA CommandTypes ==
  /\ \A p \in Pairs : PlayPair(p) \in CommandType
  /\ QuitCmd \in CommandType
BY DEF PlayPair, QuitCmd, CommandType

\* The next pair of a tuning run exists.
LEMMA TuningPair ==
  ASSUME NEW i \in 0 .. NIters - 1, NEW s \in 0 .. PairsPerIter - 1
  PROVE  i * PairsPerIter + s \in Pairs
<1>1. NIters \in Nat /\ PairsPerIter \in Nat \ {0}
  BY HarnessAssumption
<1>2. (i + 1) * PairsPerIter <= NIters * PairsPerIter
  BY <1>1
<1>3. i * PairsPerIter + s \in 0 .. NIters * PairsPerIter - 1
  BY <1>1, <1>2
<1> QED BY <1>3, HarnessAssumption

-----------------------------------------------------------------------------
\* Types.

\* The pair of a worker is one, even before it has taken any.
LEMMA TakenPair ==
  ASSUME PoolTypeOK, NEW w \in WorkerIds
  PROVE  worker[w].pair \in Pairs
<1>1. 0 \in Pairs
  BY TotalPairs, HarnessAssumption
<1> QED BY <1>1 DEF PoolTypeOK

LEMMA PlayTypes ==
  ASSUME PoolTypeOK, NEW w \in WorkerIds, NEW winner \in Results,
         Ends(w, winner)
  PROVE  /\ worker' \in [WorkerIds ->
              [pc : {"starting", "ready", "syncing", "newgame", "paired",
                     "leaving", "gone"},
               pair : Pairs \cup {0}, leg : {0, 1}]]
         /\ reports' \in Seq(ReportType)
         /\ won' \in [Games -> Results \cup {"none"}]
<1> DEFINE leg == worker[w].leg
           i == game_index(worker[w].pair, leg)
           color == IF winner = "draw" THEN "draw" ELSE ColorOf(winner, leg)
           score == compute_clawfish_score(color, leg = 0)
<1>1. leg \in {0, 1}
  BY DEF PoolTypeOK
<1>2. i \in Games
  BY <1>1, GamesType, TakenPair
<1>3. score \in 0 .. 2
  BY <1>1, ScoreIsWorth
<1>4. GameComplete(w, i, score) \in ReportType
  BY <1>2, <1>3, ReportTypes
<1>5. reports' = Append(reports, GameComplete(w, i, score))
  BY DEF Ends, Say
<1>6. reports' \in Seq(ReportType)
  BY <1>4, <1>5, AppendProperties DEF PoolTypeOK
<1>7. won' = [won EXCEPT ![i] = winner]
  BY DEF Ends
<1>8. worker' = [worker EXCEPT ![w].pc = IF leg = 0 THEN "newgame" ELSE "paired",
                               ![w].leg = 1]
  BY DEF Ends
<1>9. won' \in [Games -> Results \cup {"none"}]
  BY <1>7 DEF PoolTypeOK
<1>10. \A v \in WorkerIds : worker'[v] \in
          [pc : {"starting", "ready", "syncing", "newgame", "paired", "leaving", "gone"},
           pair : Pairs \cup {0}, leg : {0, 1}]
  <2> HIDE DEF leg
  <2> SUFFICES ASSUME NEW v \in WorkerIds
               PROVE  worker'[v] \in
          [pc : {"starting", "ready", "syncing", "newgame", "paired", "leaving", "gone"},
           pair : Pairs \cup {0}, leg : {0, 1}]
    OBVIOUS
  <2>1. worker[v] \in
          [pc : {"starting", "ready", "syncing", "newgame", "paired", "leaving", "gone"},
           pair : Pairs \cup {0}, leg : {0, 1}]
        /\ worker \in [WorkerIds ->
          [pc : {"starting", "ready", "syncing", "newgame", "paired", "leaving", "gone"},
           pair : Pairs \cup {0}, leg : {0, 1}]]
    BY DEF PoolTypeOK
  <2>2. CASE v = w
    <3>1. worker'[v] = [worker[v] EXCEPT !.pc = IF leg = 0 THEN "newgame" ELSE "paired",
                                         !.leg = 1]
      BY <1>8, <2>1, <2>2
    <3> QED BY <2>1, <3>1
  <2>3. CASE v # w
    <3>1. worker'[v] = worker[v]
      BY <1>8, <2>1, <2>3
    <3> QED BY <2>1, <3>1
  <2> QED BY <2>2, <2>3
<1>11. worker' \in [WorkerIds ->
          [pc : {"starting", "ready", "syncing", "newgame", "paired", "leaving", "gone"},
           pair : Pairs \cup {0}, leg : {0, 1}]]
  <2> HIDE DEF leg
  <2> QED BY <1>8, <1>10 DEF PoolTypeOK
<1> QED BY <1>6, <1>9, <1>11

LEMMA PoolTypePreserved ==
  ASSUME PoolTypeOK, NEW w \in WorkerIds, NEW spsa \in BOOLEAN, WorkerStep(w, spsa)
  PROVE  PoolTypeOK'
<1> USE DEF PoolTypeOK, At
<1>1. CASE Handshake(w) \/ Disconnected(w) \/ Sync(w, spsa) \/ Shutdown(w)
  <2>1. PICK pc \in {"ready", "leaving", "newgame", "gone"} :
          worker' = [worker EXCEPT ![w].pc = pc]
    BY <1>1 DEF Handshake, Disconnected, Sync, Shutdown, Go
  <2>2. UNCHANGED <<alive, cmds, open, reports, won, faults>>
    BY <1>1 DEF Handshake, Disconnected, Sync, Shutdown
  <2> QED BY ZenonT(40), <2>1, <2>2
<1>2. CASE Take(w)
  <2>1. /\ Head(cmds[w]) \in CommandType
        /\ Tail(cmds[w]) \in Seq(CommandType)
    BY <1>2, HeadTailProperties DEF Take, CommandType
  <2>2. cmds' = [cmds EXCEPT ![w] = Tail(@)]
        /\ UNCHANGED <<alive, open, reports, won, faults>>
    BY <1>2 DEF Take
  <2>3. worker' \in [WorkerIds ->
          [pc : {"starting", "ready", "syncing", "newgame", "paired", "leaving", "gone"},
           pair : Pairs \cup {0}, leg : {0, 1}]]
    <3>1. CASE Head(cmds[w]).op = "quit"
      <4>1. worker' = [worker EXCEPT ![w].pc = "leaving"]
        BY <1>2, <3>1 DEF Take
      <4> QED BY ZenonT(40), <4>1
    <3>2. CASE Head(cmds[w]).op # "quit"
      <4>1. worker' = [worker EXCEPT ![w] = [pc |-> "syncing", pair |-> Head(cmds[w]).pair,
                                              leg |-> 0]]
        BY <1>2, <3>2 DEF Take
      <4>2. Head(cmds[w]).pair \in Pairs \cup {0}
        BY <2>1 DEF CommandType
      <4> QED BY <4>1, <4>2
    <3> QED BY <3>1, <3>2
  <2>4. cmds' \in [WorkerIds -> Seq([op : {"pair", "quit"}, pair : Pairs \cup {0}])]
    BY <2>1, <2>2 DEF CommandType
  <2> QED BY <2>2, <2>3, <2>4
<1>3. CASE Starved(w, spsa)
  <2>1. reports' \in Seq(ReportType)
    BY <1>3, ReportTypes, AppendProperties, GamesType, HarnessAssumption, TotalPairs
    DEF Starved, Say, Failure, ReportType
  <2>2. faults' \in 0 .. MaxFaults
    BY <1>3, PoolAssumption DEF Starved
  <2>3. worker' = [worker EXCEPT ![w].pc = "leaving"] /\ UNCHANGED <<alive, cmds, open, won>>
    BY <1>3 DEF Starved, Go
  <2> QED BY ZenonT(40), <2>1, <2>2, <2>3
<1>4. CASE Play(w)
  <2>1. PICK winner \in Winners : Ends(w, winner)
    BY <1>4 DEF Play
  <2>2. winner \in Results
    BY PoolAssumption
  <2> HIDE DEF PoolTypeOK
  <2>3. UNCHANGED <<alive, cmds, open, faults>>
    BY <1>4 DEF Play
  <2> QED BY <2>1, <2>2, <2>3, PlayTypes DEF PoolTypeOK
<1>5. CASE Spoil(w)
  <2>1. PICK loser \in Players :
          /\ \E winner \in Players \ {loser} : Ends(w, winner)
          /\ alive' = [alive EXCEPT ![w] = @ \ {loser}]
    BY <1>5 DEF Spoil
  <2>2. PICK winner \in Players \ {loser} : Ends(w, winner)
    BY <2>1
  <2>3. winner \in Results
    BY DEF Results
  <2>4. faults' \in 0 .. MaxFaults /\ UNCHANGED <<cmds, open>>
    BY <1>5, PoolAssumption DEF Spoil
  <2>5. alive' \in [WorkerIds -> SUBSET Players]
    BY <2>1
  <2> HIDE DEF PoolTypeOK
  <2> QED BY <2>2, <2>3, <2>4, <2>5, PlayTypes DEF PoolTypeOK
<1>6. CASE ReportPair(w)
  <2>1. reports' \in Seq(ReportType)
    BY <1>6, ReportTypes, AppendProperties, GamesType, HarnessAssumption, TotalPairs
    DEF ReportPair, Say, PairComplete, ReportType
  <2>2. worker' = [worker EXCEPT ![w].pc = "ready"]
        /\ UNCHANGED <<alive, cmds, open, won, faults>>
    BY <1>6 DEF ReportPair, Go
  <2> QED BY ZenonT(40), <2>1, <2>2
<1> QED
  BY <1>1, <1>2, <1>3, <1>4, <1>5, <1>6 DEF WorkerStep

-----------------------------------------------------------------------------
\* Counting pairs.

LEMMA HandledSize ==
  ASSUME NEW p \in Pairs
  PROVE  /\ Cardinality(Handled(p)) = 2
              <=> {game_index(p, 0), game_index(p, 1)} \subseteq handled
         /\ Cardinality(Handled(p)) = 1
              <=> \/ game_index(p, 0) \in handled /\ game_index(p, 1) \notin handled
                  \/ game_index(p, 0) \notin handled /\ game_index(p, 1) \in handled
<1> DEFINE g == game_index(p, 0)
           h == game_index(p, 1)
<1>1. g # h
  BY PoolAssumption DEF game_index
<1>2. Handled(p) = {g, h} \cap handled
  BY DEF Handled
<1>3. /\ IsFiniteSet({}) /\ Cardinality({}) = 0
      /\ IsFiniteSet({g}) /\ Cardinality({g}) = 1
      /\ Cardinality({h}) = 1
  BY FS_EmptySet, FS_Singleton
<1>4. Cardinality({g} \cup {h}) = 2
  BY <1>1, <1>3, FS_AddElement
<1>5. CASE g \in handled /\ h \in handled
  <2>1. Handled(p) = {g} \cup {h}
    BY <1>2, <1>5
  <2> QED BY <2>1, <1>4, <1>5
<1>6. CASE g \in handled /\ h \notin handled
  <2>1. Handled(p) = {g}
    BY <1>2, <1>6
  <2> QED BY <2>1, <1>3, <1>6
<1>7. CASE g \notin handled /\ h \in handled
  <2>1. Handled(p) = {h}
    BY <1>2, <1>7
  <2> QED BY <2>1, <1>3, <1>7
<1>8. CASE g \notin handled /\ h \notin handled
  <2>1. Handled(p) = {}
    BY <1>2, <1>8
  <2> QED BY <2>1, <1>3, <1>8
<1> QED BY <1>5, <1>6, <1>7, <1>8

LEMMA WholeMeans == PairsAreWhole <=> (Match => Whole)
<1>1. \A b \in Bins : Complete(b) =
        {p \in Pairs : /\ Cardinality(Handled(p)) = 2
                       /\ Worth(game_index(p, 0)) + Worth(game_index(p, 1)) = b}
  BY HandledSize DEF Complete
<1>2. Half = {p \in Pairs : Cardinality(Handled(p)) = 1}
  BY HandledSize DEF Half
<1> QED BY <1>1, <1>2 DEF PairsAreWhole, Match, Ready, Whole

\* The games of the first n pairs.
LEMMA GamesUpTo ==
  ASSUME NEW n \in 0 .. total_pairs
  PROVE  /\ {i \in Games : i <= 2 * n} = 1 .. 2 * n
         /\ \A p \in Pairs, leg \in {0, 1} : game_index(p, leg) \in 1 .. 2 * n <=> p < n
<1>1. ASSUME NEW i \in 1 .. 2 * n PROVE i \in Games
  <2> DEFINE k == (i - 1) \div 2
  <2>1. k \in Nat /\ (i = 2 * k + 1 \/ i = 2 * k + 2)
    BY TotalPairs
  <2>2. k \in Pairs
    BY <2>1, TotalPairs
  <2>3. i = game_index(k, 0) \/ i = game_index(k, 1)
    BY <2>1 DEF game_index
  <2> HIDE DEF k
  <2> QED BY <2>2, <2>3, GamesType
<1>2. \A p \in Pairs, leg \in {0, 1} : game_index(p, leg) \in 1 .. 2 * n <=> p < n
  BY TotalPairs DEF game_index
<1>3. ASSUME NEW i \in Games, i <= 2 * n PROVE i \in 1 .. 2 * n
  <2>1. i \in Nat /\ i # 0
    BY GamesType
  <2> QED BY <2>1, <1>3, TotalPairs
<1> QED BY <1>2, <1>3, <1>1

LEMMA PairsFinite ==
  ASSUME handled \subseteq Dispatched, pairs_dispatched \in 0 .. total_pairs
  PROVE  /\ \A b \in Bins : /\ IsFiniteSet(Complete(b))
                            /\ Cardinality(Complete(b)) <= total_pairs
         /\ IsFiniteSet(Half)
<1> DEFINE D == 0 .. total_pairs - 1
<1>1. IsFiniteSet(D) /\ Cardinality(D) = total_pairs
  BY TotalPairs, FS_Interval
<1>2. ASSUME NEW p \in Pairs, NEW leg \in {0, 1}, game_index(p, leg) \in handled
      PROVE  p \in D
  <2>1. game_index(p, leg) \in 1 .. 2 * pairs_dispatched
    BY <1>2 DEF Dispatched
  <2>2. p < pairs_dispatched
    BY <2>1, GamesUpTo
  <2> QED BY <2>2, TotalPairs
<1> HIDE DEF D
<1>3. Half \in SUBSET D
  BY <1>2 DEF Half
<1>4. ASSUME NEW b \in Bins PROVE Complete(b) \in SUBSET D
  BY <1>2 DEF Complete
<1>5. \A S \in SUBSET D : IsFiniteSet(S) /\ Cardinality(S) <= Cardinality(D)
  BY <1>1, FS_Subset
<1> QED BY <1>1, <1>3, <1>4, <1>5

LEMMA WorkersFinite ==
  ASSUME NEW S \in SUBSET WorkerIds
  PROVE  IsFiniteSet(S) /\ Cardinality(S) \in Nat
<1>1. IsFiniteSet(WorkerIds)
  BY PoolAssumption, FS_Interval DEF WorkerIds
<1>2. IsFiniteSet(S)
  BY <1>1, FS_Subset
<1> QED BY <1>2, FS_CardinalityType

LEMMA BufferSets ==
  /\ \A b \in Bins : IsFiniteSet(Ready(b)) /\ Cardinality(Ready(b)) \in Nat
  /\ \A n \in Nat : IsFiniteSet(Buffered(n)) /\ Cardinality(Buffered(n)) \in Nat
<1>1. \A n \in Nat : Buffered(n) \in SUBSET WorkerIds
  BY DEF Buffered
<1>2. \A b \in Bins : Ready(b) \in SUBSET WorkerIds
  BY DEF Ready, Buffered
<1> QED BY <1>1, <1>2, WorkersFinite

\* A pair that is complete in its buffer is one of those the limit allows.
LEMMA CountsBounded ==
  ASSUME IInv, Match, NEW w \in WorkerIds, Len(pair_score_buffers[w]) = 2
  PROVE  update_pair(pair_counts, pair_score_buffers[w]) \in [Bins -> 0 .. total_pairs]
<1> DEFINE buffer == pair_score_buffers[w]
           c == PairScore(buffer)
<1>1. /\ pair_counts \in [Bins -> Nat] /\ buffer \in Seq(0 .. 2)
      /\ handled \subseteq Dispatched /\ pairs_dispatched \in 0 .. total_pairs
  BY DEF IInv, TypeOK, Counts, MatchInv, MatchCore, HandledInv
<1>2. c \in Bins
  <2>1. buffer[1] \in 0 .. 2 /\ buffer[2] \in 0 .. 2
    BY <1>1, ElementOfSeq
  <2> QED BY <2>1 DEF PairScore, Bins
<1>3. \A b \in Bins : pair_counts[b] + Cardinality(Ready(b)) <= total_pairs
  BY <1>1, PairsFinite DEF IInv, MatchInv, Whole
<1>4. Cardinality(Ready(c)) # 0
  <2>1. w \in Ready(c)
    BY DEF Ready, Buffered
  <2> QED BY <2>1, <1>2, BufferSets, FS_EmptySet
<1>5. \A b \in Bins : /\ pair_counts[b] \in Nat /\ Cardinality(Ready(b)) \in Nat
                      /\ pair_counts[b] <= total_pairs
  BY <1>1, <1>3, BufferSets, TotalPairs
<1>6. pair_counts[c] + 1 <= total_pairs
  BY <1>2, <1>3, <1>4, <1>5, TotalPairs
<1>7. update_pair(pair_counts, buffer) = [pair_counts EXCEPT ![c] = @ + 1]
  BY DEF update_pair
<1> HIDE DEF c, buffer
<1>8. \A b \in Bins : update_pair(pair_counts, buffer)[b] \in 0 .. total_pairs
  BY <1>1, <1>2, <1>5, <1>6, <1>7, TotalPairs
<1>9. update_pair(pair_counts, buffer) \in [Bins -> Nat]
  BY <1>1, <1>2, <1>7
<1> QED BY <1>8, <1>9 DEF buffer

LEMMA Remainder ==
  ASSUME NEW a \in Nat, NEW n \in Nat \ {0}
  PROVE  a % n \in 0 .. n - 1
OBVIOUS

LEMMA SendTypes ==
  ASSUME PoolTypeOK, NEW w \in WorkerIds, NEW p \in Pairs, Send(w, PlayPair(p))
  PROVE  cmds' \in [WorkerIds -> Seq([op : {"pair", "quit"}, pair : Pairs \cup {0}])]
<1>1. Append(cmds[w], PlayPair(p)) \in Seq(CommandType)
  BY CommandTypes, AppendProperties DEF PoolTypeOK, CommandType
<1> QED BY <1>1 DEF Send, PoolTypeOK, CommandType

LEMMA ScoresTyped ==
  ASSUME TypeOK, NEW w \in WorkerIds, NEW s \in 0 .. 2
  PROVE  [pair_score_buffers EXCEPT ![w] = Append(@, s)] \in [WorkerIds -> Seq(0 .. 2)]
<1>1. Append(pair_score_buffers[w], s) \in Seq(0 .. 2)
  BY AppendProperties DEF TypeOK
<1> QED BY <1>1 DEF TypeOK

\* What was handled and what is outstanding make up what was dispatched.
LEMMA OutstandingGames ==
  ASSUME NEW S \in SUBSET Dispatched, pairs_dispatched \in 0 .. total_pairs
  PROVE  /\ IsFiniteSet(S) /\ Cardinality(S) \in Nat
         /\ Outstanding(S) = Cardinality(Dispatched \ S)
         /\ Outstanding(S) \in Nat
         /\ Cardinality(S) + Outstanding(S) = 2 * pairs_dispatched
         /\ Cardinality(S) + Outstanding(S) <= MaxGames
<1>1. IsFiniteSet(Dispatched) /\ Cardinality(Dispatched) = 2 * pairs_dispatched
  BY TotalPairs, FS_Interval DEF Dispatched
<1>2. {i \in Games : i <= 2 * pairs_dispatched} = Dispatched
  BY GamesUpTo DEF Dispatched
<1>3. Outstanding(S) = Cardinality(Dispatched \ S)
  BY <1>2 DEF Outstanding
<1>4. Dispatched \cap S = S
  OBVIOUS
<1>5. Cardinality(Dispatched \ S) = Cardinality(Dispatched) - Cardinality(Dispatched \cap S)
  BY <1>1, FS_Difference
<1>6. IsFiniteSet(S) /\ IsFiniteSet(Dispatched \ S)
  BY <1>1, FS_Subset, FS_Difference
<1>7. Cardinality(S) \in Nat /\ Cardinality(Dispatched \ S) \in Nat
  BY <1>6, FS_CardinalityType
<1>8. 2 * pairs_dispatched \in Nat /\ 2 * pairs_dispatched <= MaxGames
  BY TotalPairs
<1>9. Cardinality(S) + Cardinality(Dispatched \ S) = 2 * pairs_dispatched
  <2>1. Cardinality(Dispatched \cap S) = Cardinality(S)
    BY <1>4
  <2>2. Cardinality(Dispatched \ S) = 2 * pairs_dispatched - Cardinality(S)
    BY <1>1, <1>5, <2>1
  <2> QED BY <2>2, <1>7, <1>8
<1> QED BY <1>3, <1>6, <1>7, <1>8, <1>9

\* The first report of a match that is handled.
LEMMA HandledGame ==
  ASSUME IInv, HandleGame
  PROVE  /\ Match /\ Report = reports[1] /\ Report.kind = "game"
         /\ Report.worker \in WorkerIds /\ Report.score \in 0 .. 2
         /\ Busy(Report.worker) /\ ~Waiting(Report.worker)
         /\ Report.game \in {GameOf(Report.worker, 0), GameOf(Report.worker, 1)}
         /\ Report.game \in Games \cap Dispatched /\ Report.game \notin handled
         /\ won[Report.game] # "none" /\ Report.score = Worth(Report.game)
<1>1. Report.kind = "game" /\ Match
  BY DEF IInv, TuningInv, HandleGame, Draining
<1>2. /\ Report \in ReportType /\ Report = reports[1] /\ 1 \in 1 .. Len(reports)
  BY HeadOfReports DEF IInv, TypeOK, PoolTypeOK, HandleGame, Hear
<1>3. Report.worker \in WorkerIds /\ Report.score \in 0 .. 2
  BY <1>2 DEF ReportType
<1>4. /\ Busy(Report.worker) /\ ~Waiting(Report.worker)
      /\ Report.game \in {GameOf(Report.worker, 0), GameOf(Report.worker, 1)} \ handled
      /\ won[Report.game] # "none" /\ Report.score = Worth(Report.game)
  BY <1>1, <1>2, <1>3 DEF IInv, MatchInv, MatchCore, ReportInv
<1>5. worker[Report.worker].pair \in Pairs
  BY <1>3, TakenPair DEF IInv, TypeOK
<1>6. worker[Report.worker].pair \in 0 .. pairs_dispatched - 1
  BY <1>1, <1>3, <1>4 DEF IInv, MatchInv, MatchCore, PlaceInv, PairOf
<1>7. Report.game \in Games \cap Dispatched
  <2>1. \A leg \in {0, 1} : GameOf(Report.worker, leg) \in Games \cap Dispatched
    <3>1. pairs_dispatched \in 0 .. total_pairs
      BY DEF IInv, TypeOK
    <3> QED BY <1>5, <1>6, <3>1, GamesType, GamesUpTo DEF GameOf, Dispatched
  <2> QED BY <1>4, <2>1
<1> QED BY <1>1, <1>2, <1>3, <1>4, <1>7

\* And the report of a pair, whose games are both handled by then.
LEMMA HandledPair ==
  ASSUME IInv, HandlePair
  PROVE  /\ Match /\ Report = reports[1] /\ Report.kind = "pair"
         /\ Report.worker \in WorkerIds
         /\ Busy(Report.worker) /\ ~Waiting(Report.worker)
         /\ worker[Report.worker].pair \in Pairs
         /\ PairOf(Report.worker) = worker[Report.worker].pair
         /\ GameOf(Report.worker, 0) \in handled /\ GameOf(Report.worker, 1) \in handled
         /\ pair_score_buffers[Report.worker] =
              <<Worth(GameOf(Report.worker, 0)), Worth(GameOf(Report.worker, 1))>>
<1>1. Report.kind = "pair" /\ Match /\ cpc = "drain"
  BY DEF IInv, TuningInv, HandlePair, Draining
<1>2. /\ Report \in ReportType /\ Report = reports[1] /\ 1 \in 1 .. Len(reports)
  BY HeadOfReports DEF IInv, TypeOK, PoolTypeOK, HandlePair, Hear
<1>3. Report.worker \in WorkerIds
  BY <1>2 DEF ReportType
<1>4. Busy(Report.worker) /\ ~Waiting(Report.worker)
  BY <1>1, <1>2, <1>3 DEF IInv, MatchInv, MatchCore, ReportInv
<1>5. worker[Report.worker].pair \in Pairs
  BY <1>3, TakenPair DEF IInv, TypeOK
<1>6. \A leg \in {0, 1} : GameOf(Report.worker, leg) \in handled
  <2>1. \A g : ~Reported(g, 0)
    BY DEF Reported
  <2> QED BY <1>1, <1>2, <1>3, <2>1 DEF IInv, MatchInv, MatchCore, OrderInv
<1>7. pair_score_buffers[Report.worker] = Scores(Report.worker)
  BY <1>1, <1>3 DEF IInv, MatchInv, MatchCore, BufferInv
<1> QED BY <1>1, <1>2, <1>3, <1>4, <1>5, <1>6, <1>7 DEF Scores, PairOf

\* A report of a game names one.
LEMMA ReportsPreserved ==
  ASSUME IInv, [Next]_vars
  PROVE  NamedInv'
<1> DEFINE Named(q) == \A i \in 1 .. Len(q) : q[i].kind = "game" => q[i].game \in Games
<1>1. Named(reports) /\ reports \in Seq(ReportType) /\ PoolTypeOK
  BY DEF IInv, TypeOK, PoolTypeOK, NamedInv
<1>2. ASSUME Hear PROVE Named(reports')
  <2>1. /\ Len(reports) \in Nat /\ Len(reports') = Len(reports) - 1
        /\ \A i \in 1 .. Len(reports) - 1 : reports'[i] = reports[i + 1]
    BY <1>1, <1>2, HeadOfReports DEF Hear
  <2> QED BY <1>1, <2>1
<1>3. ASSUME NEW r \in ReportType, Say(r), r.kind = "game" => r.game \in Games
      PROVE  Named(reports')
  BY <1>1, <1>3, AppendProperties DEF Say
<1> HIDE DEF Named
<1>4. ASSUME NEW w \in WorkerIds, NEW winner \in Results, Ends(w, winner)
      PROVE  Named(reports')
  <2> DEFINE leg == worker[w].leg
             i == game_index(worker[w].pair, leg)
             color == IF winner = "draw" THEN "draw" ELSE ColorOf(winner, leg)
             score == compute_clawfish_score(color, leg = 0)
  <2>1. leg \in {0, 1}
    BY <1>1 DEF PoolTypeOK
  <2>2. i \in Games /\ score \in 0 .. 2
    BY <1>1, <2>1, GamesType, TakenPair, ScoreIsWorth
  <2>3. Say(GameComplete(w, i, score))
    BY <1>4 DEF Ends
  <2>4. GameComplete(w, i, score) \in ReportType /\ GameComplete(w, i, score).game = i
    BY <2>2, ReportTypes DEF GameComplete
  <2> QED BY <2>2, <2>3, <2>4, <1>3
<1>5. ASSUME NEW w \in WorkerIds, Worker(w) PROVE Named(reports')
  <2>0. 0 \in Nat /\ \A r \in {Failure(w), PairComplete(w)} : r \in ReportType /\ r.kind # "game"
    BY DEF Failure, PairComplete, ReportType
  <2>1. CASE \E r \in {Failure(w), PairComplete(w)} : Say(r)
    BY <2>0, <2>1, <1>3
  <2>2. CASE \E winner \in Results : Ends(w, winner)
    BY <2>2, <1>4
  <2>3. CASE UNCHANGED reports
    BY <2>3, <1>1 DEF Named
  <2>4. Players \subseteq Results /\ Winners \subseteq Results
    BY PoolAssumption DEF Results
  <2> QED
    BY <1>5, <2>1, <2>2, <2>3, <2>4
    DEF Worker, WorkerStep, Handshake, Take, Disconnected, Sync, Starved, Play,
        Spoil, ReportPair, Shutdown
<1>6. ASSUME UNCHANGED reports PROVE Named(reports')
  BY <1>1, <1>6
<1>7. CASE Controller
  <2>1. Hear \/ UNCHANGED reports
    BY <1>7
    DEF Controller, Bootstrap, Bootstrapped, HandleGame, HandlePair, HandleFailure,
        StopDraining, QuitAll, ReturnError, ReturnOk, SpsaFails, SpsaDispatch,
        SpsaHandle, SpsaStep
  <2> QED BY <1>2, <1>6, <2>1 DEF Named, NamedInv
<1>8. ASSUME UNCHANGED vars PROVE Named(reports')
  BY <1>6, <1>8
<1> QED BY <1>5, <1>7, <1>8 DEF Next, Finished, Named, NamedInv

LEMMA TypePreserved ==
  ASSUME IInv, [Next]_vars
  PROVE  TypeOK' /\ TuningInv'
<1> USE DEF IInv, TypeOK, TuningInv, Match
<1> USE HarnessAssumption, PoolAssumption, TotalPairs
<1>1. CASE Bootstrap
  <2>1. slot \in WorkerIds /\ pairs_dispatched \in Pairs /\ slot + 1 <= NWorkers
    <3>1. slot < NWorkers /\ slot \in Nat /\ pairs_dispatched < total_pairs
          /\ pairs_dispatched \in Nat /\ NWorkers \in Nat
      BY <1>1 DEF Bootstrap
    <3> HIDE DEF IInv, TypeOK, TuningInv
    <3> QED BY <3>1 DEF WorkerIds
  <2>2. CASE slot \in Gone
    BY <1>1, <2>2 DEF Bootstrap, PoolTypeOK, UNCHANGED_Workers
  <2>3. CASE slot \notin Gone
    <3>1. pairs_in_flight[slot] = 0
      BY <1>1, <2>1 DEF MatchInv, MatchCore, PhaseInv, Busy, Bootstrap
    <3>2. cmds' \in [WorkerIds -> Seq([op : {"pair", "quit"}, pair : Pairs \cup {0}])]
      BY <1>1, <2>1, <2>3, SendTypes DEF Bootstrap
    <3>3. PoolTypeOK'
      BY <1>1, <2>3, <3>2 DEF Bootstrap, PoolTypeOK, UNCHANGED_Workers
    <3>4. pairs_in_flight' \in [WorkerIds -> {0, 1}]
      <4>1. pairs_in_flight' = [pairs_in_flight EXCEPT ![slot] = @ + 1]
            /\ pairs_in_flight \in [WorkerIds -> {0, 1}]
        BY <1>1, <2>3 DEF Bootstrap
      <4> QED BY <2>1, <3>1, <4>1
    <3>5. /\ slot' = slot + 1 /\ pairs_dispatched' = pairs_dispatched + 1
          /\ slot' \in 0 .. NWorkers + PairsPerIter /\ pairs_dispatched' \in 0 .. total_pairs
      <4>1. slot' = slot + 1 /\ pairs_dispatched' = pairs_dispatched + 1
        BY <1>1, <2>3 DEF Bootstrap
      <4>2. NWorkers \in Nat /\ PairsPerIter \in Nat /\ slot \in Nat
            /\ pairs_dispatched \in Nat /\ total_pairs \in Nat /\ pairs_dispatched < total_pairs
        BY <1>1, <2>1 DEF Bootstrap
      <4> HIDE DEF IInv, TypeOK, TuningInv
      <4> QED BY <2>1, <4>1, <4>2
    <3>6. UNCHANGED <<mode, cpc, tallyVars, sprtVars, stopVars, failure, spsaVars>>
      BY <1>1, <2>3 DEF Bootstrap
    <3>7. cpc = "bootstrap"
      BY <1>1 DEF Bootstrap
    <3> QED BY <2>1, <3>3, <3>4, <3>5, <3>6, <3>7
  <2> QED BY <2>2, <2>3
<1>2. CASE Bootstrapped \/ StopDraining \/ ReturnError
  <2>1. UNCHANGED <<poolVars, mode, slot, dispatchVars, tallyVars, sprtVars,
                   stopVars, failure, spsaVars>>
        /\ cpc' \in {"drain", "quit", "failed"} /\ (cpc' = "drain" => Match)
    BY <1>2 DEF Bootstrapped, StopDraining, ReturnError
  <2>2. PoolTypeOK'
    BY <2>1 DEF PoolTypeOK
  <2> QED BY <2>1, <2>2
<1>3. CASE HandleGame
  <2>1. Report \in ReportType /\ Tail(reports) \in Seq(ReportType)
    BY <1>3, HeadOfReports DEF HandleGame, Hear, PoolTypeOK
  <2>2. Report.worker \in WorkerIds /\ Report.score \in 0 .. 2
    BY <2>1 DEF ReportType
  <2>3. Report.game \in Games \cap Dispatched
    BY <1>3, HandledGame
  <2>4. PoolTypeOK'
    BY <1>3, <2>1 DEF HandleGame, Hear, PoolTypeOK, UNCHANGED_Workers
  <2>5. pair_score_buffers' \in [WorkerIds -> Seq(0 .. 2)]
    BY <1>3, <2>2, ScoresTyped DEF HandleGame
  <2>6. limit' \in 0 .. MaxGames
    <3>1. handled' \subseteq Dispatched
      BY <1>3, <2>3, HandledGame DEF HandleGame, MatchInv, MatchCore, HandledInv
    <3>2. t' = Cardinality(handled')
      <4>1. IsFiniteSet(handled) /\ t = Cardinality(handled)
        BY <1>3, HandledGame, OutstandingGames DEF MatchInv, MatchCore, HandledInv
      <4>2. handled' = handled \cup {Report.game} /\ t' = t + 1 /\ Report.game \notin handled
        BY <1>3, HandledGame DEF HandleGame
      <4>3. Cardinality(handled \cup {Report.game}) = Cardinality(handled) + 1
        BY <4>1, <4>2, FS_AddElement
      <4> QED BY <4>1, <4>2, <4>3
    <3>3. limit' = limit \/ limit' = t' + Outstanding(handled')
      BY <1>3 DEF HandleGame
    <3>4. t' + Outstanding(handled') \in 0 .. MaxGames
      <4>1. handled' \in SUBSET Dispatched /\ pairs_dispatched \in 0 .. total_pairs
        BY <3>1
      <4>2. /\ Cardinality(handled') \in Nat /\ Outstanding(handled') \in Nat
            /\ Cardinality(handled') + Outstanding(handled') <= MaxGames
        <5> HIDE DEF IInv, TypeOK, TuningInv
        <5> QED BY <4>1, OutstandingGames
      <4> HIDE DEF IInv, TypeOK, TuningInv
      <4> QED BY <3>2, <4>2
    <3> QED BY <3>3, <3>4
  <2>7. /\ t < MaxGames /\ t' = t + 1 /\ handled' = handled \cup {Report.game}
        /\ wins' = wins + (IF Report.score = 2 THEN 1 ELSE 0)
        /\ losses' = losses + (IF Report.score = 0 THEN 1 ELSE 0)
        /\ draws' = draws + (IF Report.score = 1 THEN 1 ELSE 0)
        /\ UNCHANGED <<mode, cpc, slot, dispatchVars, sprtVars, failure, spsaVars>>
    BY <1>3 DEF HandleGame, Draining
  <2>8. wins' + losses' + draws' = t' /\ t' \in 0 .. MaxGames
        /\ {wins', losses', draws'} \subseteq 0 .. MaxGames
    <3>1. /\ {t, wins, losses, draws, MaxGames} \subseteq Nat
          /\ wins + losses + draws = t
      OBVIOUS
    <3> HIDE DEF IInv, TypeOK, TuningInv
    <3> QED BY <2>2, <2>7, <3>1
  <2>9. terminating' \in BOOLEAN /\ stop_reason' \in {"max_games", "sigma", "H0", "H1"}
    BY <1>3 DEF HandleGame
  <2> QED BY <2>3, <2>4, <2>5, <2>6, <2>7, <2>8, <2>9
<1>4. CASE HandlePair
  <2> DEFINE w == Report.worker
             counts == update_pair(pair_counts, pair_score_buffers[w])
  <2>1. w \in WorkerIds /\ Tail(reports) \in Seq(ReportType)
    BY <1>4, HandledPair, HeadOfReports DEF HandlePair, Hear, PoolTypeOK
  <2>2. counts \in [Bins -> 0 .. total_pairs]
    BY <1>4, <2>1, HandledPair, CountsBounded
  <2>3. PICK ruling \in {"continue", LlrVerdict(counts)} :
          IF Decides(ruling)
          THEN /\ terminating' = TRUE /\ stop_reason' = ruling
               /\ limit' = t + Outstanding(handled)
          ELSE UNCHANGED stopVars
    BY <1>4 DEF HandlePair
  <2>4. stop_reason' \in {"max_games", "sigma", "H0", "H1"} /\ terminating' \in BOOLEAN
    BY <2>2, <2>3 DEF Decides
  <2>5. limit' \in 0 .. MaxGames
    <3>1. handled \subseteq Dispatched /\ t = Cardinality(handled)
      BY <1>4, HandledPair DEF MatchInv, MatchCore, HandledInv
    <3>2. t + Outstanding(handled) \in 0 .. MaxGames
      <4>1. handled \in SUBSET Dispatched /\ pairs_dispatched \in 0 .. total_pairs
        BY <3>1
      <4>2. /\ Cardinality(handled) \in Nat /\ Outstanding(handled) \in Nat
            /\ Cardinality(handled) + Outstanding(handled) <= MaxGames
        <5> HIDE DEF IInv, TypeOK, TuningInv
        <5> QED BY <4>1, OutstandingGames
      <4> HIDE DEF IInv, TypeOK, TuningInv
      <4> QED BY <3>1, <4>2
    <3> QED BY <2>3, <3>2
  <2>6. PICK dispatches \in BOOLEAN :
          /\ dispatches => pairs_dispatched < total_pairs
          /\ pairs_in_flight' = [pairs_in_flight EXCEPT ![w] =
               Fewer(@) + (IF dispatches THEN 1 ELSE 0)]
          /\ IF dispatches
             THEN /\ Send(w, PlayPair(pairs_dispatched))
                  /\ pairs_dispatched' = pairs_dispatched + 1
             ELSE UNCHANGED <<cmds, pairs_dispatched>>
    <3> HIDE DEF IInv, TypeOK, TuningInv
    <3>1. PICK dispatches \in BOOLEAN :
          /\ dispatches => MayDispatch
          /\ pairs_in_flight' = [pairs_in_flight EXCEPT ![w] =
               Fewer(@) + (IF dispatches THEN 1 ELSE 0)]
          /\ IF dispatches
             THEN /\ Send(w, PlayPair(pairs_dispatched))
                  /\ pairs_dispatched' = pairs_dispatched + 1
             ELSE UNCHANGED <<cmds, pairs_dispatched>>
      <4> DEFINE buffer == pair_score_buffers[w]
                 verdict == IF mode = "sprt" /\ Len(buffer) = 2 THEN LlrVerdict(counts)
                            ELSE "continue"
                 dispatched == MayDispatch /\ ~Decides(verdict) /\ w \notin Gone
      <4>1. /\ pairs_in_flight' = [pairs_in_flight EXCEPT ![w] =
                 Fewer(@) + (IF dispatched THEN 1 ELSE 0)]
            /\ IF dispatched
               THEN /\ Send(w, PlayPair(pairs_dispatched))
                    /\ pairs_dispatched' = pairs_dispatched + 1
               ELSE UNCHANGED <<cmds, pairs_dispatched>>
        BY <1>4 DEF HandlePair
      <4>2. dispatched => MayDispatch
        OBVIOUS
      <4> HIDE DEF dispatched
      <4>3. CASE dispatched
        BY <4>1, <4>2, <4>3
      <4>4. CASE ~dispatched
        BY <4>1, <4>4
      <4> QED BY <4>3, <4>4
    <3> QED BY <3>1 DEF MayDispatch
  <2>7. cmds' \in [WorkerIds -> Seq([op : {"pair", "quit"}, pair : Pairs \cup {0}])]
    <3>1. dispatches => pairs_dispatched \in Pairs
      BY SMTT(40), <2>6
    <3> QED BY <2>1, <2>6, <3>1, SendTypes DEF PoolTypeOK
  <2>8. pairs_in_flight' \in [WorkerIds -> {0, 1}] /\ pairs_dispatched' \in 0 .. total_pairs
    <3>1. pairs_in_flight[w] = 1
      BY <1>4, HandledPair DEF Busy
    <3> QED BY <2>1, <2>6, <3>1 DEF Fewer
  <2>9. pair_score_buffers' \in [WorkerIds -> Seq(0 .. 2)]
    <3>1. pair_score_buffers' = [pair_score_buffers EXCEPT ![w] = <<>>]
      BY <1>4 DEF HandlePair
    <3> QED BY <3>1, EmptySeq
  <2>10. PoolTypeOK'
    BY <1>4, <2>1, <2>7 DEF HandlePair, Hear, PoolTypeOK, UNCHANGED_Workers
  <2>11. pair_counts' \in Counts
    BY <1>4, <2>2 DEF HandlePair, Counts
  <2>12. UNCHANGED <<mode, cpc, slot, t, wins, losses, draws, handled,
                     discarded_singletons, failure, spsaVars>>
    BY <1>4 DEF HandlePair
  <2> QED BY <2>4, <2>5, <2>8, <2>9, <2>10, <2>11, <2>12
<1>5. CASE HandleFailure
  <2>1. Tail(reports) \in Seq(ReportType)
    BY <1>5, HeadOfReports DEF HandleFailure, Hear, PoolTypeOK
  <2> QED BY <1>5, <2>1 DEF HandleFailure, Hear, PoolTypeOK, UNCHANGED_Workers
<1>6. CASE QuitAll
  <2>1. cmds' \in [WorkerIds -> Seq([op : {"pair", "quit"}, pair : Pairs \cup {0}])]
    <3>1. \A w \in WorkerIds : Append(cmds[w], QuitCmd) \in Seq(CommandType)
      BY CommandTypes, AppendProperties DEF PoolTypeOK, CommandType
    <3> QED BY <1>6, <3>1 DEF QuitAll, CommandType
  <2> QED BY <1>6, <2>1 DEF QuitAll, PoolTypeOK, UNCHANGED_Workers
<1>7. CASE ReturnOk
  <2>1. pair_counts' \in Counts
    <3>1. \A b \in Bins : Cardinality(Ready(b)) \in Nat /\ pair_counts[b] \in Nat
      BY BufferSets DEF Counts
    <3>2. pair_counts' = [b \in Bins |-> pair_counts[b] + Cardinality(Ready(b))]
      BY <1>7 DEF ReturnOk, FoldLeftovers, Ready, Buffered
    <3> QED BY <3>1, <3>2 DEF Counts
  <2>2. discarded_singletons' \in Nat
    <3>1. discarded_singletons' = discarded_singletons + Cardinality(Buffered(1))
      BY <1>7 DEF ReturnOk, Buffered
    <3>2. Cardinality(Buffered(1)) \in Nat
      BY BufferSets
    <3> QED BY SMTT(40), <3>1, <3>2
  <2>3. pair_score_buffers' \in [WorkerIds -> Seq(0 .. 2)]
    BY <1>7 DEF ReturnOk
  <2> QED BY <1>7, <2>1, <2>2, <2>3 DEF ReturnOk, PoolTypeOK
<1>8. CASE SpsaFails
  <2>1. reports' \in Seq(ReportType)
    BY <1>8, HeadOfReports DEF SpsaFails, Hear, PoolTypeOK
  <2> QED BY <1>8, <2>1 DEF SpsaFails, PoolTypeOK, UNCHANGED_Workers
<1>9. CASE SpsaDispatch
  <2>0. /\ slot \in 0 .. PairsPerIter - 1 /\ iter \in 0 .. NIters - 1
        /\ NWorkers \in Nat \ {0}
    <3>1. /\ slot \in 0 .. NWorkers + PairsPerIter /\ slot < PairsPerIter
          /\ iter \in 0 .. NIters /\ iter < NIters
          /\ NIters \in Nat /\ PairsPerIter \in Nat /\ NWorkers \in Nat \ {0}
      BY <1>9 DEF SpsaDispatch
    <3> HIDE DEF IInv, TypeOK, TuningInv
    <3> QED BY <3>1
  <2>1. slot % NWorkers \in WorkerIds
    <3>1. slot \in Nat
      BY <2>0
    <3> HIDE DEF IInv, TypeOK, TuningInv
    <3> QED BY <2>0, <3>1, Remainder DEF WorkerIds
  <2>2. iter * PairsPerIter + slot \in Pairs
    BY <2>0, TuningPair
  <2>3. cmds' \in [WorkerIds -> Seq([op : {"pair", "quit"}, pair : Pairs \cup {0}])]
    BY <1>9, <2>1, <2>2, SendTypes DEF SpsaDispatch
  <2>4. slot' = slot + 1 /\ slot' <= PairsPerIter
        /\ cpc' = IF slot' = PairsPerIter THEN "barrier" ELSE cpc
    BY <1>9 DEF SpsaDispatch
  <2>5. UNCHANGED <<worker, alive, won, faults, open, reports, mode, dispatchVars, tallyVars,
                   sprtVars, stopVars, failure, spsaVars>> /\ cpc = "dispatch"
    BY <1>9 DEF SpsaDispatch, UNCHANGED_Workers
  <2>6. PoolTypeOK'
    BY <2>3, <2>5 DEF PoolTypeOK
  <2> QED BY <2>4, <2>5, <2>6 DEF MatchInv, MatchCore, PhaseInv
<1>10. CASE SpsaHandle
  <2>1. Report \in ReportType /\ Tail(reports) \in Seq(ReportType)
    BY <1>10, HeadOfReports DEF SpsaHandle, Hear, PoolTypeOK
  <2>2. Report.score \in 0 .. 2 /\ Report.game \in Games \cup {0}
    BY <2>1 DEF ReportType
  <2>3. PoolTypeOK'
    BY <1>10, <2>1 DEF SpsaHandle, Hear, PoolTypeOK, UNCHANGED_Workers
  <2>4. score_sum' \in Nat /\ pairs_complete' \in 0 .. PairsPerIter
    <3>1. \/ score_sum' = score_sum + Report.score /\ UNCHANGED pairs_complete
          \/ pairs_complete' = pairs_complete + 1 /\ UNCHANGED score_sum
      BY <1>10 DEF SpsaHandle
    <3>2. pairs_complete # PairsPerIter /\ pairs_complete \in 0 .. PairsPerIter
          /\ score_sum \in Nat /\ PairsPerIter \in Nat
      BY <1>10 DEF SpsaHandle, BarrierPassed
    <3> HIDE DEF IInv, TypeOK, TuningInv
    <3> QED BY <2>2, <3>1, <3>2
  <2>5. handled' \subseteq Games
    <3>1. Report = reports[1] /\ 1 \in 1 .. Len(reports)
      <4>1. reports \in Seq(ReportType) /\ reports # <<>>
        BY <1>10 DEF SpsaHandle, Hear, PoolTypeOK
      <4>2. Report = reports[1] /\ Len(reports) \in Nat \ {0}
        BY <4>1, HeadOfReports
      <4> HIDE DEF IInv, TypeOK, TuningInv
      <4> QED BY <4>2
    <3>2. Report.kind = "game" => Report.game \in Games
      BY <3>1 DEF NamedInv
    <3> QED BY <1>10, <3>2 DEF SpsaHandle
  <2>6. UNCHANGED <<mode, cpc, slot, dispatchVars, t, wins, losses, draws,
                    pair_score_buffers, sprtVars, stopVars, failure, iter, steps>>
    BY <1>10 DEF SpsaHandle
  <2> QED BY <2>3, <2>4, <2>5, <2>6
<1>11. CASE SpsaStep
  <2>1. steps' \in Seq(Nat)
    BY <1>11, AppendProperties DEF SpsaStep
  <2>2. PoolTypeOK'
    BY <1>11 DEF SpsaStep, PoolTypeOK
  <2>3. /\ iter' = iter + 1 /\ pairs_complete' = 0 /\ score_sum' = 0 /\ slot' = 0
        /\ cpc' = IF iter' = NIters THEN "quit" ELSE "dispatch"
        /\ UNCHANGED <<mode, dispatchVars, tallyVars, sprtVars, stopVars, failure>>
        /\ iter < NIters
    BY <1>11 DEF SpsaStep
  <2>4. ~Match
    BY <1>11 DEF SpsaStep, MatchInv, MatchCore, PhaseInv
  <2> QED BY <2>1, <2>2, <2>3, <2>4
<1>12. ASSUME NEW w \in WorkerIds, Worker(w) PROVE TypeOK' /\ TuningInv'
  <2>1. PoolTypeOK'
    BY <1>12, PoolTypePreserved DEF Worker
  <2> QED BY <1>12, <2>1 DEF Worker
<1>13. CASE UNCHANGED vars
  BY ZenonT(40), <1>13 DEF PoolTypeOK
<1> QED
  BY <1>1, <1>2, <1>3, <1>4, <1>5, <1>6, <1>7, <1>8, <1>9, <1>10, <1>11, <1>12, <1>13
  DEF Next, Controller, Finished

-----------------------------------------------------------------------------
\* The initial states.

LEMMA InitTypes == Init => TypeOK /\ TuningInv /\ NamedInv
<1> SUFFICES ASSUME Init PROVE TypeOK /\ TuningInv /\ NamedInv
  OBVIOUS
<1> USE HarnessAssumption, PoolAssumption, TotalPairs
<1>1. PoolTypeOK
  <2>1. <<>> \in Seq([op : {"pair", "quit"}, pair : Pairs \cup {0}])
        /\ <<>> \in Seq(ReportType)
    BY EmptySeq
  <2> QED BY <2>1 DEF Init, PoolInit, PoolTypeOK
<1>2. <<>> \in Seq(0 .. 2) /\ <<>> \in Seq(Nat)
  BY EmptySeq
<1>3. TypeOK
  <2>1. pair_score_buffers \in [WorkerIds -> Seq(0 .. 2)] /\ steps \in Seq(Nat)
    BY <1>2 DEF Init
  <2>2. /\ slot = 0 /\ pairs_dispatched = 0 /\ t = 0 /\ wins = 0 /\ losses = 0 /\ draws = 0
        /\ iter = 0 /\ pairs_complete = 0 /\ score_sum = 0 /\ limit = MaxGames
        /\ terminating = FALSE /\ stop_reason = "max_games" /\ failure = FALSE
        /\ discarded_singletons = 0 /\ handled = {} /\ mode \in Modes
    BY DEF Init
  <2>3. pairs_in_flight \in [WorkerIds -> {0, 1}] /\ pair_counts \in Counts
    BY DEF Init, Counts
  <2>4. cpc \in {"bootstrap", "drain", "quit", "join", "dispatch", "barrier",
                 "returned", "failed"}
    BY DEF Init
  <2>5. /\ 0 \in 0 .. NWorkers + PairsPerIter /\ 0 \in 0 .. total_pairs
        /\ 0 \in 0 .. MaxGames /\ 0 \in 0 .. NIters /\ 0 \in 0 .. PairsPerIter
        /\ MaxGames \in 0 .. MaxGames
    OBVIOUS
  <2>6. handled \subseteq Games /\ {wins, losses, draws} \subseteq 0 .. MaxGames
    BY <2>2, <2>5
  <2> QED BY <1>1, <2>1, <2>2, <2>3, <2>4, <2>5, <2>6 DEF TypeOK
<1>4. TuningInv /\ NamedInv
  BY DEF Init, PoolInit, TuningInv, NamedInv, Match
<1> QED BY <1>3, <1>4

LEMMA InitMatch == Init /\ Match => MatchInv
<1> SUFFICES ASSUME Init, Match PROVE MatchInv
  OBVIOUS
<1> USE HarnessAssumption, PoolAssumption, TotalPairs
<1>1. /\ cpc = "bootstrap" /\ open /\ slot = 0 /\ ~terminating /\ limit = MaxGames
      /\ reports = <<>> /\ Len(reports) = 0 /\ handled = {} /\ t = 0
      /\ pairs_dispatched = 0 /\ Dispatched = {} /\ failure = FALSE
  BY DEF Init, PoolInit, Match, Dispatched
<1>2. \A w \in WorkerIds : /\ cmds[w] = <<>> /\ Len(cmds[w]) = 0 /\ pairs_in_flight[w] = 0
                           /\ ~Busy(w) /\ ~Waiting(w) /\ worker[w].pc = "starting"
                           /\ pair_score_buffers[w] = <<>>
  BY DEF Init, PoolInit, Busy, Waiting
<1>3. \A p \in Pairs, leg \in {0, 1} : won[game_index(p, leg)] = "none"
  BY GamesType DEF Init, PoolInit
<1>4. \A g \in Games : won[g] = "none"
  BY DEF Init, PoolInit
<1>5. Cardinality({}) = 0
  BY FS_EmptySet
<1>6. CommandInv /\ PhaseInv /\ PlaceInv /\ OwnerInv
  BY <1>1, <1>2 DEF CommandInv, PhaseInv, PlaceInv, OwnerInv, WorkerIds
<1>7. FreshInv /\ ReportInv /\ OnceInv /\ OrderInv /\ ToldInv /\ StageInv
  BY <1>1, <1>2, <1>3, <1>4
  DEF FreshInv, ReportInv, OnceInv, OrderInv, ToldInv, StageInv
<1>8. BufferInv /\ HandledInv /\ DoneInv
  BY <1>1, <1>2, <1>5 DEF BufferInv, Scores, HandledInv, DoneInv
<1>9. TallyIsTrue
  <2>1. \A result : {i \in handled : won[i] = result} = {}
    BY <1>1
  <2> QED BY <1>1, <1>5, <2>1 DEF Init, TallyIsTrue, Ending
<1>10. Whole
  <2>1. \A b \in Bins : Ready(b) = {} /\ Complete(b) = {} /\ pair_counts[b] = 0
    BY <1>1, <1>2 DEF Init, Ready, Complete, Buffered
  <2>2. Half = {} /\ Buffered(1) = {} /\ discarded_singletons = 0
    BY <1>1, <1>2 DEF Init, Half, Buffered
  <2>3. \A b \in Bins : pair_counts[b] + Cardinality(Ready(b)) = Cardinality(Complete(b))
    BY <1>5, <2>1
  <2>4. discarded_singletons + Cardinality(Buffered(1)) = Cardinality(Half)
    <3>1. Cardinality(Half) = 0 /\ Cardinality(Buffered(1)) = 0
      BY <1>5, <2>2, Zenon
    <3> QED BY <2>2, <3>1
  <2> QED BY <1>1, <2>3, <2>4 DEF Whole
<1> QED BY <1>6, <1>7, <1>8, <1>9, <1>10 DEF MatchCore, MatchInv

-----------------------------------------------------------------------------
\* The steps of a worker.

\* A worker goes on without a report.
LEMMA MovesPreserve ==
  ASSUME TypeOK, MatchCore, NEW w \in WorkerIds,
         Handshake(w) \/ Disconnected(w) \/ Sync(w, FALSE) \/ Shutdown(w),
         UNCHANGED <<mode, cpc, slot, dispatchVars, tallyVars, sprtVars, stopVars, failure>>
  PROVE  MatchCore'
<1>1. UNCHANGED <<cmds, open, reports, won>>
  BY DEF Handshake, Disconnected, Sync, Shutdown
<1>2. PICK pc : /\ worker' = [worker EXCEPT ![w].pc = pc]
                /\ \/ worker[w].pc = "starting" /\ pc = "ready"
                   \/ worker[w].pc = "ready" /\ pc = "leaving" /\ ~open
                   \/ worker[w].pc = "syncing" /\ pc = "newgame"
                   \/ worker[w].pc = "leaving" /\ pc = "gone"
  BY DEF Handshake, Disconnected, Sync, Shutdown, Go, At
<1>3. /\ \A v \in WorkerIds : /\ worker'[v].pair = worker[v].pair
                              /\ worker'[v].leg = worker[v].leg
                              /\ v # w => worker'[v].pc = worker[v].pc
      /\ worker'[w].pc = pc
  BY <1>2 DEF TypeOK, PoolTypeOK
<1>4. \A v \in WorkerIds :
        /\ Busy(v)' <=> Busy(v)
        /\ Waiting(v)' <=> Waiting(v)
        /\ PairOf(v)' = PairOf(v)
        /\ \A leg \in {0, 1} : GameOf(v, leg)' = GameOf(v, leg)
  BY <1>1, <1>3 DEF Busy, Waiting, PairOf, GameOf
<1>5. \A g \in Games : Worth(g)' = Worth(g)
  BY <1>1 DEF Worth
<1>6. CommandInv' /\ PhaseInv' /\ OwnerInv'
  BY <1>1, <1>4 DEF MatchCore, CommandInv, PhaseInv, OwnerInv, Dispatched
<1>7. PlaceInv'
  BY <1>1, <1>2, <1>3, <1>4 DEF MatchCore, PlaceInv
<1>8. FreshInv'
  BY <1>1, <1>2, <1>3, <1>4 DEF MatchCore, FreshInv
<1>9. ReportInv'
  <2>1. \A i \in 1 .. Len(reports) : reports[i].worker \in WorkerIds
    BY ReportFields
  <2> QED BY <1>1, <1>2, <1>3, <1>4, <2>1 DEF MatchCore, ReportInv, Worth
<1>10. OnceInv' /\ OrderInv' /\ ToldInv'
  <2>1. \A i \in 1 .. Len(reports) : reports[i].worker \in WorkerIds
    BY ReportFields
  <2> QED BY SMTT(40), <1>1, <1>4, <2>1 DEF MatchCore, OnceInv, OrderInv, ToldInv, Reported
<1>13. StageInv'
  BY <1>1, <1>2, <1>3, <1>4 DEF MatchCore, StageInv, PlaceInv
<1>11. BufferInv' /\ HandledInv'
  BY <1>1, <1>4 DEF MatchCore, BufferInv, HandledInv, Scores, Worth, Dispatched
<1>12. DoneInv'
  BY <1>1, <1>2, <1>3, <1>4 DEF MatchCore, DoneInv
<1> QED BY <1>6, <1>7, <1>8, <1>9, <1>10, <1>11, <1>12, <1>13 DEF MatchCore

\* The game of a worker that has a pair exists, and has been dispatched.
LEMMA OwnGames ==
  ASSUME TypeOK, NEW w \in WorkerIds
  PROVE  /\ worker[w].pair \in Pairs /\ worker[w].leg \in {0, 1}
         /\ \A leg \in {0, 1} : GameOf(w, leg) \in Games
         /\ GameOf(w, 0) # GameOf(w, 1)
<1>1. worker[w].pair \in Pairs /\ worker[w].leg \in {0, 1}
  BY TakenPair DEF TypeOK, PoolTypeOK
<1>2. worker[w].pair \in Nat
  BY <1>1, TotalPairs
<1> QED BY <1>1, <1>2, GamesType DEF GameOf, game_index

\* The first command of a channel that is not empty.
LEMMA FirstCommand ==
  ASSUME TypeOK, NEW w \in WorkerIds, cmds[w] # <<>>
  PROVE  /\ Head(cmds[w]) = cmds[w][1] /\ 1 \in 1 .. Len(cmds[w])
         /\ Head(cmds[w]).op \in {"pair", "quit"} /\ Head(cmds[w]).pair \in Pairs \cup {0}
         /\ Len(cmds[w]) \in Nat \ {0}
         /\ Len(Tail(cmds[w])) = Len(cmds[w]) - 1
         /\ \A i \in 1 .. Len(Tail(cmds[w])) : /\ Tail(cmds[w])[i] = cmds[w][i + 1]
                                               /\ i + 1 \in 1 .. Len(cmds[w])
<1>1. cmds[w] \in Seq(CommandType)
  BY DEF TypeOK, PoolTypeOK, CommandType
<1>2. /\ Head(cmds[w]) \in CommandType
      /\ Head(cmds[w]) = cmds[w][1] /\ Len(cmds[w]) \in Nat \ {0}
      /\ Len(Tail(cmds[w])) = Len(cmds[w]) - 1
      /\ \A i \in 1 .. Len(cmds[w]) - 1 : Tail(cmds[w])[i] = cmds[w][i + 1]
  BY <1>1, HeadTailProperties, EmptySeq
<1> QED BY <1>2 DEF CommandType

\* A worker whose pair waits, and one that plays, has it in flight.
LEMMA WaitingIsBusy ==
  ASSUME TypeOK, MatchCore, NEW w \in WorkerIds
  PROVE  /\ Waiting(w) => Busy(w)
         /\ worker[w].pc \in {"syncing", "newgame", "paired"} => Busy(w) /\ ~Waiting(w)
<1>1. Waiting(w) => Busy(w)
  BY FirstCommand DEF MatchCore, CommandInv, Waiting
<1> QED BY <1>1 DEF MatchCore, PlaceInv

LEMMA TakePreserves ==
  ASSUME TypeOK, MatchCore, NEW w \in WorkerIds, Take(w),
         UNCHANGED <<mode, cpc, slot, dispatchVars, tallyVars, sprtVars, stopVars, failure>>
  PROVE  MatchCore'
<1> DEFINE cmd == Head(cmds[w])
<1>1. /\ worker[w].pc = "ready" /\ cmds[w] # <<>>
      /\ worker' = [worker EXCEPT ![w] =
           IF cmd.op = "quit" THEN [@ EXCEPT !.pc = "leaving"]
           ELSE [pc |-> "syncing", pair |-> cmd.pair, leg |-> 0]]
      /\ cmds' = [cmds EXCEPT ![w] = Tail(@)]
      /\ UNCHANGED <<open, reports, won>>
  BY DEF Take, At
<1>2. /\ cmd = cmds[w][1] /\ 1 \in 1 .. Len(cmds[w])
      /\ cmd.op \in {"pair", "quit"} /\ Len(cmds[w]) \in Nat \ {0}
      /\ Len(Tail(cmds[w])) = Len(cmds[w]) - 1
      /\ \A i \in 1 .. Len(Tail(cmds[w])) : /\ Tail(cmds[w])[i] = cmds[w][i + 1]
                                            /\ i + 1 \in 1 .. Len(cmds[w])
  BY <1>1, FirstCommand
<1>3. \A v \in WorkerIds \ {w} : worker'[v] = worker[v] /\ cmds'[v] = cmds[v]
  BY <1>1 DEF TypeOK, PoolTypeOK
<1>4. /\ cmds'[w] = Tail(cmds[w])
      /\ cmd.op = "quit" => /\ worker'[w].pc = "leaving" /\ worker'[w].pair = worker[w].pair
                            /\ worker'[w].leg = worker[w].leg
      /\ cmd.op = "pair" => /\ worker'[w].pc = "syncing" /\ worker'[w].pair = cmd.pair
                            /\ worker'[w].leg = 0
  BY <1>1, <1>2 DEF TypeOK, PoolTypeOK
<1> HIDE DEF cmd
<1>5. /\ \A i \in 1 .. Len(Tail(cmds[w])) : Tail(cmds[w])[i].op # "pair"
      /\ \A i \in 1 .. Len(Tail(cmds[w])) : Tail(cmds[w])[i].op = "quit" => ~open
      /\ Len(Tail(cmds[w])) <= 1
      /\ cmd.op = "quit" => ~open
      /\ cmd.op = "pair" <=> Waiting(w)
      /\ Waiting(w) => Busy(w)
  BY <1>1, <1>2 DEF MatchCore, CommandInv, Waiting, cmd
<1>6. ~Waiting(w)'
  <2>1. Tail(cmds[w]) \in Seq([op : {"pair", "quit"}, pair : Pairs \cup {0}])
    BY <1>1, HeadTailProperties DEF TypeOK, PoolTypeOK
  <2>2. Tail(cmds[w]) # <<>> =>
          /\ Head(Tail(cmds[w])) = Tail(cmds[w])[1]
          /\ 1 \in 1 .. Len(Tail(cmds[w]))
    BY <2>1, HeadTailProperties, EmptySeq
  <2> QED BY <1>4, <1>5, <2>2 DEF Waiting
<1>7. /\ \A v \in WorkerIds : Busy(v)' <=> Busy(v)
      /\ \A v \in WorkerIds \ {w} :
           /\ Waiting(v)' <=> Waiting(v)
           /\ PairOf(v)' = PairOf(v)
           /\ \A leg \in {0, 1} : GameOf(v, leg)' = GameOf(v, leg)
  BY <1>1, <1>3 DEF Busy, Waiting, PairOf, GameOf
<1>8. /\ PairOf(w)' = PairOf(w)
      /\ ~Waiting(w) => \A leg \in {0, 1} : GameOf(w, leg)' = GameOf(w, leg)
      /\ \A leg \in {0, 1} : GameOf(w, leg)' = game_index(PairOf(w), leg)
  <2>1. CASE Waiting(w)
    BY <1>4, <1>5, <1>6, <2>1 DEF PairOf, GameOf, cmd
  <2>2. CASE ~Waiting(w)
    BY <1>2, <1>4, <1>5, <1>6, <2>2 DEF PairOf, GameOf
  <2> QED BY <2>1, <2>2
<1>9. Waiting(w) => \A leg \in {0, 1} :
        won[GameOf(w, leg)'] = "none" /\ GameOf(w, leg)' \notin handled
  BY <1>8 DEF MatchCore, FreshInv, HandledInv
<1>10. \A i \in 1 .. Len(reports) :
         /\ reports[i].worker \in WorkerIds
         /\ Waiting(w) /\ reports[i].worker = w => reports[i].kind = "failure"
  BY ReportFields DEF MatchCore, ReportInv
<1>11. CommandInv'
  <2>1. Len(Tail(cmds[w])) \in Nat
    BY <1>2
  <2> SUFFICES ASSUME NEW v \in WorkerIds
               PROVE  (/\ Len(cmds[v]) <= 2
                       /\ \A i \in 1 .. Len(cmds[v]) : cmds[v][i].op = "pair" => i = 1 /\ Busy(v)
                       /\ open => Len(cmds[v]) <= 1
                       /\ \A i \in 1 .. Len(cmds[v]) : cmds[v][i].op = "quit" => ~open
                       /\ Len(cmds[v]) = 2 => cmds[v][1].op = "pair")'
    BY DEF CommandInv
  <2>2. CASE v = w
    <3>1. cmds'[v] = Tail(cmds[w]) /\ open' = open
      BY <1>1, <1>4, <2>2
    <3>2. Len(cmds'[v]) \in Nat /\ Len(cmds'[v]) <= 1
      BY <1>5, <2>1, <3>1
    <3>3. \A i \in 1 .. Len(cmds'[v]) : cmds'[v][i].op # "pair"
      BY <1>5, <3>1, Zenon
    <3>4. \A i \in 1 .. Len(cmds'[v]) : cmds'[v][i].op = "quit" => ~open'
      BY <1>5, <3>1, Zenon
    <3> QED BY SMTT(40), <3>2, <3>3, <3>4
  <2>3. CASE v # w
    BY <1>1, <1>3, <1>7, <2>3 DEF MatchCore, CommandInv
  <2> QED BY <2>2, <2>3
<1>12. PhaseInv' /\ OwnerInv' /\ OnceInv' /\ ToldInv' /\ HandledInv'
  BY <1>1, <1>7, <1>8
  DEF MatchCore, PhaseInv, OwnerInv, OnceInv, ToldInv, HandledInv, Reported, Dispatched
<1>13. PlaceInv'
  BY <1>1, <1>3, <1>4, <1>5, <1>6, <1>7, <1>8, <1>2 DEF MatchCore, PlaceInv
<1>14. FreshInv'
  BY SMTT(40), <1>1, <1>3, <1>4, <1>5, <1>6, <1>7, <1>8, <1>9, <1>2 DEF MatchCore, FreshInv, GameOf
<1>15. ReportInv'
  BY <1>1, <1>2, <1>3, <1>4, <1>5, <1>6, <1>7, <1>8, <1>10 DEF MatchCore, ReportInv, Worth
<1>16. OrderInv'
  BY <1>1, <1>7, <1>8, <1>10 DEF MatchCore, OrderInv, Reported
<1>17. StageInv'
  BY <1>1, <1>2, <1>3, <1>4, <1>7, <1>8 DEF MatchCore, StageInv
<1>18. BufferInv'
  <2>1. \A v \in WorkerIds : Scores(v)' = Scores(v)
    BY <1>1, <1>6, <1>7, <1>8, <1>9 DEF Scores, Worth
  <2> QED BY <1>1, <1>6, <1>7, <1>8, <1>9, <2>1 DEF MatchCore, BufferInv
<1>19. DoneInv'
  BY <1>1, <1>2, <1>3, <1>4, <1>5, <1>7, <1>8 DEF MatchCore, DoneInv
<1> QED
  BY <1>11, <1>12, <1>13, <1>14, <1>15, <1>16, <1>17, <1>18, <1>19 DEF MatchCore

LEMMA StarvedPreserves ==
  ASSUME TypeOK, MatchCore, NEW w \in WorkerIds, Starved(w, FALSE),
         UNCHANGED <<mode, cpc, slot, dispatchVars, tallyVars, sprtVars, stopVars, failure>>
  PROVE  MatchCore'
<1>1. /\ reports' = Append(reports, Failure(w))
      /\ worker' = [worker EXCEPT ![w].pc = "leaving"]
      /\ UNCHANGED <<cmds, open, won>>
  BY DEF Starved, Say, Go
<1>2. /\ \A v \in WorkerIds : /\ worker'[v].pair = worker[v].pair
                              /\ worker'[v].leg = worker[v].leg
                              /\ v # w => worker'[v].pc = worker[v].pc
      /\ worker'[w].pc = "leaving"
  BY ZenonT(40), <1>1 DEF TypeOK, PoolTypeOK
<1>3. \A v \in WorkerIds :
        /\ Busy(v)' <=> Busy(v)
        /\ Waiting(v)' <=> Waiting(v)
        /\ PairOf(v)' = PairOf(v)
        /\ \A leg \in {0, 1} : GameOf(v, leg)' = GameOf(v, leg)
  BY <1>1, <1>2 DEF Busy, Waiting, PairOf, GameOf
<1>4. /\ Len(reports) \in Nat /\ Len(reports') = Len(reports) + 1
      /\ \A i \in 1 .. Len(reports) : /\ reports'[i] = reports[i]
                                      /\ reports[i].worker \in WorkerIds
                                      /\ i \in 1 .. Len(reports')
      /\ reports'[Len(reports')].kind = "failure"
      /\ \A i \in 1 .. Len(reports') : i \in 1 .. Len(reports) \/ i = Len(reports')
  <2>1. Failure(w) \in ReportType /\ Failure(w).kind = "failure"
    BY DEF Failure, ReportType
  <2> QED BY <1>1, <2>1, SaidReport
<1>5. /\ \A g : \A n \in 0 .. Len(reports) : Reported(g, n)' <=> Reported(g, n)
      /\ \A g : Reported(g, Len(reports)) => Reported(g, Len(reports))'
  BY <1>4 DEF Reported
<1>7. CommandInv' /\ PhaseInv' /\ OwnerInv'
  BY <1>1, <1>3 DEF MatchCore, CommandInv, PhaseInv, OwnerInv, Dispatched
<1>8. PlaceInv' /\ FreshInv'
  BY <1>1, <1>2, <1>3 DEF MatchCore, PlaceInv, FreshInv
<1>9. ReportInv'
  BY <1>1, <1>2, <1>3, <1>4 DEF MatchCore, ReportInv, Worth
<1>10. OnceInv'
  BY <1>4 DEF MatchCore, OnceInv
<1>11. OrderInv'
  BY <1>3, <1>4, <1>5 DEF MatchCore, OrderInv
<1>12. ToldInv'
  BY <1>1, <1>5 DEF MatchCore, ToldInv
<1>13. StageInv'
  BY <1>1, <1>2, <1>3 DEF MatchCore, StageInv
<1>14. BufferInv' /\ HandledInv'
  BY <1>1, <1>3 DEF MatchCore, BufferInv, HandledInv, Scores, Worth, Dispatched
<1>15. DoneInv'
  <2>1. Len(reports') \in 1 .. Len(reports')
    BY <1>4
  <2> QED BY <1>1, <1>3, <1>4, <2>1 DEF MatchCore, DoneInv
<1> QED
  BY <1>7, <1>8, <1>9, <1>10, <1>11, <1>12, <1>13, <1>14, <1>15 DEF MatchCore

LEMMA ReportPairPreserves ==
  ASSUME TypeOK, MatchCore, NEW w \in WorkerIds, ReportPair(w),
         UNCHANGED <<mode, cpc, slot, dispatchVars, tallyVars, sprtVars, stopVars, failure>>
  PROVE  MatchCore'
<1>1. /\ reports' = Append(reports, PairComplete(w))
      /\ worker[w].pc = "paired"
      /\ worker' = [worker EXCEPT ![w].pc = "ready"]
      /\ UNCHANGED <<cmds, open, won>>
  BY DEF ReportPair, Say, Go, At
<1>2. /\ \A v \in WorkerIds : /\ worker'[v].pair = worker[v].pair
                              /\ worker'[v].leg = worker[v].leg
                              /\ v # w => worker'[v].pc = worker[v].pc
      /\ worker'[w].pc = "ready"
  BY <1>1 DEF TypeOK, PoolTypeOK
<1>3. \A v \in WorkerIds :
        /\ Busy(v)' <=> Busy(v)
        /\ Waiting(v)' <=> Waiting(v)
        /\ PairOf(v)' = PairOf(v)
        /\ \A leg \in {0, 1} : GameOf(v, leg)' = GameOf(v, leg)
  BY <1>1, <1>2 DEF Busy, Waiting, PairOf, GameOf
<1>4. /\ Len(reports) \in Nat /\ Len(reports') = Len(reports) + 1
      /\ \A i \in 1 .. Len(reports) : /\ reports'[i] = reports[i]
                                      /\ reports[i].worker \in WorkerIds
                                      /\ i \in 1 .. Len(reports')
      /\ reports'[Len(reports')].kind = "pair" /\ reports'[Len(reports')].worker = w
      /\ \A i \in 1 .. Len(reports') : i \in 1 .. Len(reports) \/ i = Len(reports')
  <2>1. /\ PairComplete(w) \in ReportType /\ PairComplete(w).kind = "pair"
        /\ PairComplete(w).worker = w
    BY DEF PairComplete, ReportType
  <2> QED BY <1>1, <2>1, SaidReport
<1>5. /\ \A g : \A n \in 0 .. Len(reports) : Reported(g, n)' <=> Reported(g, n)
      /\ \A g : Reported(g, Len(reports)) => Reported(g, Len(reports))'
  BY <1>4 DEF Reported
<1>6. Busy(w) /\ ~Waiting(w)
  BY <1>1, WaitingIsBusy
<1>7. CommandInv' /\ PhaseInv' /\ OwnerInv'
  BY <1>1, <1>3 DEF MatchCore, CommandInv, PhaseInv, OwnerInv, Dispatched
<1>8. PlaceInv' /\ FreshInv'
  BY <1>1, <1>2, <1>3 DEF MatchCore, PlaceInv, FreshInv
<1>9. ReportInv'
  BY <1>1, <1>2, <1>3, <1>4, <1>6 DEF MatchCore, ReportInv, Worth
<1>10. OnceInv'
  <2>1. \A i \in 1 .. Len(reports) : reports[i].kind = "pair" => reports[i].worker # w
    BY <1>1 DEF MatchCore, ReportInv
  <2> QED BY <1>4, <2>1 DEF MatchCore, OnceInv
<1>11. OrderInv'
  <2>1. \A leg \in {0, 1} : GameOf(w, leg) \in handled \/ Reported(GameOf(w, leg), Len(reports))
    BY <1>1, OwnGames DEF MatchCore, StageInv, ToldInv
  <2> SUFFICES ASSUME NEW i \in 1 .. Len(reports'), NEW v \in WorkerIds,
                      NEW leg \in {0, 1}, reports'[i].worker = v,
                      \/ reports'[i].kind = "pair"
                      \/ /\ reports'[i].kind = "game" /\ reports'[i].game = GameOf(v, 1)
                         /\ leg = 0
               PROVE  \/ GameOf(v, leg) \in handled
                      \/ \E j \in 1 .. i - 1 :
                           reports'[j].kind = "game" /\ reports'[j].game = GameOf(v, leg)
    BY <1>3 DEF OrderInv, Reported
  <2>3. CASE i \in 1 .. Len(reports)
    BY SMTT(40), <1>4, <2>3 DEF MatchCore, OrderInv, Reported
  <2>4. CASE i = Len(reports')
    <3>1. i - 1 = Len(reports) /\ v = w
      BY <1>4, <2>4
    <3> QED BY <1>4, <2>1, <3>1 DEF Reported
  <2> QED BY <1>4, <2>3, <2>4
<1>12. ToldInv'
  <2>1. \A g : Reported(g, Len(reports)) => \E j \in 1 .. Len(reports') :
                  reports'[j].kind = "game" /\ reports'[j].game = g
    BY <1>4 DEF Reported
  <2> QED BY <1>1, <2>1 DEF MatchCore, ToldInv, Reported
<1>13. StageInv'
  BY <1>1, <1>2, <1>3 DEF MatchCore, StageInv
<1>14. BufferInv' /\ HandledInv'
  BY <1>1, <1>3 DEF MatchCore, BufferInv, HandledInv, Scores, Worth, Dispatched
<1>15. DoneInv'
  BY <1>1, <1>2, <1>3, <1>4 DEF MatchCore, DoneInv
<1> QED
  BY <1>7, <1>8, <1>9, <1>10, <1>11, <1>12, <1>13, <1>14, <1>15 DEF MatchCore

\* A game ends: it was not played before.
LEMMA EndsPreserves ==
  ASSUME TypeOK, MatchCore, NEW w \in WorkerIds, NEW winner \in Results, Ends(w, winner),
         UNCHANGED <<cmds, open, mode, cpc, slot, dispatchVars, tallyVars, sprtVars,
                     stopVars, failure>>
  PROVE  /\ MatchCore'
         /\ \A g \in handled : won'[g] = won[g]
<1> DEFINE leg == worker[w].leg
           g == GameOf(w, leg)
           color == IF winner = "draw" THEN "draw" ELSE ColorOf(winner, leg)
           score == compute_clawfish_score(color, leg = 0)
           report == GameComplete(w, g, score)
<1>1. /\ worker[w].pc = "newgame" /\ reports' = Append(reports, report)
      /\ won' = [won EXCEPT ![g] = winner]
      /\ worker' = [worker EXCEPT ![w].pc = IF leg = 0 THEN "newgame" ELSE "paired",
                                  ![w].leg = 1]
  BY DEF Ends, Say, At, GameOf
<1>2. leg \in {0, 1} /\ g \in Games /\ worker[w].pair \in Nat
  BY OwnGames, TotalPairs
<1>3. /\ score \in 0 .. 2
      /\ score = CASE winner = "engine" -> 2 [] winner = "opponent" -> 0 [] OTHER -> 1
  BY <1>2, ScoreIsWorth
<1> HIDE DEF leg, score, color
<1>4. /\ \A v \in WorkerIds \ {w} : worker'[v] = worker[v]
      /\ worker'[w].pair = worker[w].pair /\ worker'[w].leg = 1
      /\ worker'[w].pc = IF leg = 0 THEN "newgame" ELSE "paired"
  BY <1>1 DEF TypeOK, PoolTypeOK
<1> HIDE DEF g
<1>5. /\ report \in ReportType /\ report.kind = "game" /\ report.worker = w
      /\ report.game = g /\ report.score = score
  BY <1>2, <1>3, ReportTypes DEF GameComplete
<1> HIDE DEF report
<1>6. /\ won'[g] = winner /\ winner # "none"
      /\ \A h \in Games \ {g} : won'[h] = won[h]
  BY <1>1, <1>2 DEF TypeOK, PoolTypeOK, Results, Players
<1>7. \A v \in WorkerIds :
        /\ Busy(v)' <=> Busy(v)
        /\ Waiting(v)' <=> Waiting(v)
        /\ PairOf(v)' = PairOf(v)
        /\ \A l \in {0, 1} : GameOf(v, l)' = GameOf(v, l)
  BY <1>4 DEF Busy, Waiting, PairOf, GameOf
<1>8. /\ Len(reports) \in Nat /\ Len(reports') = Len(reports) + 1
      /\ \A i \in 1 .. Len(reports) : /\ reports'[i] = reports[i]
                                      /\ reports[i].worker \in WorkerIds
                                      /\ i \in 1 .. Len(reports')
      /\ reports'[Len(reports')] = report
      /\ \A i \in 1 .. Len(reports') : i \in 1 .. Len(reports) \/ i = Len(reports')
  BY <1>1, <1>5, SaidReport
<1>9. \A h : Reported(h, Len(reports)) => \E j \in 1 .. Len(reports') :
                reports'[j].kind = "game" /\ reports'[j].game = h
  BY <1>8 DEF Reported
<1>10. Busy(w) /\ ~Waiting(w) /\ PairOf(w) = worker[w].pair
  BY <1>1, WaitingIsBusy DEF PairOf
<1>11. won[g] = "none"
  BY <1>1, <1>2, <1>10 DEF MatchCore, FreshInv, GameOf, g, leg
<1>12. g \notin handled
  BY <1>11 DEF MatchCore, HandledInv
<1>13. handled \subseteq Games
  BY DEF TypeOK
<1>14. \A h \in handled : won'[h] = won[h] /\ Worth(h)' = Worth(h)
  BY <1>6, <1>12, <1>13 DEF Worth
<1>15. CommandInv' /\ PhaseInv' /\ OwnerInv'
  BY <1>7 DEF MatchCore, CommandInv, PhaseInv, OwnerInv, Dispatched
<1>16. PlaceInv'
  BY <1>4, <1>7, <1>10 DEF MatchCore, PlaceInv
<1>17. FreshInv'
  <2>1. PairOf(w) < pairs_dispatched /\ PairOf(w) \in Nat /\ pairs_dispatched \in Nat
    BY <1>10, TotalPairs DEF MatchCore, PlaceInv, TypeOK
  <2>2. ASSUME NEW p \in Pairs, NEW l \in {0, 1}, p >= pairs_dispatched
        PROVE  won'[game_index(p, l)] = "none"
    <3>1. p \in Nat /\ p # PairOf(w)
      BY <2>1, <2>2, TotalPairs
    <3>2. game_index(p, l) # g /\ game_index(p, l) \in Games
      BY <1>2, <1>10, <3>1, GameIndex, GamesType DEF g, GameOf
    <3> QED BY <1>6, <2>2, <3>2 DEF MatchCore, FreshInv
  <2>3. ASSUME NEW v \in WorkerIds, NEW l \in {0, 1},
               \/ Waiting(v)
               \/ worker'[v].pc \in {"syncing", "newgame"} /\ l >= worker'[v].leg
        PROVE  won'[game_index(PairOf(v), l)] = "none"
    <3>1. /\ Busy(v) /\ PairOf(v) \in 0 .. pairs_dispatched - 1
      BY <1>4, <1>10, <2>3, WaitingIsBusy DEF MatchCore, PlaceInv
    <3>2. PairOf(v) \in Nat /\ PairOf(v) \in Pairs
      BY <2>1, <3>1, TotalPairs DEF TypeOK
    <3>3. CASE v = w
      <4>1. leg = 0 /\ l = 1
        BY <1>2, <1>4, <1>10, <2>3, <3>3
      <4>2. game_index(PairOf(w), 1) # g /\ game_index(PairOf(w), 1) \in Games
        BY <1>10, <2>1, <3>2, <3>3, <4>1, GameIndex, GamesType DEF g, GameOf
      <4>3. won[game_index(PairOf(w), 1)] = "none"
        BY <1>1, <4>1 DEF MatchCore, FreshInv, leg
      <4> QED BY <1>6, <3>3, <4>1, <4>2, <4>3
    <3>4. CASE v # w
      <4>1. PairOf(v) # PairOf(w)
        BY <1>10, <3>1, <3>4 DEF MatchCore, OwnerInv
      <4>2. game_index(PairOf(v), l) # g /\ game_index(PairOf(v), l) \in Games
        BY <1>2, <1>10, <3>2, <4>1, GameIndex, GamesType DEF g, GameOf
      <4>3. won[game_index(PairOf(v), l)] = "none"
        BY <1>4, <2>3, <3>4 DEF MatchCore, FreshInv
      <4> QED BY <1>6, <4>2, <4>3
    <3> QED BY <3>3, <3>4
  <2> QED BY <1>7, <2>2, <2>3 DEF FreshInv
<1>18. ReportInv'
  <2> SUFFICES ASSUME NEW i \in 1 .. Len(reports'), NEW v \in WorkerIds,
                      reports'[i].worker = v
               PROVE  /\ reports'[i].kind # "failure" => Busy(v) /\ ~Waiting(v)
                      /\ reports'[i].kind = "game" =>
                           /\ reports'[i].game \in {GameOf(v, 0), GameOf(v, 1)} \ handled
                           /\ won'[reports'[i].game] # "none"
                           /\ reports'[i].score = Worth(reports[i].game)'
                      /\ reports'[i].kind = "pair" =>
                           worker'[v].pc \in {"ready", "leaving", "gone"}
    BY <1>7 DEF ReportInv
  <2>1. CASE i \in 1 .. Len(reports)
    <3>1. reports'[i] = reports[i] /\ reports[i].worker = v
      BY <1>8, <2>1
    <3>2. /\ reports[i].kind # "failure" => Busy(v) /\ ~Waiting(v)
          /\ reports[i].kind = "game" =>
               /\ reports[i].game \in {GameOf(v, 0), GameOf(v, 1)} \ handled
               /\ won[reports[i].game] # "none" /\ reports[i].score = Worth(reports[i].game)
          /\ reports[i].kind = "pair" => worker[v].pc \in {"ready", "leaving", "gone"}
      BY <2>1, <3>1 DEF MatchCore, ReportInv
    <3>3. reports[i].kind = "pair" => worker'[v].pc \in {"ready", "leaving", "gone"}
      BY ZenonT(40), <1>1, <1>4, <3>2
    <3>4. reports[i].kind = "game" => won'[reports[i].game] = won[reports[i].game]
      BY <1>6, <1>11, <3>2, OwnGames
    <3> QED BY <3>1, <3>2, <3>3, <3>4 DEF Worth
  <2>2. CASE i = Len(reports')
    <3>1. /\ reports'[i].kind = "game" /\ v = w /\ reports'[i].game = g
          /\ reports'[i].score = score
      BY <1>5, <1>8, <2>2
    <3>2. g \in {GameOf(w, 0), GameOf(w, 1)} \ handled
      BY <1>2, <1>12 DEF g
    <3>3. Worth(reports[i].game)' = score
      BY <1>3, <1>6, <3>1 DEF Worth
    <3> QED BY <1>6, <1>10, <3>1, <3>2, <3>3
  <2> QED BY <1>8, <2>1, <2>2
<1>19. OnceInv'
  <2>1. \A i \in 1 .. Len(reports) : reports[i].kind = "game" => reports[i].game # g
    BY <1>8, <1>11 DEF MatchCore, ReportInv
  <2> QED BY <1>5, <1>8, <2>1 DEF MatchCore, OnceInv
<1>20. OrderInv'
  <2> SUFFICES ASSUME NEW i \in 1 .. Len(reports'), NEW v \in WorkerIds,
                      NEW l \in {0, 1}, reports'[i].worker = v,
                      \/ reports'[i].kind = "pair"
                      \/ /\ reports'[i].kind = "game" /\ reports'[i].game = GameOf(v, 1)
                         /\ l = 0
               PROVE  \/ GameOf(v, l) \in handled
                      \/ \E j \in 1 .. i - 1 :
                           reports'[j].kind = "game" /\ reports'[j].game = GameOf(v, l)
    BY <1>7 DEF OrderInv, Reported
  <2>1. CASE i \in 1 .. Len(reports)
    BY <1>8, <2>1 DEF MatchCore, OrderInv, Reported
  <2>2. CASE i = Len(reports')
    <3>1. i - 1 = Len(reports) /\ v = w /\ reports'[i].kind = "game"
          /\ reports'[i].game = g
      BY <1>5, <1>8, <2>2
    <3>2. g = GameOf(w, 1) /\ l = 0
      BY <3>1
    <3>3. leg = 1
      BY <1>2, <3>2, OwnGames DEF g
    <3>4. GameOf(w, 0) \in handled \/ Reported(GameOf(w, 0), Len(reports))
      BY <1>1, <3>3, OwnGames DEF MatchCore, StageInv, ToldInv, leg
    <3> QED BY <1>8, <3>1, <3>2, <3>4 DEF Reported
  <2> QED BY <1>8, <2>1, <2>2
<1>21. ToldInv'
  <2>1. ASSUME NEW h \in Games, won'[h] # "none"
        PROVE  h \in handled \/ \E j \in 1 .. Len(reports') :
                                  reports'[j].kind = "game" /\ reports'[j].game = h
    <3>1. CASE h = g
      <4>1. Len(reports') \in 1 .. Len(reports')
        BY <1>8
      <4> QED BY <1>5, <1>8, <3>1, <4>1
    <3>2. CASE h # g
      BY <1>6, <1>9, <2>1, <3>2 DEF MatchCore, ToldInv
    <3> QED BY <3>1, <3>2
  <2> QED BY <2>1 DEF ToldInv, Reported
<1>22. StageInv'
  <2>1. \A h \in Games : won[h] # "none" => won'[h] # "none"
    BY <1>6
  <2>2. ASSUME NEW v \in WorkerIds
        PROVE  /\ worker'[v].pc = "newgame" /\ worker'[v].leg = 1 => won'[GameOf(v, 0)] # "none"
               /\ worker'[v].pc = "paired" => \A l \in {0, 1} : won'[GameOf(v, l)] # "none"
    <3>1. CASE v # w
      BY <1>4, <2>1, <3>1, OwnGames DEF MatchCore, StageInv
    <3>2. CASE v = w /\ leg = 0
      BY <1>4, <1>6, <3>2 DEF g
    <3>3. CASE v = w /\ leg = 1
      <4>1. won[GameOf(w, 0)] # "none"
        BY <1>1, <3>3 DEF MatchCore, StageInv, leg
      <4>2. won'[GameOf(w, 0)] # "none" /\ won'[GameOf(w, 1)] # "none"
        BY <1>6, <2>1, <3>3, <4>1, OwnGames DEF g
      <4> QED BY <1>4, <3>3, <4>2
    <3> QED BY <1>2, <3>1, <3>2, <3>3
  <2> QED BY <1>7, <2>2 DEF StageInv
<1>23. BufferInv'
  <2>1. \A v \in WorkerIds : Scores(v)' = Scores(v)
    BY <1>7, <1>14 DEF Scores
  <2> QED BY <1>7, <2>1 DEF MatchCore, BufferInv
<1>24. HandledInv'
  BY <1>14 DEF MatchCore, HandledInv, Dispatched
<1>25. DoneInv'
  <2>1. worker'[w].pc \notin {"leaving", "gone"}
    BY <1>4
  <2> QED BY <1>4, <1>7, <1>8, <2>1 DEF MatchCore, DoneInv
<1> QED
  BY <1>14, <1>15, <1>16, <1>17, <1>18, <1>19, <1>20, <1>21, <1>22, <1>23, <1>24, <1>25
  DEF MatchCore

LEMMA FiguresKept ==
  ASSUME handled \subseteq Games, Match, TallyIsTrue, Whole,
         UNCHANGED <<mode, cpc, dispatchVars, tallyVars, sprtVars, limit>>,
         \A g \in handled : won'[g] = won[g]
  PROVE  TallyIsTrue' /\ Whole'
<1>1. \A result : {i \in handled : won'[i] = result} = {i \in handled : won[i] = result}
  OBVIOUS
<1>2. TallyIsTrue'
  BY <1>1 DEF TallyIsTrue, Match, Ending
<1>3. \A g \in handled : Worth(g)' = Worth(g)
  BY DEF Worth
<1>4. \A b \in Bins : Complete(b)' = Complete(b)
  BY <1>3 DEF Complete
<1>5. Half' = Half /\ Buffered(1)' = Buffered(1)
  BY DEF Half, Buffered
<1>6. \A b \in Bins : Ready(b)' = Ready(b)
  BY DEF Ready, Buffered, PairScore
<1> QED BY <1>2, <1>4, <1>5, <1>6 DEF Whole

LEMMA WorkerPreserves ==
  ASSUME TypeOK, Match, MatchInv, NEW w \in WorkerIds, Worker(w)
  PROVE  MatchInv'
<1>1. /\ UNCHANGED <<mode, cpc, slot, dispatchVars, tallyVars, sprtVars, stopVars, failure,
                     spsaVars>>
      /\ WorkerStep(w, FALSE)
  <2>1. (mode = "spsa") = FALSE
    BY DEF Match
  <2> QED BY <2>1 DEF Worker
<1>2. handled \subseteq Games
  BY DEF TypeOK
<1>3. ASSUME UNCHANGED won, MatchCore' PROVE MatchInv'
  BY <1>1, <1>2, <1>3, FiguresKept DEF MatchInv
<1>4. ASSUME NEW winner \in Results, Ends(w, winner), UNCHANGED <<cmds, open>>
      PROVE  MatchInv'
  <2>1. MatchCore' /\ \A g \in handled : won'[g] = won[g]
    BY <1>1, <1>4, EndsPreserves DEF MatchInv
  <2> QED BY <1>1, <1>2, <2>1, FiguresKept DEF MatchInv
<1>5. CASE Handshake(w) \/ Disconnected(w) \/ Sync(w, FALSE) \/ Shutdown(w)
  <2>1. MatchCore'
    BY <1>1, <1>5, MovesPreserve DEF MatchInv
  <2> QED BY <1>3, <1>5, <2>1 DEF Handshake, Disconnected, Sync, Shutdown
<1>6. CASE Take(w)
  <2>1. MatchCore'
    BY <1>1, <1>6, TakePreserves DEF MatchInv
  <2> QED BY <1>3, <1>6, <2>1 DEF Take
<1>7. CASE Starved(w, FALSE)
  <2>1. MatchCore'
    BY <1>1, <1>7, StarvedPreserves DEF MatchInv
  <2> QED BY <1>3, <1>7, <2>1 DEF Starved
<1>8. CASE ReportPair(w)
  <2>1. MatchCore'
    BY <1>1, <1>8, ReportPairPreserves DEF MatchInv
  <2> QED BY <1>3, <1>8, <2>1 DEF ReportPair
<1>9. CASE Play(w) \/ Spoil(w)
  <2>1. Winners \subseteq Results /\ Players \subseteq Results
    BY PoolAssumption DEF Results
  <2> QED BY <1>4, <1>9, <2>1 DEF Play, Spoil
<1> QED BY <1>1, <1>5, <1>6, <1>7, <1>8, <1>9 DEF WorkerStep

-----------------------------------------------------------------------------
\* The steps of the controller that read no figures.

\* The first report is taken.
LEMMA HeardReport ==
  ASSUME TypeOK, Hear
  PROVE  /\ Report = reports[1] /\ 1 \in 1 .. Len(reports)
         /\ Len(reports) \in Nat /\ Len(reports') = Len(reports) - 1
         /\ \A i \in 1 .. Len(reports') : /\ reports'[i] = reports[i + 1]
                                          /\ i + 1 \in 1 .. Len(reports)
                                          /\ reports[i + 1].worker \in WorkerIds
         /\ \A i \in 1 .. Len(reports) :
              i # 1 => i - 1 \in 1 .. Len(reports') /\ reports'[i - 1] = reports[i]
         /\ reports[1] \in ReportType
<1>1. reports \in Seq(ReportType) /\ reports # <<>> /\ reports' = Tail(reports)
  BY DEF TypeOK, PoolTypeOK, Hear
<1>2. /\ Report = reports[1] /\ Report \in ReportType
      /\ Len(reports) \in Nat \ {0} /\ Len(reports') = Len(reports) - 1
      /\ \A i \in 1 .. Len(reports) - 1 : reports'[i] = reports[i + 1]
  BY <1>1, HeadOfReports
<1> QED BY <1>2, ReportFields

\* What is known of the reports holds of those that are left.
LEMMA ShiftedOrder ==
  ASSUME TypeOK, Hear, OnceInv, OrderInv, ToldInv,
         UNCHANGED <<worker, won>>,
         handled \subseteq handled',
         Report.kind = "game" => Report.game \in handled'
  PROVE  OnceInv' /\ OrderInv' /\ ToldInv'
<1>1. /\ Report = reports[1] /\ Len(reports) \in Nat /\ Len(reports') = Len(reports) - 1
      /\ \A i \in 1 .. Len(reports') : /\ reports'[i] = reports[i + 1]
                                       /\ i + 1 \in 1 .. Len(reports)
      /\ \A i \in 1 .. Len(reports) :
           i # 1 => i - 1 \in 1 .. Len(reports') /\ reports'[i - 1] = reports[i]
  BY HeardReport
<1>2. OnceInv'
  <2> SUFFICES ASSUME NEW i \in 1 .. Len(reports'), NEW j \in 1 .. Len(reports'),
                      reports'[i].kind = reports'[j].kind,
                      \/ /\ reports'[i].kind = "game"
                         /\ reports'[i].game = reports'[j].game
                      \/ /\ reports'[i].kind = "pair"
                         /\ reports'[i].worker = reports'[j].worker
               PROVE  i = j
    BY DEF OnceInv
  <2>1. /\ i + 1 \in 1 .. Len(reports) /\ j + 1 \in 1 .. Len(reports)
        /\ reports'[i] = reports[i + 1] /\ reports'[j] = reports[j + 1]
    BY <1>1
  <2>2. i + 1 = j + 1
    BY <2>1 DEF OnceInv
  <2>3. i \in Nat /\ j \in Nat
    BY <1>1
  <2> QED BY <2>2, <2>3
<1>3. ASSUME NEW g, NEW n \in 0 .. Len(reports'), Reported(g, n + 1)
      PROVE  g \in handled' \/ \E j \in 1 .. n : reports'[j].kind = "game" /\ reports'[j].game = g
  <2>1. PICK j \in 1 .. n + 1 : reports[j].kind = "game" /\ reports[j].game = g
    BY <1>3 DEF Reported
  <2>2. CASE j = 1
    BY <1>1, <2>1, <2>2
  <2>3. CASE j # 1
    <3>1. j \in 1 .. Len(reports) /\ j - 1 \in 1 .. n
      BY <1>1, <2>3
    <3> QED BY <1>1, <2>1, <2>3, <3>1
  <2> QED BY <2>2, <2>3
<1>4. OrderInv'
  <2> SUFFICES ASSUME NEW i \in 1 .. Len(reports'), NEW v \in WorkerIds,
                      NEW leg \in {0, 1}, reports'[i].worker = v,
                      \/ reports'[i].kind = "pair"
                      \/ /\ reports'[i].kind = "game" /\ reports'[i].game = GameOf(v, 1)
                         /\ leg = 0
               PROVE  \/ GameOf(v, leg) \in handled'
                      \/ \E j \in 1 .. i - 1 :
                           reports'[j].kind = "game" /\ reports'[j].game = GameOf(v, leg)
    BY DEF OrderInv, Reported, GameOf
  <2>1. GameOf(v, leg) \in handled \/ Reported(GameOf(v, leg), i)
    BY <1>1 DEF OrderInv
  <2>2. i - 1 \in 0 .. Len(reports') /\ i = (i - 1) + 1
    BY <1>1
  <2> QED BY <1>3, <2>1, <2>2
<1>5. ToldInv'
  <2> SUFFICES ASSUME NEW g \in Games, won[g] # "none"
               PROVE  g \in handled' \/ \E j \in 1 .. Len(reports') :
                        reports'[j].kind = "game" /\ reports'[j].game = g
    BY DEF ToldInv, Reported
  <2>1. g \in handled \/ Reported(g, Len(reports))
    BY DEF ToldInv
  <2>2. reports # <<>>
    BY DEF Hear
  <2>3. Len(reports') \in 0 .. Len(reports') /\ Len(reports) = Len(reports') + 1
    BY <1>1, HeardReport
  <2> QED BY <1>3, <2>1, <2>3
<1> QED BY <1>2, <1>4, <1>5

LEMMA PhasePreserves ==
  ASSUME TypeOK, Match, MatchInv,
         \/ Bootstrapped
         \/ StopDraining
         \/ ReturnError
         \/ Bootstrap /\ slot \in Gone
  PROVE  MatchInv'
<1>1. /\ UNCHANGED <<poolVars, mode, slot, dispatchVars, tallyVars, sprtVars, stopVars>>
      /\ cpc' # "bootstrap" /\ cpc' # "returned" /\ cpc # "returned"
      /\ failure => failure'
  BY DEF Bootstrapped, StopDraining, ReturnError, Bootstrap, UNCHANGED_Workers, TypeOK
<1>2. ASSUME StopDraining, ~failure PROVE handled = Dispatched
  <2>1. /\ cpc = "drain" /\ open /\ handled \in SUBSET Dispatched /\ t = Cardinality(handled)
        /\ pairs_dispatched \in 0 .. total_pairs
    BY <1>2 DEF StopDraining, MatchInv, MatchCore, PhaseInv, HandledInv, TypeOK
  <2>2. CASE drain_done
    <3>1. \A p \in 0 .. pairs_dispatched - 1 :
            {game_index(p, 0), game_index(p, 1)} \subseteq handled
      BY <2>2 DEF MatchInv, MatchCore, DoneInv, Busy, drain_done
    <3>2. ASSUME NEW i \in Dispatched PROVE i \in handled
      <4> DEFINE k == (i - 1) \div 2
      <4>1. k \in 0 .. pairs_dispatched - 1 /\ (i = 2 * k + 1 \/ i = 2 * k + 2)
        BY <2>1, TotalPairs DEF Dispatched
      <4>2. i = game_index(k, 0) \/ i = game_index(k, 1)
        BY <4>1 DEF game_index
      <4> HIDE DEF k
      <4> QED BY <3>1, <4>1, <4>2
    <3> QED BY <2>1, <3>2
  <2>3. CASE t >= MaxGames
    <3>1. Cardinality(Dispatched \ handled) = 0 /\ IsFiniteSet(Dispatched)
      <4>1. Cardinality(handled) + Outstanding(handled) <= MaxGames
            /\ Outstanding(handled) = Cardinality(Dispatched \ handled)
            /\ Outstanding(handled) \in Nat /\ Cardinality(handled) \in Nat
        BY <2>1, OutstandingGames
      <4>2. IsFiniteSet(Dispatched)
        BY <2>1, TotalPairs, FS_Interval DEF Dispatched
      <4> QED BY <2>1, <2>3, <4>1, <4>2, TotalPairs
    <3>2. IsFiniteSet(Dispatched \ handled)
      BY <3>1, FS_Difference
    <3>3. Dispatched \ handled = {}
      BY <3>1, <3>2, FS_EmptySet
    <3> QED BY <2>1, <3>3
  <2>4. CASE NobodyLeft
    <3>1. 0 \in WorkerIds /\ worker[0].pc = "gone" /\ Len(reports) = 0
      BY <2>4, PoolAssumption DEF NobodyLeft, Gone, At, WorkerIds
    <3> QED BY <1>2, <2>1, <3>1 DEF MatchInv, MatchCore, DoneInv
  <2> QED BY <1>2, <2>2, <2>3, <2>4 DEF StopDraining
<1>3. PhaseInv'
  <2>1. CASE Bootstrapped \/ Bootstrap
    BY <1>1, <2>1 DEF Bootstrapped, Bootstrap, MatchInv, MatchCore, PhaseInv
  <2>2. CASE StopDraining
    BY <1>1, <1>2, <2>2 DEF StopDraining, MatchInv, MatchCore, PhaseInv, Dispatched
  <2>3. CASE ReturnError
    BY <1>1, <2>3 DEF ReturnError, MatchInv, MatchCore, PhaseInv
  <2> QED BY <2>1, <2>2, <2>3
<1>4. \A v \in WorkerIds :
        /\ Busy(v)' <=> Busy(v)
        /\ Waiting(v)' <=> Waiting(v)
        /\ PairOf(v)' = PairOf(v)
        /\ \A leg \in {0, 1} : GameOf(v, leg)' = GameOf(v, leg)
  BY <1>1 DEF Busy, Waiting, PairOf, GameOf
<1>5. CommandInv' /\ PlaceInv' /\ OwnerInv' /\ FreshInv'
  BY <1>1, <1>4 DEF MatchInv, MatchCore, CommandInv, PlaceInv, OwnerInv, FreshInv
<1>6. ReportInv' /\ OnceInv' /\ OrderInv' /\ ToldInv' /\ StageInv'
  BY <1>1, <1>4
  DEF MatchInv, MatchCore, ReportInv, OnceInv, OrderInv, ToldInv, StageInv, Reported, Worth
<1>7. BufferInv' /\ HandledInv' /\ DoneInv'
  BY <1>1, <1>4
  DEF MatchInv, MatchCore, BufferInv, HandledInv, DoneInv, Scores, Worth, Dispatched
<1>8. TallyIsTrue'
  BY <1>1 DEF MatchInv, TallyIsTrue, Ending
<1>9. Whole'
  BY <1>1 DEF MatchInv, Whole, Ready, Complete, Half, Buffered, Worth, PairScore
<1> QED BY <1>3, <1>5, <1>6, <1>7, <1>8, <1>9 DEF MatchInv, MatchCore

LEMMA FailurePreserves ==
  ASSUME TypeOK, Match, MatchInv, HandleFailure
  PROVE  MatchInv'
<1>1. /\ cpc = "drain" /\ Hear /\ Report.kind = "failure" /\ failure' = TRUE /\ cpc' = "quit"
      /\ UNCHANGED <<worker, alive, won, cmds, open, mode, slot, dispatchVars, tallyVars,
                     sprtVars, stopVars>>
  BY DEF HandleFailure, Draining, UNCHANGED_Workers
<1>2. /\ reports[1].kind = "failure" /\ 1 \in 1 .. Len(reports)
      /\ Len(reports) \in Nat /\ Len(reports') = Len(reports) - 1
      /\ \A i \in 1 .. Len(reports') : /\ reports'[i] = reports[i + 1]
                                       /\ i + 1 \in 1 .. Len(reports)
                                       /\ reports[i + 1].worker \in WorkerIds
      /\ \A i \in 1 .. Len(reports) :
           i # 1 => i - 1 \in 1 .. Len(reports') /\ reports'[i - 1] = reports[i]
  BY <1>1, HeardReport
<1>3. \A v \in WorkerIds :
        /\ Busy(v)' <=> Busy(v)
        /\ Waiting(v)' <=> Waiting(v)
        /\ PairOf(v)' = PairOf(v)
        /\ \A leg \in {0, 1} : GameOf(v, leg)' = GameOf(v, leg)
  BY <1>1 DEF Busy, Waiting, PairOf, GameOf
<1>4. CommandInv' /\ PhaseInv' /\ PlaceInv' /\ OwnerInv' /\ FreshInv' /\ StageInv'
  BY <1>1, <1>3
  DEF MatchInv, MatchCore, CommandInv, PhaseInv, PlaceInv, OwnerInv, FreshInv, StageInv
<1>5. ReportInv'
  BY <1>1, <1>2, <1>3 DEF MatchInv, MatchCore, ReportInv, Worth
<1>6. OnceInv' /\ OrderInv' /\ ToldInv'
  <2>1. Report.kind # "game" /\ handled' = handled
    BY <1>1
  <2> QED BY <1>1, <2>1, ShiftedOrder DEF MatchInv, MatchCore
<1>7. BufferInv' /\ HandledInv' /\ DoneInv'
  BY <1>1, <1>3
  DEF MatchInv, MatchCore, BufferInv, HandledInv, DoneInv, Scores, Worth, Dispatched
<1>8. TallyIsTrue'
  BY <1>1 DEF MatchInv, TallyIsTrue, Ending
<1>9. Whole'
  BY ZenonT(40), <1>1 DEF MatchInv, Whole, Ready, Complete, Half, Buffered, Worth, PairScore
<1> QED BY <1>4, <1>5, <1>6, <1>7, <1>8, <1>9 DEF MatchInv, MatchCore

LEMMA QuitPreserves ==
  ASSUME TypeOK, Match, MatchInv, QuitAll
  PROVE  MatchInv'
<1>1. /\ cpc = "quit" /\ cpc' = "join" /\ open' = FALSE
      /\ cmds' = [w \in WorkerIds |-> Append(cmds[w], QuitCmd)]
      /\ UNCHANGED <<worker, won, reports, mode, slot, dispatchVars, tallyVars, sprtVars,
                     stopVars, failure>>
  BY DEF QuitAll, UNCHANGED_Workers
<1>2. open
  BY <1>1 DEF MatchInv, MatchCore, PhaseInv
<1>3. ASSUME NEW w \in WorkerIds
      PROVE  /\ Len(cmds[w]) \in {0, 1} /\ Len(cmds'[w]) = Len(cmds[w]) + 1
             /\ cmds[w] = <<>> <=> Len(cmds[w]) = 0
             /\ \A i \in 1 .. Len(cmds[w]) :
                  i = 1 /\ cmds'[w][1] = cmds[w][1] /\ cmds[w][1].op = "pair" /\ Busy(w)
             /\ cmds'[w][Len(cmds[w]) + 1].op = "quit"
             /\ cmds'[w] # <<>> /\ Head(cmds'[w]) = cmds'[w][1]
             /\ cmds[w] # <<>> => Head(cmds[w]) = cmds[w][1]
  <2>1. cmds[w] \in Seq(CommandType) /\ QuitCmd \in CommandType /\ QuitCmd.op = "quit"
    BY CommandTypes DEF TypeOK, PoolTypeOK, CommandType, QuitCmd
  <2>2. cmds'[w] = Append(cmds[w], QuitCmd)
    BY <1>1
  <2>3. /\ cmds'[w] \in Seq(CommandType) /\ cmds'[w] # <<>>
        /\ Len(cmds'[w]) = Len(cmds[w]) + 1
        /\ \A i \in 1 .. Len(cmds[w]) : cmds'[w][i] = cmds[w][i]
        /\ cmds'[w][Len(cmds[w]) + 1] = QuitCmd
    BY <2>1, <2>2, AppendProperties
  <2>4. Len(cmds[w]) \in Nat /\ Len(cmds[w]) <= 1
    BY <1>2, <2>1 DEF MatchInv, MatchCore, CommandInv
  <2>5. ASSUME NEW i \in 1 .. Len(cmds[w])
        PROVE  i = 1 /\ cmds[w][1].op = "pair" /\ Busy(w)
    <3>1. i = 1 /\ cmds[w][1] \in CommandType
      BY <2>1, <2>4, ElementOfSeq
    <3>2. cmds[w][1].op \in {"pair", "quit"}
      BY <3>1 DEF CommandType
    <3> QED BY <1>2, <3>1, <3>2 DEF MatchInv, MatchCore, CommandInv
  <2>6. Head(cmds'[w]) = cmds'[w][1]
    BY <2>3, HeadTailProperties
  <2>7. cmds[w] # <<>> => Head(cmds[w]) = cmds[w][1]
    BY <2>1, HeadTailProperties
  <2>8. cmds[w] = <<>> <=> Len(cmds[w]) = 0
    BY <2>1, EmptySeq
  <2>9. Len(cmds[w]) \in {0, 1}
    <3>1. \A n \in Nat : n <= 1 => n \in {0, 1}
      OBVIOUS
    <3> QED BY <2>4, <3>1
  <2>10. \A i \in 1 .. Len(cmds[w]) : i = 1 /\ cmds'[w][1] = cmds[w][1]
    BY <2>3, <2>5
  <2>11. cmds'[w][Len(cmds[w]) + 1].op = "quit"
    BY <2>1, <2>3
  <2> QED BY <2>3, <2>5, <2>6, <2>7, <2>8, <2>9, <2>10, <2>11
<1>4. \A v \in WorkerIds :
        /\ Busy(v)' <=> Busy(v)
        /\ Waiting(v)' <=> Waiting(v)
        /\ Waiting(v) => Head(cmds'[v]) = Head(cmds[v])
  <2> SUFFICES ASSUME NEW v \in WorkerIds
               PROVE  /\ Busy(v)' <=> Busy(v)
                      /\ Waiting(v)' <=> Waiting(v)
                      /\ Waiting(v) => Head(cmds'[v]) = Head(cmds[v])
    OBVIOUS
  <2>1. CASE cmds[v] = <<>>
    BY <1>1, <1>3, <2>1 DEF Busy, Waiting
  <2>2. CASE cmds[v] # <<>>
    <3>1. 1 \in 1 .. Len(cmds[v])
      BY <1>3, <2>2
    <3>2. Head(cmds'[v]) = Head(cmds[v]) /\ cmds'[v] # <<>>
      BY <1>3, <2>2, <3>1
    <3> QED BY <1>1, <2>2, <3>2 DEF Busy, Waiting
  <2> QED BY <2>1, <2>2
<1>5. \A v \in WorkerIds : /\ PairOf(v)' = PairOf(v)
                           /\ \A leg \in {0, 1} : GameOf(v, leg)' = GameOf(v, leg)
  BY <1>1, <1>4 DEF PairOf, GameOf
<1>6. CommandInv'
  <2> SUFFICES ASSUME NEW v \in WorkerIds
               PROVE  /\ Len(cmds'[v]) <= 2
                      /\ \A i \in 1 .. Len(cmds'[v]) :
                           cmds'[v][i].op = "pair" => i = 1 /\ Busy(v)
                      /\ Len(cmds'[v]) = 2 => cmds'[v][1].op = "pair"
    BY <1>1, <1>4 DEF CommandInv
  <2>1. CASE Len(cmds[v]) = 0
    BY <1>3, <2>1
  <2>2. CASE Len(cmds[v]) = 1
    <3>1. /\ Len(cmds'[v]) = 2 /\ cmds'[v][1] = cmds[v][1]
          /\ cmds[v][1].op = "pair" /\ Busy(v) /\ cmds'[v][2].op = "quit"
      <4>1. 1 \in 1 .. Len(cmds[v]) /\ Len(cmds[v]) + 1 = 2
        BY <2>2
      <4>2. cmds'[v][Len(cmds[v]) + 1].op = "quit" /\ Len(cmds'[v]) = Len(cmds[v]) + 1
        BY <1>3
      <4>3. cmds'[v][1] = cmds[v][1] /\ cmds[v][1].op = "pair" /\ Busy(v)
        BY <1>3, <4>1
      <4> QED BY <4>1, <4>2, <4>3
    <3>2. \A i \in 1 .. Len(cmds'[v]) : i = 1 \/ i = 2
      BY <3>1
    <3> QED BY <3>1, <3>2
  <2> QED BY <1>3, <2>1, <2>2
<1>7. PhaseInv' /\ PlaceInv' /\ OwnerInv' /\ FreshInv' /\ StageInv'
  BY <1>1, <1>4, <1>5
  DEF MatchInv, MatchCore, PhaseInv, PlaceInv, OwnerInv, FreshInv, StageInv, Dispatched
<1>8. ReportInv' /\ OnceInv' /\ OrderInv' /\ ToldInv'
  BY <1>1, <1>4, <1>5
  DEF MatchInv, MatchCore, ReportInv, OnceInv, OrderInv, ToldInv, Reported, Worth
<1>9. BufferInv' /\ HandledInv' /\ DoneInv'
  BY <1>1, <1>4, <1>5
  DEF MatchInv, MatchCore, BufferInv, HandledInv, DoneInv, Scores, Worth, Dispatched
<1>10. TallyIsTrue'
  BY <1>1 DEF MatchInv, TallyIsTrue, Ending
<1>11. Whole'
  BY ZenonT(40), <1>1 DEF MatchInv, Whole, Ready, Complete, Half, Buffered, Worth, PairScore
<1> QED BY <1>6, <1>7, <1>8, <1>9, <1>10, <1>11 DEF MatchInv, MatchCore

\* A match that ends well has handled all it dispatched, so no pair is half
\* counted.
LEMMA ReturnPreserves ==
  ASSUME TypeOK, Match, MatchInv, ReturnOk
  PROVE  MatchInv'
<1>1. /\ cpc = "join" /\ cpc' = "returned" /\ ~failure
      /\ pair_counts' = FoldLeftovers(pair_counts)
      /\ discarded_singletons' = discarded_singletons + Cardinality(Buffered(1))
      /\ pair_score_buffers' = [w \in WorkerIds |-> <<>>]
      /\ UNCHANGED <<poolVars, mode, slot, dispatchVars, t, wins, losses, draws, handled,
                     stopVars, failure>>
  BY DEF ReturnOk, Buffered
<1>2. /\ handled = Dispatched /\ pairs_dispatched \in 0 .. total_pairs
      /\ handled = {i \in Games : i <= 2 * pairs_dispatched}
  <2>1. handled = Dispatched /\ pairs_dispatched \in 0 .. total_pairs
    BY <1>1 DEF MatchInv, MatchCore, PhaseInv, TypeOK
  <2> QED BY <2>1, GamesUpTo DEF Dispatched
<1>3. \A v \in WorkerIds :
        /\ Busy(v)' <=> Busy(v)
        /\ Waiting(v)' <=> Waiting(v)
        /\ PairOf(v)' = PairOf(v)
        /\ \A leg \in {0, 1} : GameOf(v, leg)' = GameOf(v, leg)
  BY <1>1 DEF Busy, Waiting, PairOf, GameOf
<1>4. CommandInv' /\ PlaceInv' /\ OwnerInv' /\ FreshInv' /\ StageInv'
  BY <1>1, <1>3 DEF MatchInv, MatchCore, CommandInv, PlaceInv, OwnerInv, FreshInv, StageInv
<1>5. PhaseInv'
  BY <1>1, <1>2 DEF MatchInv, MatchCore, PhaseInv, Dispatched
<1>6. ReportInv' /\ OnceInv' /\ OrderInv' /\ ToldInv'
  BY <1>1, <1>3
  DEF MatchInv, MatchCore, ReportInv, OnceInv, OrderInv, ToldInv, Reported, Worth
<1>7. BufferInv' /\ HandledInv' /\ DoneInv'
  BY <1>1, <1>3 DEF MatchInv, MatchCore, BufferInv, HandledInv, DoneInv, Dispatched
<1>8. TallyIsTrue'
  BY <1>1 DEF MatchInv, TallyIsTrue, Ending
<1>9. Half = {}
  <2>1. \A p \in Pairs, leg \in {0, 1} : game_index(p, leg) \in handled <=> p < pairs_dispatched
    BY <1>2, GamesUpTo DEF Dispatched
  <2> QED BY <2>1 DEF Half
<1>10. discarded_singletons' = 0
  BY <1>1, <1>9, FS_EmptySet DEF MatchInv, Whole
<1>11. /\ \A b \in Bins : Complete(b)' = Complete(b) /\ Ready(b)' = {}
       /\ Half' = {} /\ Buffered(1)' = {}
  <2>1. \A w \in WorkerIds : pair_score_buffers'[w] = <<>> /\ Len(pair_score_buffers'[w]) = 0
    BY <1>1
  <2>2. Buffered(2)' = {} /\ Buffered(1)' = {}
    BY <2>1 DEF Buffered
  <2> QED BY <1>1, <1>9, <2>2 DEF Complete, Half, Ready, Worth
<1>12. \A b \in Bins : pair_counts'[b] = pair_counts[b] + Cardinality(Ready(b))
  BY <1>1 DEF FoldLeftovers, Ready, Buffered
<1>13. Whole'
  <2>1. \A b \in Bins : pair_counts'[b] \in Nat
    <3>1. \A b \in Bins : pair_counts[b] \in Nat /\ Cardinality(Ready(b)) \in Nat
      BY BufferSets DEF TypeOK, Counts
    <3> QED BY <1>12, <3>1
  <2>2. \A b \in Bins : pair_counts'[b] + Cardinality({}) = Cardinality(Complete(b))
    BY <1>12, <2>1, FS_EmptySet DEF MatchInv, Whole
  <2>3. discarded_singletons' + Cardinality({}) = Cardinality({})
    BY <1>10, FS_EmptySet
  <2> QED BY <1>1, <1>2, <1>10, <1>11, <2>2, <2>3 DEF Whole
<1> QED BY <1>4, <1>5, <1>6, <1>7, <1>8, <1>13 DEF MatchInv, MatchCore

-----------------------------------------------------------------------------
\* A pair is sent, after the one before it, if there was one, is complete.

LEMMA Dispatching ==
  ASSUME TypeOK, MatchCore, NEW w \in WorkerIds, NEW sent \in BOOLEAN,
         open, cpc # "returned", cpc' # "returned",
         UNCHANGED <<worker, won, open, handled>>,
         cmds[w] = <<>>, worker[w].pc \in {"starting", "ready", "leaving", "gone"},
         worker[w].pc = "starting" => ~Busy(w) ,
         Busy(w) => GameOf(w, 0) \in handled /\ GameOf(w, 1) \in handled,
         pairs_in_flight' = [pairs_in_flight EXCEPT ![w] = IF sent THEN 1 ELSE 0],
         pair_score_buffers' = [pair_score_buffers EXCEPT ![w] = <<>>],
         sent => /\ pairs_dispatched < total_pairs
                 /\ cmds' = [cmds EXCEPT ![w] = <<PlayPair(pairs_dispatched)>>]
                 /\ pairs_dispatched' = pairs_dispatched + 1,
         ~sent => UNCHANGED <<cmds, pairs_dispatched>>
  PROVE  /\ CommandInv' /\ PlaceInv' /\ OwnerInv' /\ FreshInv' /\ StageInv' /\ BufferInv'
         /\ \A p \in 0 .. pairs_dispatched' - 1 :
              \/ {game_index(p, 0), game_index(p, 1)} \subseteq handled
              \/ (\E v \in WorkerIds : Busy(v) /\ PairOf(v) = p)'
         /\ handled \subseteq Dispatched'
         /\ \A v \in WorkerIds \ {w} : /\ Busy(v)' <=> Busy(v)
                                       /\ Waiting(v)' <=> Waiting(v)
<1> USE TotalPairs
<1>1. ~Waiting(w) /\ PairOf(w) = worker[w].pair /\ pairs_dispatched \in Nat
  BY DEF Waiting, PairOf, TypeOK
<1>2. /\ Busy(w)' <=> sent
      /\ \A v \in WorkerIds \ {w} : Busy(v)' <=> Busy(v)
  BY DEF Busy, TypeOK
<1>3. \A v \in WorkerIds \ {w} : cmds'[v] = cmds[v]
  BY DEF TypeOK, PoolTypeOK
<1>4. CASE sent
  <2>1. /\ cmds'[w] = <<PlayPair(pairs_dispatched)>> /\ Len(cmds'[w]) = 1
        /\ cmds'[w][1].op = "pair" /\ Head(cmds'[w]) = PlayPair(pairs_dispatched)
        /\ Head(cmds'[w]).pair = pairs_dispatched /\ cmds'[w] # <<>>
    <3>1. cmds'[w] = <<PlayPair(pairs_dispatched)>>
      BY <1>4 DEF TypeOK, PoolTypeOK
    <3>2. PlayPair(pairs_dispatched).op = "pair"
          /\ PlayPair(pairs_dispatched).pair = pairs_dispatched
      BY DEF PlayPair
    <3> HIDE DEF PlayPair
    <3>3. /\ Len(cmds'[w]) = 1 /\ cmds'[w][1] = PlayPair(pairs_dispatched)
          /\ Head(cmds'[w]) = PlayPair(pairs_dispatched) /\ cmds'[w] # <<>>
      BY <3>1
    <3> QED BY <3>1, <3>2, <3>3
  <2>2. /\ Waiting(w)' /\ PairOf(w)' = pairs_dispatched
        /\ \A v \in WorkerIds \ {w} : (Waiting(v)' <=> Waiting(v)) /\ PairOf(v)' = PairOf(v)
    BY <1>3, <2>1 DEF Waiting, PairOf, PlayPair
  <2>3. \A v \in WorkerIds \ {w} : Busy(v) => PairOf(v) \in 0 .. pairs_dispatched - 1
    BY DEF MatchCore, PlaceInv
  <2>4. CommandInv'
    <3> SUFFICES ASSUME NEW v \in WorkerIds
                 PROVE  /\ Len(cmds'[v]) <= 2
                        /\ \A i \in 1 .. Len(cmds'[v]) :
                             cmds'[v][i].op = "pair" => i = 1 /\ Busy(v)'
                        /\ Len(cmds'[v]) <= 1
                        /\ \A i \in 1 .. Len(cmds'[v]) : cmds'[v][i].op # "quit"
                        /\ Len(cmds'[v]) = 2 => cmds'[v][1].op = "pair"
      BY DEF CommandInv
    <3>1. CASE v = w
      <4>1. Len(cmds'[v]) = 1 /\ cmds'[v][1].op = "pair" /\ Busy(v)'
        BY <1>2, <1>4, <2>1, <3>1
      <4>2. \A i \in 1 .. Len(cmds'[v]) : i = 1
        BY <4>1
      <4> QED BY <4>1, <4>2
    <3>2. CASE v # w
      BY <1>2, <1>3, <3>2 DEF MatchCore, CommandInv
    <3> QED BY <3>1, <3>2
  <2>5. PlaceInv'
    BY <1>1, <1>2, <1>4, <2>2, <2>3 DEF MatchCore, PlaceInv
  <2>6. OwnerInv'
    BY <1>1, <1>2, <2>2, <2>3 DEF MatchCore, OwnerInv
  <2>7. FreshInv'
    <3>1. pairs_dispatched \in Pairs /\ pairs_dispatched' >= pairs_dispatched
      BY <1>1, <1>4
    <3>2. \A p \in Pairs, leg \in {0, 1} :
            p >= pairs_dispatched' => won[game_index(p, leg)] = "none"
      BY <1>1, <1>4 DEF MatchCore, FreshInv
    <3>3. \A leg \in {0, 1} : won[game_index(pairs_dispatched, leg)] = "none"
      BY <1>1, <3>1 DEF MatchCore, FreshInv
    <3> QED BY <1>2, <2>2, <3>2, <3>3 DEF MatchCore, FreshInv
  <2>8. BufferInv'
    <3>1. \A v \in WorkerIds \ {w} : Scores(v)' = Scores(v)
      BY <1>2, <2>2 DEF Scores, GameOf, Worth
    <3>2. Scores(w)' = <<>>
      BY <2>2 DEF Scores
    <3>3. \A v \in WorkerIds \ {w} : pair_score_buffers'[v] = pair_score_buffers[v]
      BY DEF TypeOK
    <3>4. pair_score_buffers'[w] = <<>>
      BY DEF TypeOK
    <3> QED BY <1>2, <2>2, <3>1, <3>2, <3>3, <3>4 DEF MatchCore, BufferInv, GameOf
  <2>9. ASSUME NEW p \in 0 .. pairs_dispatched' - 1
        PROVE  \/ {game_index(p, 0), game_index(p, 1)} \subseteq handled
               \/ (\E v \in WorkerIds : Busy(v) /\ PairOf(v) = p)'
    <3>1. CASE p = pairs_dispatched
      BY <1>2, <1>4, <2>2, <3>1
    <3>2. CASE p # pairs_dispatched
      <4>1. p \in 0 .. pairs_dispatched - 1
        BY <1>1, <1>4, <3>2
      <4>2. \/ {game_index(p, 0), game_index(p, 1)} \subseteq handled
            \/ \E v \in WorkerIds \ {w} : Busy(v) /\ PairOf(v) = p
        BY <1>1, <4>1 DEF MatchCore, DoneInv, GameOf
      <4> QED BY <1>2, <2>2, <4>2
    <3> QED BY <3>1, <3>2
  <2>10. handled \subseteq Dispatched'
    BY <1>1, <1>4 DEF MatchCore, HandledInv, Dispatched
  <2>11. StageInv'
    BY DEF MatchCore, StageInv, GameOf
  <2> QED BY <1>2, <2>2, <2>4, <2>5, <2>6, <2>7, <2>8, <2>9, <2>10, <2>11
<1>5. CASE ~sent
  <2>1. \A v \in WorkerIds : (Waiting(v)' <=> Waiting(v)) /\ PairOf(v)' = PairOf(v)
    BY <1>5 DEF Waiting, PairOf
  <2>2. CommandInv'
    <3> SUFFICES ASSUME NEW v \in WorkerIds
                 PROVE  /\ Len(cmds[v]) <= 2
                        /\ \A i \in 1 .. Len(cmds[v]) :
                             cmds[v][i].op = "pair" => i = 1 /\ Busy(v)'
                        /\ Len(cmds[v]) <= 1
                        /\ \A i \in 1 .. Len(cmds[v]) : cmds[v][i].op # "quit"
                        /\ Len(cmds[v]) = 2 => cmds[v][1].op = "pair"
      BY <1>5 DEF CommandInv
    <3>1. CASE v = w
      <4>1. Len(cmds[v]) = 0
        BY <3>1
      <4> QED BY <4>1
    <3>2. CASE v # w
      BY <1>2, <3>2 DEF MatchCore, CommandInv
    <3> QED BY <3>1, <3>2
  <2>3. PlaceInv' /\ OwnerInv' /\ FreshInv' /\ StageInv'
    BY <1>1, <1>2, <1>5, <2>1
    DEF MatchCore, PlaceInv, OwnerInv, FreshInv, StageInv, GameOf
  <2>4. BufferInv'
    <3>1. \A v \in WorkerIds \ {w} : Scores(v)' = Scores(v)
      BY <1>2, <2>1 DEF Scores, GameOf, Worth
    <3>2. Scores(w)' = <<>>
      BY <1>2, <1>5 DEF Scores
    <3>3. \A v \in WorkerIds \ {w} : pair_score_buffers'[v] = pair_score_buffers[v]
      BY DEF TypeOK
    <3>4. pair_score_buffers'[w] = <<>>
      BY DEF TypeOK
    <3> QED BY <1>2, <1>5, <2>1, <3>1, <3>2, <3>3, <3>4 DEF MatchCore, BufferInv, GameOf
  <2>5. ASSUME NEW p \in 0 .. pairs_dispatched' - 1
        PROVE  \/ {game_index(p, 0), game_index(p, 1)} \subseteq handled
               \/ (\E v \in WorkerIds : Busy(v) /\ PairOf(v) = p)'
    <3>1. \/ {game_index(p, 0), game_index(p, 1)} \subseteq handled
          \/ \E v \in WorkerIds \ {w} : Busy(v) /\ PairOf(v) = p
      BY <1>1, <1>5 DEF MatchCore, DoneInv, GameOf
    <3> QED BY <1>2, <2>1, <3>1
  <2>6. handled \subseteq Dispatched'
    BY <1>5 DEF MatchCore, HandledInv, Dispatched
  <2> QED BY <1>2, <2>1, <2>2, <2>3, <2>4, <2>5, <2>6
<1> QED BY <1>4, <1>5

LEMMA BootstrapPreserves ==
  ASSUME TypeOK, Match, MatchInv, Bootstrap, slot \notin Gone
  PROVE  MatchInv'
<1>1. /\ cpc = "bootstrap" /\ slot < NWorkers /\ pairs_dispatched < total_pairs
      /\ cmds' = [cmds EXCEPT ![slot] = Append(@, PlayPair(pairs_dispatched))]
      /\ pairs_dispatched' = pairs_dispatched + 1
      /\ pairs_in_flight' = [pairs_in_flight EXCEPT ![slot] = @ + 1]
      /\ slot' = slot + 1
      /\ UNCHANGED <<cpc, failure, worker, won, open, reports, mode, tallyVars, sprtVars,
                     stopVars>>
  BY DEF Bootstrap, Send, UNCHANGED_Workers
<1>2. slot \in WorkerIds /\ slot \in Nat /\ open
  <2>1. slot \in Nat /\ NWorkers \in Nat
    BY PoolAssumption, HarnessAssumption DEF TypeOK
  <2> QED BY <1>1, <2>1 DEF MatchInv, MatchCore, PhaseInv, WorkerIds
<1>3. ~Busy(slot) /\ pairs_in_flight[slot] = 0 /\ ~terminating
  BY <1>1, <1>2 DEF MatchInv, MatchCore, PhaseInv, Busy, TypeOK
<1>4. cmds[slot] = <<>>
  <2>1. cmds[slot] # <<>> => Head(cmds[slot]).op = "pair" \/ Head(cmds[slot]).op = "quit"
    BY <1>2, FirstCommand
  <2>2. cmds[slot] # <<>> => Head(cmds[slot]) = cmds[slot][1] /\ 1 \in 1 .. Len(cmds[slot])
    BY <1>2, FirstCommand
  <2> QED BY <1>2, <1>3, <2>1, <2>2 DEF MatchInv, MatchCore, CommandInv
<1>5. worker[slot].pc \in {"starting", "ready", "leaving", "gone"}
  BY <1>2, <1>3 DEF MatchInv, MatchCore, PlaceInv
<1>6. pair_score_buffers' = [pair_score_buffers EXCEPT ![slot] = <<>>]
  <2>1. pair_score_buffers[slot] = <<>>
    BY <1>1, <1>2, <1>3 DEF MatchInv, MatchCore, BufferInv, Scores
  <2> QED BY <1>1, <1>2, <2>1 DEF TypeOK
<1>7. /\ cmds' = [cmds EXCEPT ![slot] = <<PlayPair(pairs_dispatched)>>]
      /\ pairs_in_flight' = [pairs_in_flight EXCEPT ![slot] = IF TRUE THEN 1 ELSE 0]
  <2>1. Append(<<>>, PlayPair(pairs_dispatched)) = <<PlayPair(pairs_dispatched)>>
    OBVIOUS
  <2> QED BY <1>1, <1>2, <1>3, <1>4, <2>1 DEF TypeOK, PoolTypeOK
<1>8. /\ CommandInv' /\ PlaceInv' /\ OwnerInv' /\ FreshInv' /\ StageInv' /\ BufferInv'
      /\ \A p \in 0 .. pairs_dispatched' - 1 :
           \/ {game_index(p, 0), game_index(p, 1)} \subseteq handled
           \/ (\E v \in WorkerIds : Busy(v) /\ PairOf(v) = p)'
      /\ handled \subseteq Dispatched'
      /\ \A v \in WorkerIds \ {slot} : (Busy(v)' <=> Busy(v)) /\ (Waiting(v)' <=> Waiting(v))
  <2>1. TRUE \in BOOLEAN /\ cpc # "returned" /\ cpc' # "returned"
    BY <1>1
  <2>2. UNCHANGED <<worker, won, open, handled>>
    BY <1>1
  <2> QED BY <1>1, <1>2, <1>3, <1>4, <1>5, <1>6, <1>7, <2>1, <2>2, Dispatching DEF MatchInv
<1>9. \A i \in 1 .. Len(reports) :
        /\ reports[i].worker \in WorkerIds
        /\ reports[i].worker = slot => reports[i].kind = "failure"
  BY <1>3, ReportFields DEF MatchInv, MatchCore, ReportInv
<1>10. PhaseInv'
  <2>1. \A v \in WorkerIds : v >= slot' => ~Busy(v)'
    <3>1. \A v \in WorkerIds : v >= slot + 1 => v >= slot /\ v # slot
      BY <1>2, PoolAssumption DEF WorkerIds
    <3> QED BY <1>1, <1>8, <3>1 DEF MatchInv, MatchCore, PhaseInv
  <2>2. slot' <= NWorkers
    BY <1>1, <1>2, PoolAssumption
  <2> QED BY <1>1, <2>1, <2>2 DEF MatchInv, MatchCore, PhaseInv
<1>11. ReportInv'
  BY <1>1, <1>8, <1>9 DEF MatchInv, MatchCore, ReportInv, GameOf, Worth
<1>12. OnceInv' /\ OrderInv' /\ ToldInv'
  BY <1>1 DEF MatchInv, MatchCore, OnceInv, OrderInv, ToldInv, Reported, GameOf
<1>13. HandledInv'
  BY <1>1, <1>3, <1>8 DEF MatchInv, MatchCore, HandledInv
<1>14. DoneInv'
  BY <1>1, <1>8 DEF MatchInv, MatchCore, DoneInv
<1>15. TallyIsTrue'
  BY <1>1 DEF MatchInv, TallyIsTrue, Ending
<1>16. Whole'
  BY ZenonT(40), <1>1 DEF MatchInv, Whole, Ready, Complete, Half, Buffered, Worth, PairScore
<1> QED BY <1>8, <1>10, <1>11, <1>12, <1>13, <1>14, <1>15, <1>16 DEF MatchInv, MatchCore

-----------------------------------------------------------------------------
\* The figures.

\* The report of a pair moves its score from the buffer to the counts.
LEMMA PairPreserves ==
  ASSUME TypeOK, TuningInv, NamedInv, Match, MatchInv, HandlePair
  PROVE  MatchInv'
<1> DEFINE w == Report.worker
           buffer == pair_score_buffers[w]
           counts == update_pair(pair_counts, buffer)
           verdict == IF mode = "sprt" /\ Len(buffer) = 2 THEN LlrVerdict(counts)
                      ELSE "continue"
           sent == MayDispatch /\ ~Decides(verdict) /\ w \notin Gone
<1>1. IInv
  BY DEF IInv
<1>2. /\ Report = reports[1] /\ Report.kind = "pair" /\ w \in WorkerIds
      /\ Busy(w) /\ ~Waiting(w) /\ worker[w].pair \in Pairs /\ PairOf(w) = worker[w].pair
      /\ GameOf(w, 0) \in handled /\ GameOf(w, 1) \in handled
      /\ buffer = <<Worth(GameOf(w, 0)), Worth(GameOf(w, 1))>>
  BY <1>1, HandledPair
<1>3. /\ cpc = "drain" /\ cpc' = "drain" /\ Hear
      /\ pair_score_buffers' = [pair_score_buffers EXCEPT ![w] = <<>>]
      /\ pair_counts' = counts
      /\ IF Decides(verdict)
         THEN /\ terminating' = TRUE /\ stop_reason' = verdict
              /\ limit' = t + Outstanding(handled)
         ELSE UNCHANGED stopVars
      /\ pairs_in_flight' = [pairs_in_flight EXCEPT ![w] = Fewer(@) + (IF sent THEN 1 ELSE 0)]
      /\ IF sent
         THEN /\ Send(w, PlayPair(pairs_dispatched))
              /\ pairs_dispatched' = pairs_dispatched + 1
         ELSE UNCHANGED <<cmds, pairs_dispatched>>
      /\ UNCHANGED <<worker, won, open, mode, slot, t, wins, losses, draws, handled,
                     discarded_singletons, failure>>
  BY DEF HandlePair, Draining, UNCHANGED_Workers
<1>4. sent \in BOOLEAN /\ (sent => ~Decides(verdict) /\ ~terminating /\ pairs_dispatched < total_pairs)
  BY DEF MayDispatch
<1> HIDE DEF sent, counts
<1>5. /\ Len(reports) \in Nat /\ Len(reports') = Len(reports) - 1 /\ 1 \in 1 .. Len(reports)
      /\ \A i \in 1 .. Len(reports') : /\ reports'[i] = reports[i + 1]
                                       /\ i + 1 \in 1 .. Len(reports)
                                       /\ reports[i + 1].worker \in WorkerIds
      /\ \A i \in 1 .. Len(reports) :
           i # 1 => i - 1 \in 1 .. Len(reports') /\ reports'[i - 1] = reports[i]
  BY <1>3, HeardReport
<1>6. open /\ worker[w].pc \in {"ready", "leaving", "gone"}
  BY <1>2, <1>3, <1>5 DEF MatchInv, MatchCore, PhaseInv, ReportInv
<1>7. cmds[w] = <<>>
  <2>1. cmds[w] # <<>> => /\ Head(cmds[w]).op \in {"pair", "quit"}
                          /\ Head(cmds[w]) = cmds[w][1] /\ 1 \in 1 .. Len(cmds[w])
    BY <1>2, FirstCommand
  <2> QED BY <1>2, <1>6, <2>1 DEF MatchInv, MatchCore, CommandInv, Waiting
<1>8. /\ pairs_in_flight' = [pairs_in_flight EXCEPT ![w] = IF sent THEN 1 ELSE 0]
      /\ sent => cmds' = [cmds EXCEPT ![w] = <<PlayPair(pairs_dispatched)>>]
  <2>1. pairs_in_flight[w] = 1
    BY <1>2 DEF Busy
  <2>2. Append(<<>>, PlayPair(pairs_dispatched)) = <<PlayPair(pairs_dispatched)>>
    OBVIOUS
  <2>3. pairs_in_flight' = [pairs_in_flight EXCEPT ![w] = IF sent THEN 1 ELSE 0]
    BY <1>2, <1>3, <1>4, <2>1 DEF Fewer, TypeOK
  <2>4. sent => cmds' = [cmds EXCEPT ![w] = <<PlayPair(pairs_dispatched)>>]
    BY <1>2, <1>3, <1>7, <2>2 DEF Send, TypeOK, PoolTypeOK
  <2> QED BY <2>3, <2>4
<1>9. /\ CommandInv' /\ PlaceInv' /\ OwnerInv' /\ FreshInv' /\ StageInv' /\ BufferInv'
      /\ \A p \in 0 .. pairs_dispatched' - 1 :
           \/ {game_index(p, 0), game_index(p, 1)} \subseteq handled
           \/ (\E v \in WorkerIds : Busy(v) /\ PairOf(v) = p)'
      /\ handled \subseteq Dispatched'
      /\ \A v \in WorkerIds \ {w} : (Busy(v)' <=> Busy(v)) /\ (Waiting(v)' <=> Waiting(v))
  <2>1. /\ cpc # "returned" /\ cpc' # "returned" /\ UNCHANGED <<worker, won, open, handled>>
        /\ worker[w].pc # "starting"
        /\ worker[w].pc \in {"starting", "ready", "leaving", "gone"}
    BY <1>3, <1>6
  <2>2. /\ sent => /\ pairs_dispatched < total_pairs
                   /\ cmds' = [cmds EXCEPT ![w] = <<PlayPair(pairs_dispatched)>>]
                   /\ pairs_dispatched' = pairs_dispatched + 1
        /\ ~sent => UNCHANGED <<cmds, pairs_dispatched>>
    BY <1>3, <1>4, <1>8
  <2> HIDE DEF w
  <2> QED
    BY <1>2, <1>3, <1>4, <1>6, <1>7, <1>8, <2>1, <2>2, Dispatching DEF MatchInv
<1> HIDE DEF w
<1>10. \A i \in 1 .. Len(reports') : reports'[i].worker = w => reports'[i].kind = "failure"
  <2> SUFFICES ASSUME NEW i \in 1 .. Len(reports'), reports'[i].worker = w,
                      reports'[i].kind # "failure"
               PROVE  FALSE
    OBVIOUS
  <2>1. i + 1 \in 1 .. Len(reports) /\ reports'[i] = reports[i + 1] /\ i + 1 # 1
    BY <1>5
  <2>2. reports[i + 1].kind \in {"game", "pair"}
    BY <2>1, ReportFields
  <2>3. reports[i + 1].kind # "game"
    BY <1>2, <2>1 DEF MatchInv, MatchCore, ReportInv
  <2>4. reports[1].kind = "pair" /\ reports[1].worker = w
    BY <1>2 DEF w
  <2> QED BY <1>5, <2>1, <2>2, <2>3, <2>4 DEF MatchInv, MatchCore, OnceInv
<1>11. PhaseInv'
  BY <1>3 DEF MatchInv, MatchCore, PhaseInv
<1>12. ReportInv'
  <2> SUFFICES ASSUME NEW i \in 1 .. Len(reports'), NEW v \in WorkerIds,
                      reports'[i].worker = v, v # w
               PROVE  /\ reports'[i].kind # "failure" => Busy(v)' /\ ~Waiting(v)'
                      /\ reports'[i].kind = "game" =>
                           /\ reports'[i].game \in {GameOf(v, 0), GameOf(v, 1)} \ handled
                           /\ won[reports'[i].game] # "none"
                           /\ reports'[i].score = Worth(reports[i].game)'
                      /\ reports'[i].kind = "pair" =>
                           worker[v].pc \in {"ready", "leaving", "gone"}
    BY <1>3, <1>10 DEF ReportInv, GameOf
  <2>1. reports'[i] = reports[i + 1] /\ i + 1 \in 1 .. Len(reports)
    BY <1>5
  <2> QED BY <1>3, <1>9, <2>1 DEF MatchInv, MatchCore, ReportInv, Worth
<1>13. OnceInv' /\ OrderInv' /\ ToldInv'
  <2>1. Report.kind # "game" /\ handled' = handled /\ UNCHANGED <<worker, won>>
    BY <1>2, <1>3
  <2> QED BY <1>3, <2>1, ShiftedOrder DEF MatchInv, MatchCore
<1>14. /\ handled \in SUBSET Dispatched /\ pairs_dispatched \in 0 .. total_pairs
       /\ t = Cardinality(handled) /\ t \in Nat
       /\ Outstanding(handled) = Cardinality(Dispatched \ handled)
       /\ Outstanding(handled) \in Nat
  <2>1. /\ handled \in SUBSET Dispatched /\ pairs_dispatched \in 0 .. total_pairs
        /\ t = Cardinality(handled)
    BY DEF MatchInv, MatchCore, HandledInv, TypeOK
  <2> QED BY <2>1, OutstandingGames
<1>15. HandledInv'
  <2>1. terminating' => limit' = t + Cardinality(Dispatched' \ handled)
    <3>1. CASE Decides(verdict)
      <4>1. pairs_dispatched' = pairs_dispatched
        BY <1>3, <1>4, <3>1
      <4> QED BY <1>3, <1>14, <3>1, <4>1 DEF Dispatched
    <3>2. CASE ~Decides(verdict)
      <4>1. terminating => pairs_dispatched' = pairs_dispatched
        BY <1>3, <1>4
      <4>2. terminating' = terminating /\ limit' = limit
        BY <1>3, <3>2
      <4> QED BY <4>1, <4>2 DEF MatchInv, MatchCore, HandledInv, Dispatched
    <3> QED BY <3>1, <3>2
  <2>2. ~terminating' => limit' = MaxGames
    BY <1>3 DEF MatchInv, MatchCore, HandledInv
  <2> QED BY <1>3, <1>9, <2>1, <2>2 DEF MatchInv, MatchCore, HandledInv
<1>16. DoneInv'
  <2>1. ASSUME NEW v \in WorkerIds, worker[v].pc \in {"leaving", "gone"}, ~failure
        PROVE  \E i \in 1 .. Len(reports') : reports'[i].kind = "failure"
    <3>1. PICK i \in 1 .. Len(reports) : reports[i].kind = "failure"
      BY <1>6, <2>1 DEF MatchInv, MatchCore, DoneInv
    <3>2. i # 1
      BY <1>2, <3>1
    <3> QED BY <1>5, <3>1, <3>2
  <2> QED BY <1>3, <1>9, <2>1 DEF DoneInv
<1>17. TallyIsTrue'
  <2>1. t <= limit'
    <3>1. t <= limit
      BY DEF MatchInv, TallyIsTrue, Match
    <3> QED BY <1>3, <1>14, <3>1
  <2> QED BY <1>3, <2>1 DEF MatchInv, TallyIsTrue, Ending
<1>18. PICK a \in Bins : buffer[1] + buffer[2] = a /\ Len(buffer) = 2
  <2>1. \A g : Worth(g) \in 0 .. 2
    BY DEF Worth
  <2> QED BY <1>2, <2>1 DEF Bins
<1>19. /\ pair_counts' = [pair_counts EXCEPT ![a] = @ + 1]
  BY <1>3, <1>18 DEF counts, update_pair, PairScore
<1>20. w \in Ready(a)
  BY <1>2, <1>18 DEF Ready, Buffered, PairScore
<1>21. /\ Ready(a)' = Ready(a) \ {w}
       /\ \A b \in Bins \ {a} : Ready(b)' = Ready(b)
       /\ Buffered(1)' = Buffered(1)
  <2>1. \A v \in WorkerIds \ {w} : pair_score_buffers'[v] = pair_score_buffers[v]
    BY <1>3 DEF TypeOK
  <2>2. pair_score_buffers'[w] = <<>> /\ Len(pair_score_buffers'[w]) = 0
    BY <1>2, <1>3 DEF TypeOK
  <2>3. Buffered(2)' = Buffered(2) \ {w} /\ Buffered(1)' = Buffered(1)
    BY <1>18, <2>1, <2>2 DEF Buffered
  <2>4. \A v \in Buffered(2) \ {w} : PairScore(pair_score_buffers'[v]) = PairScore(pair_score_buffers[v])
    BY <2>1 DEF Buffered
  <2>5. PairScore(pair_score_buffers[w]) = a
    BY <1>18 DEF PairScore
  <2>6. \A b \in Bins : Ready(b)' = {v \in Buffered(2) \ {w} : PairScore(pair_score_buffers'[v]) = b}
    BY <2>3 DEF Ready, PairScore
  <2>7. Ready(a)' = Ready(a) \ {w}
    BY <1>18, <2>4, <2>6 DEF Ready
  <2>8. \A b \in Bins \ {a} : Ready(b)' = Ready(b)
    BY <2>4, <2>5, <2>6 DEF Ready
  <2> QED BY <2>3, <2>7, <2>8
<1>22. /\ \A b \in Bins : Complete(b)' = Complete(b)
       /\ Half' = Half
  BY <1>3 DEF Complete, Half, Worth
<1>23. Whole'
  <2>1. ASSUME NEW b \in Bins
        PROVE  pair_counts'[b] + Cardinality(Ready(b)') = Cardinality(Complete(b))
    <3>1. /\ IsFiniteSet(Ready(b)) /\ Cardinality(Ready(b)) \in Nat
          /\ pair_counts \in [Bins -> Nat]
          /\ pair_counts[b] + Cardinality(Ready(b)) = Cardinality(Complete(b))
      BY BufferSets DEF MatchInv, Whole, TypeOK, Counts
    <3>2. CASE b = a
      <4>1. Cardinality(Ready(a) \ {w}) = Cardinality(Ready(a)) - 1
        BY <1>20, <3>1, <3>2, FS_RemoveElement
      <4>2. pair_counts'[a] = pair_counts[a] + 1
        BY <1>18, <1>19, <3>1
      <4>3. Ready(b)' = Ready(a) \ {w}
        BY <1>21, <3>2
      <4>4. Cardinality(Ready(b)') = Cardinality(Ready(b)) - 1
        BY <3>2, <4>1, <4>3
      <4>5. pair_counts[b] \in Nat /\ pair_counts'[b] = pair_counts[b] + 1
        BY <3>1, <3>2, <4>2
      <4> QED BY <3>1, <4>4, <4>5
    <3>3. CASE b # a
      BY <1>19, <1>21, <3>1, <3>3
    <3> QED BY <3>2, <3>3
  <2>2. discarded_singletons' + Cardinality(Buffered(1)') = Cardinality(Half)
    BY <1>3, <1>21 DEF MatchInv, Whole
  <2> QED BY <1>3, <1>22, <2>1, <2>2 DEF Whole
<1> QED
  BY <1>9, <1>11, <1>12, <1>13, <1>15, <1>16, <1>17, <1>23 DEF MatchInv, MatchCore

\* The report of a game counts it and puts its score into the buffer.
LEMMA GamePreserves ==
  ASSUME TypeOK, TuningInv, NamedInv, Match, MatchInv, HandleGame
  PROVE  MatchInv'
<1>1. IInv
  BY DEF IInv
<1>2. PICK w \in WorkerIds, g \in Games :
      /\ w = Report.worker /\ g = Report.game
      /\ Report = reports[1] /\ Report.kind = "game"
      /\ Report.score \in 0 .. 2 /\ Busy(w) /\ ~Waiting(w)
      /\ g \in {GameOf(w, 0), GameOf(w, 1)} /\ g \in Games \cap Dispatched /\ g \notin handled
      /\ won[g] # "none" /\ Report.score = Worth(g)
  BY <1>1, HandledGame
<1>3. /\ cpc = "drain" /\ cpc' = "drain" /\ Hear /\ t < MaxGames /\ t' = t + 1
      /\ wins' = wins + (IF Report.score = 2 THEN 1 ELSE 0)
      /\ losses' = losses + (IF Report.score = 0 THEN 1 ELSE 0)
      /\ draws' = draws + (IF Report.score = 1 THEN 1 ELSE 0)
      /\ pair_score_buffers' = [pair_score_buffers EXCEPT ![w] = Append(@, Report.score)]
      /\ handled' = handled \cup {g}
      /\ \/ ~terminating /\ terminating' = TRUE /\ limit' = t' + Outstanding(handled')
         \/ UNCHANGED stopVars
      /\ UNCHANGED <<worker, won, cmds, open, mode, slot, dispatchVars, sprtVars, failure>>
  BY <1>2 DEF HandleGame, Draining, UNCHANGED_Workers
<1>4. /\ Len(reports) \in Nat /\ Len(reports') = Len(reports) - 1 /\ 1 \in 1 .. Len(reports)
      /\ \A i \in 1 .. Len(reports') : /\ reports'[i] = reports[i + 1]
                                       /\ i + 1 \in 1 .. Len(reports)
                                       /\ reports[i + 1].worker \in WorkerIds
      /\ \A i \in 1 .. Len(reports) :
           i # 1 => i - 1 \in 1 .. Len(reports') /\ reports'[i - 1] = reports[i]
  BY <1>3, HeardReport
<1>5. \A v \in WorkerIds :
        /\ Busy(v)' <=> Busy(v)
        /\ Waiting(v)' <=> Waiting(v)
        /\ PairOf(v)' = PairOf(v)
        /\ \A leg \in {0, 1} : GameOf(v, leg)' = GameOf(v, leg)
  BY <1>3 DEF Busy, Waiting, PairOf, GameOf
<1>6. PICK p \in Pairs :
      /\ p \in Nat /\ GameOf(w, 0) # GameOf(w, 1) /\ PairOf(w) = p
      /\ GameOf(w, 0) = game_index(p, 0) /\ GameOf(w, 1) = game_index(p, 1)
  BY <1>2, OwnGames, TotalPairs DEF PairOf, GameOf
<1>7. \* The second game comes after the first.
      /\ g = GameOf(w, 0) => GameOf(w, 1) \notin handled
      /\ g = GameOf(w, 1) => GameOf(w, 0) \in handled
  <2>1. g = GameOf(w, 0) => GameOf(w, 1) \notin handled
    BY <1>2 DEF MatchInv, MatchCore, BufferInv
  <2>2. ~Reported(GameOf(w, 0), 1 - 1)
    BY DEF Reported
  <2>3. g = GameOf(w, 1) => GameOf(w, 0) \in handled
    BY <1>2, <1>4, <2>2 DEF MatchInv, MatchCore, OrderInv
  <2> QED BY <2>1, <2>3
<1>8. \A v \in WorkerIds \ {w} : Busy(v) /\ ~Waiting(v) =>
        /\ GameOf(v, 0) # g /\ GameOf(v, 1) # g
        /\ GameOf(v, 0) \in handled' <=> GameOf(v, 0) \in handled
        /\ GameOf(v, 1) \in handled' <=> GameOf(v, 1) \in handled
  <2> SUFFICES ASSUME NEW v \in WorkerIds \ {w}, Busy(v), ~Waiting(v)
               PROVE  GameOf(v, 0) # g /\ GameOf(v, 1) # g
    BY <1>3
  <2>1. PairOf(v) = worker[v].pair /\ PairOf(v) # PairOf(w)
    BY <1>2 DEF MatchInv, MatchCore, OwnerInv, PairOf
  <2>2. worker[v].pair \in Nat
    BY OwnGames, TotalPairs
  <2> QED BY <1>2, <1>6, <2>1, <2>2, GameIndex DEF GameOf
<1>9. CommandInv' /\ PhaseInv' /\ PlaceInv' /\ OwnerInv' /\ FreshInv' /\ StageInv'
  BY <1>3, <1>5
  DEF MatchInv, MatchCore, CommandInv, PhaseInv, PlaceInv, OwnerInv, FreshInv, StageInv
<1>10. ReportInv'
  <2> SUFFICES ASSUME NEW i \in 1 .. Len(reports'), NEW v \in WorkerIds,
                      reports'[i].worker = v
               PROVE  /\ reports'[i].kind # "failure" => Busy(v) /\ ~Waiting(v)
                      /\ reports'[i].kind = "game" =>
                           /\ reports'[i].game \in {GameOf(v, 0), GameOf(v, 1)} \ handled'
                           /\ won[reports'[i].game] # "none"
                           /\ reports'[i].score = Worth(reports[i].game)'
                      /\ reports'[i].kind = "pair" =>
                           worker[v].pc \in {"ready", "leaving", "gone"}
    BY <1>3, <1>5 DEF ReportInv
  <2>1. reports'[i] = reports[i + 1] /\ i + 1 \in 1 .. Len(reports) /\ i + 1 # 1
    BY <1>4
  <2>2. reports[i + 1].kind = "game" => reports[i + 1].game # g
    BY <1>2, <1>4, <2>1 DEF MatchInv, MatchCore, OnceInv
  <2> QED BY <1>3, <2>1, <2>2 DEF MatchInv, MatchCore, ReportInv, Worth
<1>11. OnceInv' /\ OrderInv' /\ ToldInv'
  <2>1. handled \subseteq handled' /\ Report.game \in handled' /\ UNCHANGED <<worker, won>>
    BY <1>2, <1>3
  <2> QED BY <1>3, <2>1, ShiftedOrder DEF MatchInv, MatchCore
<1>12. /\ pair_score_buffers'[w] = Append(pair_score_buffers[w], Worth(g))
       /\ \A v \in WorkerIds \ {w} : pair_score_buffers'[v] = pair_score_buffers[v]
       /\ pair_score_buffers[w] =
            IF g = GameOf(w, 0) THEN <<>> ELSE <<Worth(GameOf(w, 0))>>
  <2>1. pair_score_buffers[w] = Scores(w)
    BY <1>2, <1>3 DEF MatchInv, MatchCore, BufferInv
  <2>2. Scores(w) = IF g = GameOf(w, 0) THEN <<>> ELSE <<Worth(GameOf(w, 0))>>
    BY <1>2, <1>7 DEF Scores
  <2> QED BY <1>2, <1>3, <2>1, <2>2 DEF TypeOK
<1>13. /\ g = GameOf(w, 0) => pair_score_buffers'[w] = <<Worth(g)>>
       /\ g = GameOf(w, 1) => pair_score_buffers'[w] = <<Worth(GameOf(w, 0)), Worth(g)>>
  <2>1. g = GameOf(w, 0) => pair_score_buffers'[w] = Append(<<>>, Worth(g))
    BY <1>12
  <2>2. g = GameOf(w, 1) => pair_score_buffers'[w] = Append(<<Worth(GameOf(w, 0))>>, Worth(g))
    BY <1>6, <1>12
  <2> QED BY <2>1, <2>2
<1>14. BufferInv'
  <2>1. \A v \in WorkerIds \ {w} : Scores(v)' = Scores(v)
    BY <1>3, <1>5, <1>8 DEF Scores, Worth
  <2>2. Scores(w)' = pair_score_buffers'[w]
    <3>1. CASE g = GameOf(w, 0)
      <4>1. GameOf(w, 0) \in handled' /\ GameOf(w, 1) \notin handled'
        BY <1>3, <1>6, <1>7, <3>1
      <4> QED BY ZenonT(40), <1>2, <1>3, <1>5, <1>13, <3>1, <4>1 DEF Scores, Worth
    <3>2. CASE g = GameOf(w, 1)
      <4>1. GameOf(w, 0) \in handled' /\ GameOf(w, 1) \in handled'
        BY <1>3, <1>7, <3>2
      <4> QED BY <1>2, <1>3, <1>5, <1>13, <3>2, <4>1 DEF Scores, Worth
    <3> QED BY <1>2, <3>1, <3>2
  <2>3. \A v \in WorkerIds : pair_score_buffers'[v] = Scores(v)'
    BY <1>3, <1>12, <2>1, <2>2 DEF MatchInv, MatchCore, BufferInv
  <2>4. \A v \in WorkerIds :
          Busy(v) /\ ~Waiting(v) /\ GameOf(v, 1) \in handled' => GameOf(v, 0) \in handled'
    <3>1. GameOf(w, 1) \in handled' => GameOf(w, 0) \in handled'
      BY <1>2, <1>3, <1>6, <1>7
    <3> QED BY <1>8, <3>1 DEF MatchInv, MatchCore, BufferInv
  <2> QED BY <1>3, <1>5, <2>3, <2>4 DEF BufferInv
<1>15. /\ handled \in SUBSET Dispatched /\ handled' \in SUBSET Dispatched
       /\ pairs_dispatched \in 0 .. total_pairs /\ t = Cardinality(handled)
       /\ IsFiniteSet(handled) /\ t \in Nat /\ t' = Cardinality(handled')
  <2>1. /\ handled \in SUBSET Dispatched /\ t = Cardinality(handled)
        /\ pairs_dispatched \in 0 .. total_pairs
    BY DEF MatchInv, MatchCore, HandledInv, TypeOK
  <2>2. handled' \in SUBSET Dispatched
    BY <1>2, <1>3, <2>1
  <2>3. IsFiniteSet(handled) /\ Cardinality(handled) \in Nat
    BY <2>1, OutstandingGames
  <2>4. Cardinality(handled \cup {g}) = Cardinality(handled) + 1
    BY <1>2, <2>3, FS_AddElement
  <2> QED BY <1>3, <2>1, <2>2, <2>3, <2>4
<1>16. /\ Outstanding(handled') = Cardinality(Dispatched \ handled')
       /\ Outstanding(handled') \in Nat
       /\ t' + Cardinality(Dispatched \ handled') = t + Cardinality(Dispatched \ handled)
  <2>1. /\ Outstanding(handled') = Cardinality(Dispatched \ handled')
        /\ Outstanding(handled') \in Nat
        /\ t' + Outstanding(handled') = 2 * pairs_dispatched
    BY <1>15, OutstandingGames
  <2>2. /\ Outstanding(handled) = Cardinality(Dispatched \ handled)
        /\ t + Outstanding(handled) = 2 * pairs_dispatched
    BY <1>15, OutstandingGames
  <2> QED BY <2>1, <2>2
<1>17. HandledInv'
  <2>1. \A h \in handled' : won[h] # "none"
    BY <1>2, <1>3 DEF MatchInv, MatchCore, HandledInv
  <2>2. Dispatched' = Dispatched
    BY <1>3 DEF Dispatched
  <2>3. terminating' => limit' = t' + Cardinality(Dispatched \ handled')
    BY <1>3, <1>16 DEF MatchInv, MatchCore, HandledInv
  <2>4. ~terminating' => limit' = MaxGames
    BY <1>3 DEF MatchInv, MatchCore, HandledInv
  <2> QED BY <1>3, <1>15, <2>1, <2>2, <2>3, <2>4 DEF HandledInv
<1>18. DoneInv'
  <2>1. ASSUME NEW v \in WorkerIds, open, worker[v].pc \in {"leaving", "gone"}, ~failure
        PROVE  \E i \in 1 .. Len(reports') : reports'[i].kind = "failure"
    <3>1. PICK i \in 1 .. Len(reports) : reports[i].kind = "failure"
      BY <2>1 DEF MatchInv, MatchCore, DoneInv
    <3>2. i # 1
      BY <1>2, <3>1
    <3> QED BY <1>4, <3>1, <3>2
  <2>2. \A q \in 0 .. pairs_dispatched - 1 :
          \/ {game_index(q, 0), game_index(q, 1)} \subseteq handled'
          \/ \E v \in WorkerIds : Busy(v) /\ PairOf(v) = q
    BY <1>3 DEF MatchInv, MatchCore, DoneInv
  <2> QED BY <1>3, <1>5, <2>1, <2>2 DEF DoneInv
<1>19. TallyIsTrue'
  <2>1. ASSUME NEW result
        PROVE  Ending(result)' = Ending(result) + (IF won[g] = result THEN 1 ELSE 0)
    <3> DEFINE S == {i \in handled : won[i] = result}
    <3>1. IsFiniteSet(S) /\ Cardinality(S) \in Nat /\ g \notin S
      BY <1>2, <1>15, FS_Subset, FS_CardinalityType
    <3>2. {i \in handled' : won'[i] = result} = IF won[g] = result THEN S \cup {g} ELSE S
      BY <1>3
    <3>3. Cardinality(S \cup {g}) = Cardinality(S) + 1
      BY <3>1, FS_AddElement
    <3> HIDE DEF S
    <3>4. Ending(result) = Cardinality(S)
      BY DEF Ending, S
    <3>5. Ending(result)' = Cardinality(IF won[g] = result THEN S \cup {g} ELSE S)
      BY <3>2 DEF Ending
    <3> QED BY <3>1, <3>3, <3>4, <3>5
  <2>2. won[g] \in {"engine", "opponent", "draw"}
    BY <1>2 DEF TypeOK, PoolTypeOK, Results, Players
  <2>3. /\ Report.score = 2 <=> won[g] = "engine"
        /\ Report.score = 0 <=> won[g] = "opponent"
        /\ Report.score = 1 <=> won[g] = "draw"
    BY <1>2, <2>2 DEF Worth
  <2>4. wins = Ending("engine") /\ losses = Ending("opponent") /\ draws = Ending("draw")
        /\ t <= limit
    BY DEF MatchInv, TallyIsTrue, Match
  <2>5. /\ wins' = Ending("engine")' /\ losses' = Ending("opponent")'
        /\ draws' = Ending("draw")'
    BY <1>3, <2>1, <2>3, <2>4
  <2>6. t' <= limit'
    <3>1. \A T \in SUBSET Dispatched : Cardinality(Dispatched \ T) \in Nat
      BY <1>15, OutstandingGames
    <3> QED BY <1>3, <1>15, <1>16, <1>17, <3>1, TotalPairs DEF HandledInv, Dispatched
  <2> QED BY <1>3, <1>15, <2>5, <2>6 DEF TallyIsTrue
<1>20. \A b \in Bins : Worth(g) \in 0 .. 2
  BY DEF Worth
<1>21. /\ \A q \in Pairs, leg \in {0, 1} : q # p =>
             (game_index(q, leg) \in handled' <=> game_index(q, leg) \in handled)
       /\ \A h : Worth(h)' = Worth(h)
  <2>1. ASSUME NEW q \in Pairs, NEW leg \in {0, 1}, q # p
        PROVE  game_index(q, leg) # g
    BY <1>2, <1>6, <2>1, GameIndex, TotalPairs
  <2> QED BY <1>3, <2>1 DEF Worth
<1>22. CASE g = GameOf(w, 0)
  <2>1. /\ game_index(p, 0) \notin handled /\ game_index(p, 1) \notin handled
        /\ game_index(p, 0) \in handled' /\ game_index(p, 1) \notin handled'
    BY <1>2, <1>3, <1>6, <1>7, <1>22
  <2>2. \A b \in Bins : Complete(b)' = Complete(b)
    BY <1>6, <1>21, <2>1 DEF Complete
  <2>3. Half' = Half \cup {p} /\ p \notin Half
    BY <1>6, <1>21, <2>1 DEF Half
  <2>4. /\ Len(pair_score_buffers[w]) = 0 /\ Len(pair_score_buffers'[w]) = 1
    BY <1>12, <1>13, <1>22
  <2>5. /\ Buffered(1)' = Buffered(1) \cup {w} /\ w \notin Buffered(1)
        /\ Buffered(2)' = Buffered(2) /\ w \notin Buffered(2)
    <3>1. \A v \in WorkerIds \ {w} : Len(pair_score_buffers'[v]) = Len(pair_score_buffers[v])
      BY <1>12
    <3>2. Buffered(1)' = Buffered(1) \cup {w} /\ w \notin Buffered(1)
      BY <2>4, <3>1 DEF Buffered
    <3>3. Buffered(2)' = Buffered(2) /\ w \notin Buffered(2)
      BY <2>4, <3>1 DEF Buffered
    <3> QED BY <3>2, <3>3
  <2>6. \A b \in Bins : Ready(b)' = Ready(b)
    <3>1. \A v \in Buffered(2) : pair_score_buffers'[v] = pair_score_buffers[v]
      BY <1>12, <2>5 DEF Buffered
    <3> QED BY <2>5, <3>1 DEF Ready, PairScore
  <2>7. \A b \in Bins : pair_counts'[b] + Cardinality(Ready(b)') = Cardinality(Complete(b)')
    BY <1>3, <2>2, <2>6 DEF MatchInv, Whole
  <2>8. Cardinality(Half') = Cardinality(Half) + 1
    BY <1>15, <2>3, PairsFinite, FS_AddElement
  <2>9. Cardinality(Buffered(1)') = Cardinality(Buffered(1)) + 1
    BY <2>5, BufferSets, FS_AddElement
  <2>10. discarded_singletons' + Cardinality(Buffered(1)') = Cardinality(Half')
    <3>1. discarded_singletons + Cardinality(Buffered(1)) = Cardinality(Half)
          /\ discarded_singletons \in Nat /\ Cardinality(Buffered(1)) \in Nat
      BY BufferSets DEF MatchInv, Whole, TypeOK
    <3> QED BY <1>3, <2>8, <2>9, <3>1
  <2>11. Whole'
    BY <1>3, <2>7, <2>10 DEF Whole
  <2> QED
    BY <1>9, <1>10, <1>11, <1>14, <1>17, <1>18, <1>19, <2>11 DEF MatchInv, MatchCore
<1>23. CASE g = GameOf(w, 1)
  <2>1. /\ game_index(p, 0) \in handled /\ game_index(p, 1) \notin handled
        /\ game_index(p, 0) \in handled' /\ game_index(p, 1) \in handled'
    BY <1>2, <1>3, <1>6, <1>7, <1>23
  <2>2. PICK a \in Bins : a = Worth(GameOf(w, 0)) + Worth(GameOf(w, 1))
    <3>1. \A h : Worth(h) \in 0 .. 2
      BY DEF Worth
    <3> QED BY <3>1 DEF Bins
  <2>3. /\ Complete(a)' = Complete(a) \cup {p} /\ p \notin Complete(a)
        /\ \A b \in Bins \ {a} : Complete(b)' = Complete(b)
    BY <1>6, <1>21, <2>1, <2>2 DEF Complete
  <2>4. Half' = Half \ {p} /\ p \in Half
    BY <1>6, <1>21, <2>1 DEF Half
  <2>5. /\ Len(pair_score_buffers[w]) = 1 /\ Len(pair_score_buffers'[w]) = 2
        /\ PairScore(pair_score_buffers'[w]) = a
    <3>1. /\ pair_score_buffers[w] = <<Worth(GameOf(w, 0))>>
          /\ pair_score_buffers'[w] = <<Worth(GameOf(w, 0)), Worth(GameOf(w, 1))>>
      BY <1>6, <1>12, <1>13, <1>23
    <3> QED BY <2>2, <3>1 DEF PairScore
  <2>6. /\ Buffered(1)' = Buffered(1) \ {w} /\ w \in Buffered(1)
        /\ Buffered(2)' = Buffered(2) \cup {w} /\ w \notin Buffered(2)
    BY <1>2, <1>12, <2>5 DEF Buffered
  <2>7. /\ Ready(a)' = Ready(a) \cup {w} /\ w \notin Ready(a)
        /\ \A b \in Bins \ {a} : Ready(b)' = Ready(b)
    <3>1. \A v \in Buffered(2) : PairScore(pair_score_buffers'[v]) = PairScore(pair_score_buffers[v])
      BY <1>12, <2>6 DEF Buffered
    <3>2. \A b \in Bins : Ready(b)' =
            {v \in Buffered(2) \cup {w} : PairScore(pair_score_buffers'[v]) = b}
      BY <2>6 DEF Ready, PairScore
    <3>3. Ready(a)' = Ready(a) \cup {w} /\ w \notin Ready(a)
      BY <2>2, <2>5, <2>6, <3>1, <3>2 DEF Ready
    <3>4. \A b \in Bins \ {a} : Ready(b)' = Ready(b)
      BY <2>5, <3>1, <3>2 DEF Ready
    <3> QED BY <3>3, <3>4
  <2>8. ASSUME NEW b \in Bins
        PROVE  pair_counts'[b] + Cardinality(Ready(b)') = Cardinality(Complete(b)')
    <3>1. /\ IsFiniteSet(Ready(b)) /\ Cardinality(Ready(b)) \in Nat
          /\ IsFiniteSet(Complete(b)) /\ pair_counts[b] \in Nat
          /\ pair_counts[b] + Cardinality(Ready(b)) = Cardinality(Complete(b))
          /\ pair_counts'[b] = pair_counts[b]
      BY <1>3, <1>15, BufferSets, PairsFinite DEF MatchInv, Whole, TypeOK, Counts
    <3>2. CASE b = a
      <4>1. Ready(b)' = Ready(b) \cup {w} /\ Complete(b)' = Complete(b) \cup {p}
            /\ w \notin Ready(b) /\ p \notin Complete(b)
        BY <2>3, <2>7, <3>2
      <4>2. /\ Cardinality(Ready(b) \cup {w}) = Cardinality(Ready(b)) + 1
            /\ Cardinality(Complete(b) \cup {p}) = Cardinality(Complete(b)) + 1
        BY <3>1, <4>1, FS_AddElement
      <4>3. /\ Cardinality(Ready(b)') = Cardinality(Ready(b)) + 1
            /\ Cardinality(Complete(b)') = Cardinality(Complete(b)) + 1
        BY <4>1, <4>2
      <4> QED BY <3>1, <4>3
    <3>3. CASE b # a
      BY <2>3, <2>7, <3>1, <3>3
    <3> QED BY <3>2, <3>3
  <2>9. Cardinality(Half') = Cardinality(Half) - 1
    BY <1>15, <2>4, PairsFinite, FS_RemoveElement
  <2>10. Cardinality(Buffered(1)') = Cardinality(Buffered(1)) - 1
    BY <2>6, BufferSets, FS_RemoveElement
  <2>11. discarded_singletons' + Cardinality(Buffered(1)') = Cardinality(Half')
    <3>1. discarded_singletons + Cardinality(Buffered(1)) = Cardinality(Half)
          /\ discarded_singletons \in Nat /\ Cardinality(Buffered(1)) \in Nat
      BY BufferSets DEF MatchInv, Whole, TypeOK
    <3> QED BY <1>3, <2>9, <2>10, <3>1
  <2>12. Whole'
    BY <1>3, <2>8, <2>11 DEF Whole
  <2> QED
    BY <1>9, <1>10, <1>11, <1>14, <1>17, <1>18, <1>19, <2>12 DEF MatchInv, MatchCore
<1> QED BY <1>2, <1>22, <1>23

-----------------------------------------------------------------------------
\* The theorems.

LEMMA InitIInv == Init => IInv
BY InitTypes, InitMatch DEF IInv

LEMMA NextPreserves ==
  ASSUME IInv, [Next]_vars
  PROVE  IInv'
<1>1. TypeOK' /\ TuningInv' /\ NamedInv'
  BY TypePreserved, ReportsPreserved
<1>2. TypeOK /\ TuningInv /\ NamedInv /\ (Match => MatchInv)
  BY DEF IInv
<1>3. mode' = mode
  BY DEF Next, Controller, Worker, Finished, Bootstrap, Bootstrapped, HandleGame,
         HandlePair, HandleFailure, StopDraining, QuitAll, ReturnError, ReturnOk,
         SpsaFails, SpsaDispatch, SpsaHandle, SpsaStep
<1>4. Match' <=> Match
  BY <1>3 DEF Match
<1>5. ASSUME Match PROVE MatchInv'
  <2>1. CASE Controller
    <3>1. cpc \notin {"dispatch", "barrier"}
      BY <1>2, <1>5 DEF MatchInv, MatchCore, PhaseInv
    <3>2. CASE SpsaFails \/ SpsaDispatch \/ SpsaHandle \/ SpsaStep
      BY <3>1, <3>2 DEF SpsaFails, SpsaDispatch, SpsaHandle, SpsaStep
    <3>3. CASE Bootstrap
      BY <1>2, <1>5, <3>3, BootstrapPreserves, PhasePreserves
    <3>4. CASE Bootstrapped \/ StopDraining \/ ReturnError
      BY <1>2, <1>5, <3>4, PhasePreserves
    <3>5. CASE HandleGame
      BY <1>2, <1>5, <3>5, GamePreserves
    <3>6. CASE HandlePair
      BY <1>2, <1>5, <3>6, PairPreserves
    <3>7. CASE HandleFailure
      BY <1>2, <1>5, <3>7, FailurePreserves
    <3>8. CASE QuitAll
      BY <1>2, <1>5, <3>8, QuitPreserves
    <3>9. CASE ReturnOk
      BY <1>2, <1>5, <3>9, ReturnPreserves
    <3> QED
      BY <2>1, <3>2, <3>3, <3>4, <3>5, <3>6, <3>7, <3>8, <3>9 DEF Controller
  <2>2. ASSUME NEW w \in WorkerIds, Worker(w) PROVE MatchInv'
    BY <1>2, <1>5, <2>2, WorkerPreserves
  <2>3. CASE UNCHANGED vars
    <3>1. MatchInv
      BY <1>2, <1>5
    <3>2. UNCHANGED <<poolVars, cpc, slot, dispatchVars, tallyVars, sprtVars, stopVars,
                     failure>>
      BY <2>3 DEF vars
    <3>3. CommandInv' /\ PhaseInv' /\ PlaceInv' /\ OwnerInv' /\ FreshInv'
      BY <3>1, <3>2
      DEF MatchInv, MatchCore, CommandInv, PhaseInv, PlaceInv, OwnerInv, FreshInv,
          Busy, Waiting, PairOf, GameOf, Dispatched
    <3>4. ReportInv' /\ OnceInv' /\ OrderInv' /\ ToldInv' /\ StageInv'
      BY <3>1, <3>2
      DEF MatchInv, MatchCore, ReportInv, OnceInv, OrderInv, ToldInv, StageInv,
          Busy, Waiting, PairOf, GameOf, Reported, Worth
    <3>5. BufferInv' /\ HandledInv' /\ DoneInv'
      BY <3>1, <3>2
      DEF MatchInv, MatchCore, BufferInv, HandledInv, DoneInv,
          Busy, Waiting, PairOf, GameOf, Scores, Dispatched, Worth
    <3>6. TallyIsTrue'
      BY <2>3, <3>1 DEF MatchInv, TallyIsTrue, Ending
    <3>7. Whole'
      <4>1. /\ \A b : Ready(b)' = Ready(b) /\ Complete(b)' = Complete(b)
            /\ \A n : Buffered(n)' = Buffered(n) /\ Half' = Half
        BY <2>3 DEF Ready, Complete, Half, Buffered, Worth
      <4>2. UNCHANGED <<cpc, pair_counts, discarded_singletons, handled, pairs_dispatched>>
        BY <2>3 DEF vars
      <4> QED BY <3>1, <4>1, <4>2 DEF MatchInv, Whole
    <3> QED BY <3>3, <3>4, <3>5, <3>6, <3>7 DEF MatchInv, MatchCore
  <2> QED BY <2>1, <2>2, <2>3 DEF Next, Finished
<1> QED BY <1>1, <1>4, <1>5 DEF IInv

\* The invariant holds of every match and of every tuning run.
THEOREM Invariance == Spec => []IInv
<1>1. Init => IInv
  BY InitIInv
<1>2. IInv /\ [Next]_vars => IInv'
  BY NextPreserves
<1> QED BY <1>1, <1>2, PTL DEF Spec

\* Types: so no counter of a match or of a tuning run passes its bound.
THEOREM TypeCorrect == Spec => []TypeOK
<1>1. IInv => TypeOK
  BY DEF IInv
<1> QED BY <1>1, Invariance, PTL

\* The figures of a match are those of the games that were played, each counted
\* once, and a match that is to stop starts no new pair.
THEOREM TallyCorrect == Spec => []TallyIsTrue
<1>1. IInv => TallyIsTrue
  BY DEF IInv, MatchInv, Match, TallyIsTrue
<1> QED BY <1>1, Invariance, PTL

\* The sequential test sees whole pairs, each once, and a match that ends well
\* has counted both games of every pair it began.
THEOREM PairsCorrect == Spec => []PairsAreWhole
<1>1. IInv => PairsAreWhole
  BY WholeMeans DEF IInv, MatchInv
<1> QED BY <1>1, Invariance, PTL

\* The first pair that takes the ratio over a bound decides the match, for
\* every function of the counts that gives the verdict.
THEOREM FirstCrossingStands == Spec => FirstCrossingDecides
<1> DEFINE Decided ==
      /\ terminating => stop_reason' = stop_reason
      /\ (/\ mode = "sprt" /\ ~terminating /\ cpc = "drain"
          /\ pair_counts' # pair_counts /\ LlrVerdict(pair_counts') # "continue")
         => stop_reason' = LlrVerdict(pair_counts')
<1>1. ASSUME [Next]_vars PROVE Decided
  <2>1. CASE HandlePair
    <3> DEFINE buffer == pair_score_buffers[Report.worker]
               counts == update_pair(pair_counts, buffer)
               verdict == IF mode = "sprt" /\ Len(buffer) = 2 THEN LlrVerdict(counts)
                          ELSE "continue"
    <3>1. /\ pair_counts' = counts
          /\ IF Decides(verdict) THEN stop_reason' = verdict ELSE UNCHANGED stopVars
      BY <2>1 DEF HandlePair
    <3>2. pair_counts' # pair_counts => Len(buffer) = 2
      BY <3>1 DEF update_pair
    <3> QED BY <3>1, <3>2 DEF Decides
  <2>2. CASE HandleGame
    BY <2>2 DEF HandleGame
  <2>3. CASE ReturnOk
    BY <2>3 DEF ReturnOk
  <2>4. CASE UNCHANGED stopVars /\ UNCHANGED pair_counts
    BY <2>4
  <2> QED
    BY <1>1, <2>1, <2>2, <2>3, <2>4
    DEF Next, Controller, Worker, Finished, Bootstrap, Bootstrapped, HandleFailure,
        StopDraining, QuitAll, ReturnError, SpsaFails, SpsaDispatch, SpsaHandle, SpsaStep
<1>2. [Next]_vars => [Decided]_vars
  BY <1>1
<1> QED BY <1>2, PTL DEF Spec, FirstCrossingDecides

-----------------------------------------------------------------------------
\* Sums over finite sets.
\* The sum of f over S, and the functions that MapThenSumSet defines it by.
Total(f, S) == MapThenSumSet(LAMBDA x : f[x], S)
Some(s) == CHOOSE x \in s : TRUE
Sums(g, f, S) ==
  g = [s \in SUBSET S |-> IF s = {} THEN 0 ELSE f[Some(s)] + g[s \ {Some(s)}]]

\* Finite sets by induction: of the sets that have a property, one has no
\* smaller one in it that has it.
LEMMA SmallestSet ==
  ASSUME NEW S, IsFiniteSet(S), NEW T \in SUBSET SUBSET S, T # {}
  PROVE  \E s \in T : \A u \in T : u \subseteq s => u = s
<1>1. IsWellFoundedOn(StrictSubsetOrdering(S), SUBSET S)
  BY FS_StrictSubsetOrderingWellFounded, FS_FiniteSubsetsOfFinite
<1>2. PICK s \in T : \A u \in T : ~ <<u, s>> \in StrictSubsetOrdering(S)
  BY <1>1, WFMin, T \subseteq SUBSET S
<1> QED BY <1>2 DEF StrictSubsetOrdering

LEMMA SumsAt ==
  ASSUME NEW S, NEW f, NEW g, Sums(g, f, S)
  PROVE  /\ g[{}] = 0
         /\ \A s \in SUBSET S : s # {} =>
              /\ Some(s) \in s /\ s \ {Some(s)} \in SUBSET S
              /\ g[s] = f[Some(s)] + g[s \ {Some(s)}]
<1>1. \A s : s # {} => Some(s) \in s
  BY DEF Some
<1>2. \A s \in SUBSET S : g[s] = IF s = {} THEN 0 ELSE f[Some(s)] + g[s \ {Some(s)}]
  BY DEF Sums
<1> QED BY <1>1, <1>2

\* There is but one such function.
LEMMA SumsAgree ==
  ASSUME NEW S, IsFiniteSet(S), NEW T \in SUBSET S, NEW f, NEW g, NEW h,
         Sums(g, f, S), Sums(h, f, T)
  PROVE  \A s \in SUBSET T : g[s] = h[s]
<1> DEFINE Bad == {s \in SUBSET T : g[s] # h[s]}
<1> SUFFICES ASSUME Bad # {} PROVE FALSE
  OBVIOUS
<1>0. Bad \in SUBSET SUBSET T /\ IsFiniteSet(T)
  BY FS_Subset
<1>1. PICK s \in Bad : \A u \in Bad : u \subseteq s => u = s
  <2> HIDE DEF Bad
  <2> QED BY <1>0, SmallestSet
<1>2. s # {}
  <2>1. g[{}] = 0 /\ h[{}] = 0
    BY SumsAt
  <2> QED BY <1>1, <2>1
<1>3. Some(s) \in s /\ s \ {Some(s)} \in (SUBSET T) \ Bad
  BY <1>1, <1>2, SumsAt
<1>4. g[s] = f[Some(s)] + g[s \ {Some(s)}] /\ h[s] = f[Some(s)] + h[s \ {Some(s)}]
  BY <1>2, SumsAt
<1> QED BY <1>1, <1>3, <1>4

\* And there is one.
LEMMA SumsExist ==
  ASSUME NEW S, IsFiniteSet(S), NEW f, \A x \in S : f[x] \in Int
  PROVE  \E g \in [SUBSET S -> Int] : Sums(g, f, S)
<1> DEFINE Good(s) == \E g \in [SUBSET s -> Int] : Sums(g, f, s)
           Bad == {s \in SUBSET S : ~Good(s)}
<1> SUFFICES ASSUME Bad # {} PROVE FALSE
  OBVIOUS
<1>0. Bad \in SUBSET SUBSET S
  OBVIOUS
<1>1. PICK S0 \in Bad : \A u \in Bad : u \subseteq S0 => u = S0
  <2> HIDE DEF Bad
  <2> QED BY <1>0, SmallestSet
<1>2. \A s : s # {} => Some(s) \in s
  BY DEF Some
<1> DEFINE G(s) == CHOOSE g \in [SUBSET s -> Int] : Sums(g, f, s)
           Below == {s \in SUBSET S0 : s # S0}
           h == [s \in SUBSET S0 |-> IF s = {} THEN 0
                   ELSE f[Some(s)] + G(s \ {Some(s)})[s \ {Some(s)}]]
<1>3. \A s \in Below : G(s) \in [SUBSET s -> Int] /\ Sums(G(s), f, s)
  <2> SUFFICES ASSUME NEW s \in Below PROVE G(s) \in [SUBSET s -> Int] /\ Sums(G(s), f, s)
    OBVIOUS
  <2>1. \E g \in [SUBSET s -> Int] : Sums(g, f, s)
    BY <1>1
  <2> QED BY <2>1
<1> HIDE DEF G
<1>4. \A s \in SUBSET S0 : s # {} => s \ {Some(s)} \in Below
  BY <1>2
<1>5. \A s \in Below : h[s] = G(s)[s]
  <2> SUFFICES ASSUME NEW s \in Below PROVE h[s] = G(s)[s]
    OBVIOUS
  <2>1. CASE s = {}
    <3>1. G(s)[s] = 0
      BY <1>3, <2>1, SumsAt
    <3> QED BY <2>1, <3>1
  <2>2. CASE s # {}
    <3> DEFINE u == s \ {Some(s)}
    <3>1. u \in Below /\ u \in SUBSET s /\ IsFiniteSet(s)
      BY <1>2, <2>2, FS_Subset
    <3>2. G(s)[s] = f[Some(s)] + G(s)[u]
      <4> HIDE DEF Below
      <4>1. Sums(G(s), f, s)
        BY <1>3
      <4>2. \A r \in SUBSET s : r # {} => G(s)[r] = f[Some(r)] + G(s)[r \ {Some(r)}]
        BY <4>1, SumsAt
      <4> QED BY <2>2, <4>2, s \in SUBSET s
    <3>3. G(s)[u] = G(u)[u]
      <4> HIDE DEF u, Below
      <4>1. Sums(G(s), f, s) /\ Sums(G(u), f, u)
        BY <1>3, <3>1
      <4>2. \A r \in SUBSET u : G(s)[r] = G(u)[r]
        BY <3>1, <4>1, SumsAgree
      <4> QED BY <4>2, u \in SUBSET u
    <3>4. h[s] = f[Some(s)] + G(u)[u]
      BY <2>2
    <3> QED BY <3>2, <3>3, <3>4
  <2> QED BY <2>1, <2>2
<1>6. Sums(h, f, S0)
  <2>1. \A s \in SUBSET S0 : s # {} => h[s \ {Some(s)}] = G(s \ {Some(s)})[s \ {Some(s)}]
    BY <1>4, <1>5
  <2> QED BY <2>1 DEF Sums
<1>7. h \in [SUBSET S0 -> Int]
  <2> SUFFICES ASSUME NEW s \in SUBSET S0 PROVE h[s] \in Int
    OBVIOUS
  <2>1. CASE s = {}
    BY <2>1
  <2>2. CASE s # {}
    <3> DEFINE u == s \ {Some(s)}
    <3>1. u \in Below /\ Some(s) \in S
      BY <1>2, <1>4, <2>2
    <3>2. G(u)[u] \in Int
      <4> HIDE DEF u, Below
      <4> QED BY <1>3, <3>1, u \in SUBSET u
    <3> QED BY <2>2, <3>1, <3>2
  <2> QED BY <2>1, <2>2
<1> QED BY <1>1, <1>6, <1>7

LEMMA TotalIs ==
  ASSUME NEW S, NEW f
  PROVE  Total(f, S) = (CHOOSE g : Sums(g, f, S))[S]
BY DEF Sums, Total, MapThenSumSet, MapThenFoldSet, Some

LEMMA TotalFrom ==
  ASSUME NEW S, IsFiniteSet(S), NEW f, NEW g, Sums(g, f, S), NEW T \in SUBSET S,
         \A x \in S : f[x] \in Int
  PROVE  Total(f, T) = g[T]
<1>1. IsFiniteSet(T)
  BY FS_Subset
<1>2. \E h : Sums(h, f, T)
  BY <1>1, SumsExist
<1> DEFINE h == CHOOSE k : Sums(k, f, T)
<1>3. Sums(h, f, T)
  BY <1>2
<1>4. Total(f, T) = h[T]
  BY TotalIs
<1> HIDE DEF h
<1>5. \A s \in SUBSET T : g[s] = h[s]
  BY <1>3, SumsAgree
<1> QED BY <1>4, <1>5

\* What the sum of no values is, and of one more: the order does not matter.
LEMMA TotalEmpty ==
  ASSUME NEW f
  PROVE  Total(f, {}) = 0
<1>1. PICK g : Sums(g, f, {})
  BY SumsExist, FS_EmptySet
<1> QED BY <1>1, TotalFrom, SumsAt, FS_EmptySet

LEMMA TotalAdd ==
  ASSUME NEW S, IsFiniteSet(S), NEW f, \A y \in S : f[y] \in Int, NEW x \in S
  PROVE  /\ Total(f, S) = f[x] + Total(f, S \ {x})
         /\ Total(f, S) \in Int
<1>1. PICK g \in [SUBSET S -> Int] : Sums(g, f, S)
  BY SumsExist
<1> DEFINE Bad == {s \in SUBSET S : \E y \in s : g[s] # f[y] + g[s \ {y}]}
<1>2. ASSUME Bad # {} PROVE FALSE
  <2>0. Bad \in SUBSET SUBSET S
    OBVIOUS
  <2>1. PICK s \in Bad : \A u \in Bad : u \subseteq s => u = s
    <3> HIDE DEF Bad
    <3> QED BY <1>2, <2>0, SmallestSet
  <2>2. PICK y \in s : g[s] # f[y] + g[s \ {y}]
    BY <2>1
  <2> DEFINE z == Some(s)
  <2>3. z \in s /\ g[s] = f[z] + g[s \ {z}]
    BY <1>1, <2>2, SumsAt
  <2> HIDE DEF z
  <2>4. z # y
    BY <2>2, <2>3
  <2>5. s \ {z} \notin Bad /\ s \ {y} \notin Bad
    BY <2>1, <2>2, <2>3
  <2>6. g[s \ {z}] = f[y] + g[(s \ {z}) \ {y}]
    BY <2>2, <2>4, <2>5
  <2>7. g[s \ {y}] = f[z] + g[(s \ {y}) \ {z}]
    BY <2>3, <2>4, <2>5
  <2>8. (s \ {z}) \ {y} = (s \ {y}) \ {z} /\ (s \ {z}) \ {y} \in SUBSET S
    OBVIOUS
  <2>9. f[y] \in Int /\ f[z] \in Int /\ g[(s \ {z}) \ {y}] \in Int
    BY <1>1, <2>3, <2>8
  <2>10. \A a, b, c \in Int : a + (b + c) = b + (a + c)
    OBVIOUS
  <2>11. g[s] = f[z] + (f[y] + g[(s \ {z}) \ {y}])
    BY <2>3, <2>6
  <2>12. f[y] + g[s \ {y}] = f[y] + (f[z] + g[(s \ {z}) \ {y}])
    BY <2>7, <2>8
  <2> QED BY Zenon, <2>2, <2>9, <2>10, <2>11, <2>12
<1>3. g[S] = f[x] + g[S \ {x}]
  BY <1>2, S \in SUBSET S
<1> QED BY <1>1, <1>3, TotalFrom, S \in SUBSET S, S \ {x} \in SUBSET S

\* The sum is that of the values on the set.
LEMMA TotalSame ==
  ASSUME NEW S, IsFiniteSet(S), NEW f, NEW h, \A x \in S : f[x] \in Int /\ h[x] = f[x]
  PROVE  Total(f, S) = Total(h, S)
<1>1. PICK g : Sums(g, f, S)
  BY SumsExist
<1>2. \A s \in SUBSET S : s # {} => f[Some(s)] = h[Some(s)]
  BY DEF Some
<1>3. Sums(g, h, S)
  BY <1>1, <1>2 DEF Sums
<1> QED BY <1>1, <1>3, TotalFrom

-----------------------------------------------------------------------------
\* A tuning run.
\* The pairs of the iteration that were sent.
Base == iter * PairsPerIter
Sent == Base .. Base + slot - 1
IsPair(w, i) == i \in 1 .. Len(cmds[w]) /\ cmds[w][i].op = "pair"
PairAt(w, i) == cmds[w][i].pair
Holds(w) == worker[w].pc \in {"syncing", "newgame", "paired"}
\* Both games were played and the worker has said so.
Said(p) ==
  /\ \A leg \in {0, 1} : won[game_index(p, leg)] # "none"
  /\ \A w \in WorkerIds : worker[w].pc = "paired" => worker[w].pair # p
SaidPairs == {p \in Sent : Said(p)}
PairReports == {i \in 1 .. Len(reports) : reports[i].kind = "pair"}
Worths == [g \in Games |-> Worth(g)]
Current == GamesOf(iter + 1)

IterInv ==
  /\ cpc = "dispatch" => slot < PairsPerIter
  /\ cpc = "barrier" => slot = PairsPerIter
  /\ cpc \in {"quit", "join", "returned"} => iter = NIters /\ slot = 0

\* Where the pairs of the iteration are: in one place at most.
SentInv ==
  /\ \A w \in WorkerIds, i \in Nat : IsPair(w, i) => PairAt(w, i) \in Sent
  /\ \A w \in WorkerIds : Holds(w) => worker[w].pair \in Sent
ApartInv ==
  /\ \A v, w \in WorkerIds, i, j \in Nat :
       IsPair(v, i) /\ IsPair(w, j) /\ PairAt(v, i) = PairAt(w, j) => v = w /\ i = j
  /\ \A v, w \in WorkerIds, i \in Nat :
       Holds(v) /\ IsPair(w, i) => PairAt(w, i) # worker[v].pair
  /\ \A v, w \in WorkerIds :
       Holds(v) /\ Holds(w) /\ worker[v].pair = worker[w].pair => v = w

\* What of them has been played.
PlayedInv ==
  /\ \A p \in Pairs, leg \in {0, 1} : p >= Base + slot => won[game_index(p, leg)] = "none"
  /\ \A w \in WorkerIds, i \in Nat, leg \in {0, 1} :
       IsPair(w, i) => won[game_index(PairAt(w, i), leg)] = "none"
  /\ \A w \in WorkerIds, leg \in {0, 1} :
       worker[w].pc \in {"syncing", "newgame"} /\ leg >= worker[w].leg
         => won[GameOf(w, leg)] = "none"
  /\ \A w \in WorkerIds, leg \in {0, 1} :
       \/ worker[w].pc = "newgame" /\ leg < worker[w].leg
       \/ worker[w].pc = "paired"
       => won[GameOf(w, leg)] # "none"
  /\ \A w \in WorkerIds : worker[w].pc = "syncing" => worker[w].leg = 0
  /\ \A g \in handled : won[g] # "none"

\* What is on its way to the controller.
NewsInv ==
  /\ \A i \in 1 .. Len(reports) : reports[i].kind = "game" =>
       /\ reports[i].game \in Current \ handled
       /\ won[reports[i].game] # "none" /\ reports[i].score = Worth(reports[i].game)
  /\ \A i, j \in 1 .. Len(reports) :
       reports[i].kind = "game" /\ reports[j].kind = "game" /\ reports[i].game = reports[j].game
         => i = j
BehindInv ==
  \A i \in 1 .. Len(reports), p \in Sent, leg \in {0, 1} :
    reports[i].kind = "game" /\ reports[i].game = game_index(p, leg) /\ Said(p)
      => \E j \in PairReports : i < j

SumInv ==
  /\ pairs_complete + Cardinality(PairReports) = Cardinality(SaidPairs)
  /\ score_sum = Total(Worths, handled \cap Current)

SpsaPlay ==
  SentInv /\ ApartInv /\ PlayedInv /\ NewsInv /\ ToldInv /\ BehindInv /\ SumInv
SpsaCore == IterInv /\ SpsaPlay

StepsInv ==
  /\ Len(steps) = iter
  /\ \A k \in 1 .. iter :
       /\ steps[k] = Total(Worths, GamesOf(k))
       /\ \A g \in GamesOf(k) : won[g] # "none"

SpsaInv == (cpc # "failed" => SpsaCore) /\ StepsInv

Tuning == TypeOK /\ TuningInv /\ NamedInv /\ ~Match

\* The pairs of an iteration, and its games.
LEMMA SentPairs ==
  ASSUME Tuning, cpc # "failed", IterInv
  PROVE  /\ Base \in Nat /\ slot \in Nat /\ iter \in Nat /\ PairsPerIter \in Nat \ {0}
         /\ slot <= PairsPerIter
         /\ Sent \subseteq Pairs /\ Sent \subseteq Nat /\ IsFiniteSet(Sent)
         /\ Sent \subseteq Base .. Base + PairsPerIter - 1
         /\ slot # 0 => iter < NIters
<1>1. /\ iter \in 0 .. NIters /\ NIters \in Nat /\ PairsPerIter \in Nat \ {0}
      /\ slot \in Nat /\ NWorkers \in Nat
  BY HarnessAssumption, PoolAssumption DEF Tuning, TypeOK
<1>2. Base \in Nat
  BY <1>1 DEF Base
<1>3. slot <= PairsPerIter /\ (slot # 0 => iter < NIters)
  BY <1>1 DEF Tuning, TuningInv, IterInv
<1>4. Sent \subseteq Base .. Base + PairsPerIter - 1
  BY <1>1, <1>2, <1>3 DEF Sent
<1>5. ASSUME NEW p \in Sent PROVE p \in Pairs
  <2>1. slot # 0 /\ p - Base \in 0 .. PairsPerIter - 1 /\ p \in Nat
    BY <1>1, <1>2, <1>3, <1>5 DEF Sent
  <2>2. iter \in 0 .. NIters - 1
    BY <1>1, <1>3, <2>1
  <2>3. Base + (p - Base) \in Pairs
    BY <2>1, <2>2, TuningPair DEF Base
  <2> QED BY <1>2, <2>1, <2>3
<1>6. IsFiniteSet(Sent)
  BY <1>1, <1>2, FS_Interval DEF Sent
<1> QED BY <1>1, <1>2, <1>3, <1>4, <1>5, <1>6, TotalPairs

LEMMA GamesOfIter ==
  ASSUME NEW k \in Nat
  PROVE  /\ \A p \in Pairs, leg \in {0, 1} :
              game_index(p, leg) \in GamesOf(k + 1)
                <=> p \in k * PairsPerIter .. k * PairsPerIter + PairsPerIter - 1
         /\ GamesOf(k + 1) \subseteq Games /\ IsFiniteSet(GamesOf(k + 1))
         /\ \A g \in GamesOf(k + 1) : \E leg \in {0, 1} :
              \E p \in k * PairsPerIter .. k * PairsPerIter + PairsPerIter - 1 :
                p \in Pairs /\ g = game_index(p, leg)
<1> DEFINE b == k * PairsPerIter
<1>1. PairsPerIter \in Nat \ {0} /\ Pairs \subseteq Nat
  BY HarnessAssumption, PoolAssumption
<1>2. b \in Nat
  BY <1>1
<1>3. 2 * ((k + 1) - 1) * PairsPerIter = 2 * b /\ 2 * (k + 1) * PairsPerIter = 2 * b + 2 * PairsPerIter
  BY <1>1
<1>4. GamesOf(k + 1) = {i \in Games : 2 * b < i /\ i <= 2 * b + 2 * PairsPerIter}
  BY <1>3 DEF GamesOf
<1> HIDE DEF b
<1>5. \A p \in Pairs, leg \in {0, 1} :
        game_index(p, leg) \in GamesOf(k + 1) <=> p \in b .. b + PairsPerIter - 1
  BY <1>1, <1>2, <1>4, GamesType DEF game_index
<1>6. \A g \in GamesOf(k + 1) : \E leg \in {0, 1} : \E p \in b .. b + PairsPerIter - 1 :
        p \in Pairs /\ g = game_index(p, leg)
  <2>1. \A g \in GamesOf(k + 1) : \E p \in Pairs : \E leg \in {0, 1} : g = game_index(p, leg)
    BY <1>4 DEF Games
  <2> QED BY <1>5, <2>1
<1> DEFINE top == 2 * b + 2 * PairsPerIter
<1>7. top \in Nat /\ \A g \in GamesOf(k + 1) : g \in Nat /\ g <= top
  <2>1. \A g \in Games : g \in Nat
    BY GamesType
  <2>2. top \in Nat
    BY <1>1, <1>2
  <2> QED BY <1>4, <2>1, <2>2
<1> HIDE DEF top
<1>8. IsFiniteSet(GamesOf(k + 1))
  <2>1. GamesOf(k + 1) \subseteq 0 .. top
    BY <1>7
  <2>2. IsFiniteSet(0 .. top)
    BY <1>7, FS_Interval
  <2> QED BY <2>1, <2>2, FS_Subset
<1> QED BY <1>4, <1>5, <1>6, <1>8 DEF b

LEMMA PairReportsFinite ==
  ASSUME TypeOK
  PROVE  IsFiniteSet(PairReports) /\ Cardinality(PairReports) \in Nat
<1>1. Len(reports) \in Nat
  BY ReportFields
<1>2. IsFiniteSet(1 .. Len(reports)) /\ PairReports \subseteq 1 .. Len(reports)
  BY <1>1, FS_Interval DEF PairReports
<1> QED BY <1>2, FS_Subset, FS_CardinalityType

\* What the games were worth, as a function, and what StepsDoNotMix sums.
LEMMA WorthsAre ==
  ASSUME TypeOK
  PROVE  \A g \in Games : Worths[g] = Worth(g) /\ Worth(g) \in 0 .. 2 /\ Worths[g] \in Int
<1>1. \A g \in Games : Worth(g) \in 0 .. 2
  BY DEF Worth
<1> QED BY <1>1 DEF Worths

LEMMA WorthIsTotal ==
  ASSUME TypeOK, NEW S \in SUBSET Games, IsFiniteSet(S)
  PROVE  MapThenSumSet(Worth, S) = Total(Worths, S)
<1> DEFINE Law(g) ==
      g = [s \in SUBSET S |-> IF s = {} THEN 0 ELSE Worth(Some(s)) + g[s \ {Some(s)}]]
<1>1. MapThenSumSet(Worth, S) = (CHOOSE g : Law(g))[S]
  BY DEF MapThenSumSet, MapThenFoldSet, Some
<1>2. \A s \in SUBSET S : s # {} => Worths[Some(s)] = Worth(Some(s))
  BY WorthsAre DEF Some
<1>3. ASSUME NEW g PROVE Law(g) <=> Sums(g, Worths, S)
  BY <1>2 DEF Sums
<1>4. \E g : Sums(g, Worths, S)
  BY WorthsAre, SumsExist
<1> DEFINE h == CHOOSE g : Law(g)
<1>5. Law(h)
  BY <1>3, <1>4
<1>6. MapThenSumSet(Worth, S) = h[S]
  BY <1>1
<1> HIDE DEF h
<1>7. Sums(h, Worths, S)
  BY <1>3, <1>5
<1>8. Total(Worths, S) = h[S]
  BY <1>7, WorthsAre, TotalFrom
<1> QED BY <1>6, <1>8

-----------------------------------------------------------------------------
\* Steps that move no pair.

\* The places of the pairs, when no channel and no worker has more of them.
LEMMA PlacesKept ==
  ASSUME SentInv, ApartInv, PlayedInv,
         UNCHANGED <<won, handled, iter, slot>>,
         \A v \in WorkerIds :
           /\ worker'[v].pair = worker[v].pair /\ worker'[v].leg = worker[v].leg
           /\ worker'[v].pc = "syncing" => worker[v].pc = "syncing"
           /\ worker'[v].pc = "newgame" =>
                worker[v].pc = "newgame" \/ (worker[v].pc = "syncing" /\ worker[v].leg = 0)
           /\ worker'[v].pc = "paired" => worker[v].pc = "paired",
         \A v \in WorkerIds, i \in Nat :
           IsPair(v, i)' => IsPair(v, i) /\ PairAt(v, i)' = PairAt(v, i)
  PROVE  SentInv' /\ ApartInv' /\ PlayedInv'
<1>1. Base' = Base /\ Sent' = Sent
  BY DEF Base, Sent
<1>2. \A v \in WorkerIds : Holds(v)' => Holds(v)
  BY DEF Holds
<1>3. SentInv'
  BY <1>1, <1>2 DEF SentInv
<1>4. ApartInv'
  BY <1>2 DEF ApartInv
<1>5. PlayedInv'
  BY <1>1 DEF PlayedInv, GameOf
<1> QED BY <1>3, <1>4, <1>5

\* What is on its way, when nothing is sent but perhaps a failure.
LEMMA NewsKept ==
  ASSUME TypeOK, NewsInv, ToldInv, BehindInv, SumInv,
         UNCHANGED <<won, handled, iter, slot, pairs_complete, score_sum>>,
         \A p \in Sent : Said(p)' <=> Said(p),
         \/ reports' = reports
         \/ \E w \in WorkerIds : reports' = Append(reports, Failure(w))
  PROVE  NewsInv' /\ ToldInv' /\ BehindInv' /\ SumInv'
<1>1. Sent' = Sent /\ Current' = Current /\ Worths' = Worths /\ \A g : Worth(g)' = Worth(g)
  BY DEF Base, Sent, Current, GamesOf, Worths, Worth
<1>2. /\ Len(reports) \in Nat /\ Len(reports') \in Nat /\ Len(reports) <= Len(reports')
      /\ \A i \in 1 .. Len(reports) : reports'[i] = reports[i] /\ i \in 1 .. Len(reports')
      /\ \A i \in 1 .. Len(reports') :
           i \in 1 .. Len(reports) \/ reports'[i].kind = "failure"
  <2>1. CASE reports' = reports
    BY <2>1, ReportFields
  <2>2. ASSUME NEW w \in WorkerIds, reports' = Append(reports, Failure(w))
        PROVE  <1>2!:
    <3>1. Failure(w) \in ReportType /\ Failure(w).kind = "failure"
      BY DEF Failure, ReportType
    <3> QED BY <2>2, <3>1, SaidReport
  <2> QED BY <2>1, <2>2
<1>3. PairReports' = PairReports
  BY <1>2 DEF PairReports
<1>4. SaidPairs' = SaidPairs
  BY <1>1 DEF SaidPairs
<1>5. NewsInv'
  BY <1>1, <1>2 DEF NewsInv
<1>6. ToldInv'
  BY <1>2 DEF ToldInv, Reported
<1>7. BehindInv'
  BY <1>1, <1>2, <1>3 DEF BehindInv
<1>8. SumInv'
  BY <1>1, <1>3, <1>4 DEF SumInv
<1> QED BY <1>5, <1>6, <1>7, <1>8

LEMMA StepsKept ==
  ASSUME StepsInv, UNCHANGED <<steps, iter, won>>
  PROVE  StepsInv'
<1>1. Worths' = Worths
  BY DEF Worths, Worth
<1> QED BY <1>1 DEF StepsInv

-----------------------------------------------------------------------------
\* The steps of a worker in a tuning run.

\* A pair is reported: it was played, and is behind its games.
LEMMA TellPreserves ==
  ASSUME Tuning, cpc # "failed", SpsaCore, NEW w \in WorkerIds, ReportPair(w),
         UNCHANGED <<handled, iter, slot, pairs_complete, score_sum>>
  PROVE  SpsaPlay'
<1>0. PICK p : p = worker[w].pair
  OBVIOUS
<1>1. /\ reports' = Append(reports, PairComplete(w))
      /\ worker[w].pc = "paired" /\ worker' = [worker EXCEPT ![w].pc = "ready"]
      /\ UNCHANGED <<cmds, won>>
  BY DEF ReportPair, Say, Go, At
<1>2. /\ \A v \in WorkerIds : /\ worker'[v].pair = worker[v].pair
                              /\ worker'[v].leg = worker[v].leg
                              /\ v # w => worker'[v].pc = worker[v].pc
      /\ worker'[w].pc = "ready"
  BY <1>1 DEF Tuning, TypeOK, PoolTypeOK
<1>3. /\ Len(reports) \in Nat /\ Len(reports') = Len(reports) + 1
      /\ \A i \in 1 .. Len(reports) : reports'[i] = reports[i] /\ i \in 1 .. Len(reports')
      /\ reports'[Len(reports')].kind = "pair"
      /\ \A i \in 1 .. Len(reports') : i \in 1 .. Len(reports) \/ i = Len(reports')
  <2>1. PairComplete(w) \in ReportType /\ PairComplete(w).kind = "pair"
    BY DEF PairComplete, ReportType
  <2> QED BY <1>1, <2>1, SaidReport DEF Tuning
<1>4. SentInv' /\ ApartInv' /\ PlayedInv'
  <2>0. ASSUME NEW v \in WorkerIds
        PROVE  /\ worker'[v].pair = worker[v].pair /\ worker'[v].leg = worker[v].leg
               /\ worker'[v].pc = "syncing" => worker[v].pc = "syncing"
               /\ worker'[v].pc = "newgame" => worker[v].pc = "newgame"
               /\ worker'[v].pc = "paired" => worker[v].pc = "paired"
    <3>1. CASE v = w
      BY <1>2, <3>1
    <3>2. CASE v # w
      BY <1>2, <3>2
    <3> QED BY <3>1, <3>2
  <2>1. \A v \in WorkerIds :
           /\ worker'[v].pair = worker[v].pair /\ worker'[v].leg = worker[v].leg
           /\ worker'[v].pc = "syncing" => worker[v].pc = "syncing"
           /\ worker'[v].pc = "newgame" =>
                worker[v].pc = "newgame" \/ (worker[v].pc = "syncing" /\ worker[v].leg = 0)
           /\ worker'[v].pc = "paired" => worker[v].pc = "paired"
    BY <2>0
  <2>2. \A v \in WorkerIds, i \in Nat :
          IsPair(v, i)' => IsPair(v, i) /\ PairAt(v, i)' = PairAt(v, i)
    BY <1>1 DEF IsPair, PairAt
  <2>3. UNCHANGED <<won, handled, iter, slot>>
    BY <1>1
  <2> QED BY <2>1, <2>2, <2>3, PlacesKept DEF SpsaCore, SpsaPlay
<1>5. Sent' = Sent /\ Current' = Current /\ Worths' = Worths /\ \A g : Worth(g)' = Worth(g)
  BY <1>1 DEF Base, Sent, Current, GamesOf, Worths, Worth
<1>6. p \in Sent /\ ~Said(p) /\ Said(p)'
  <2>1. p \in Sent
    BY <1>0, <1>1 DEF SpsaCore, SpsaPlay, SentInv, Holds
  <2>2. \A leg \in {0, 1} : won[game_index(p, leg)] # "none"
    BY <1>0, <1>1 DEF SpsaCore, SpsaPlay, PlayedInv, GameOf
  <2>3. \A v \in WorkerIds : worker[v].pc = "paired" /\ worker[v].pair = p => v = w
    BY <1>0, <1>1 DEF SpsaCore, SpsaPlay, ApartInv, Holds
  <2>4. \A v \in WorkerIds : worker'[v].pc = "paired" => worker'[v].pair # p
    BY <1>0, <1>2, <2>3
  <2>5. Said(p)'
    BY <1>0, <1>1, <1>2, <2>2, <2>4 DEF Said
  <2>6. ~Said(p)
    BY <1>0, <1>1 DEF Said
  <2> QED BY <2>1, <2>5, <2>6
<1>7. \A q : q # p => (Said(q)' <=> Said(q))
  BY <1>0, <1>1, <1>2 DEF Said
<1>8. PairReports' = PairReports \cup {Len(reports')} /\ Len(reports') \notin PairReports
  <2>1. \A i : i \in PairReports' <=> i \in PairReports \/ i = Len(reports')
    BY <1>3 DEF PairReports
  <2>2. Len(reports') \notin PairReports
    BY <1>3 DEF PairReports
  <2> QED BY <2>1, <2>2
<1>9. SaidPairs' = SaidPairs \cup {p} /\ p \notin SaidPairs
  <2>1. ASSUME NEW q PROVE q \in SaidPairs' <=> q \in SaidPairs \/ q = p
    <3>1. q \in SaidPairs' <=> q \in Sent /\ Said(q)'
      BY <1>5 DEF SaidPairs
    <3>2. q \in SaidPairs <=> q \in Sent /\ Said(q)
      BY DEF SaidPairs
    <3> QED BY <1>6, <1>7, <3>1, <3>2
  <2> QED BY <1>6, <2>1 DEF SaidPairs
<1>10. NewsInv'
  BY <1>1, <1>3, <1>5 DEF SpsaCore, SpsaPlay, NewsInv
<1>11. ToldInv'
  <2>1. \A g : Reported(g, Len(reports)) => Reported(g, Len(reports))'
    BY <1>3 DEF Reported
  <2>2. \A g : Reported(g, Len(reports))' =>
          \E j \in 1 .. Len(reports') : reports'[j].kind = "game" /\ reports'[j].game = g
    BY <1>3 DEF Reported
  <2> QED BY <1>1, <1>3, <2>1, <2>2 DEF SpsaCore, SpsaPlay, ToldInv, Reported
<1>12. BehindInv'
  <2> SUFFICES ASSUME NEW i \in 1 .. Len(reports'), NEW q \in Sent, NEW leg \in {0, 1},
                      reports'[i].kind = "game", reports'[i].game = game_index(q, leg),
                      Said(q)'
               PROVE  \E j \in PairReports' : i < j
    BY <1>5 DEF BehindInv
  <2>1. i \in 1 .. Len(reports) /\ reports'[i] = reports[i]
    BY <1>3
  <2>2. Len(reports') \in PairReports' /\ i < Len(reports')
    BY <1>3, <1>8, <2>1
  <2> QED BY <2>2
<1>13. SumInv'
  <2>1. IsFiniteSet(SaidPairs) /\ IsFiniteSet(PairReports)
    BY SentPairs, FS_Subset, PairReportsFinite DEF SpsaCore, Tuning, SaidPairs
  <2>2. Cardinality(SaidPairs \cup {p}) = Cardinality(SaidPairs) + 1
    BY <1>9, <2>1, FS_AddElement
  <2>3. Cardinality(PairReports') = Cardinality(PairReports) + 1
    BY <1>8, <2>1, FS_AddElement
  <2>4. Cardinality(PairReports) \in Nat /\ pairs_complete \in Nat
    BY PairReportsFinite, HarnessAssumption DEF Tuning, TypeOK
  <2> QED BY <1>5, <1>9, <2>2, <2>3, <2>4 DEF SpsaCore, SpsaPlay, SumInv
<1> QED BY <1>4, <1>10, <1>11, <1>12, <1>13 DEF SpsaPlay

\* A pair is taken out of the channel, or the worker is told to quit.
LEMMA TakeInTurn ==
  ASSUME Tuning, cpc # "failed", SpsaCore, NEW w \in WorkerIds, Take(w),
         UNCHANGED <<handled, iter, slot, pairs_complete, score_sum>>
  PROVE  SpsaPlay'
<1> DEFINE cmd == Head(cmds[w])
           At0(v, i) == IF v = w THEN i + 1 ELSE i
<1>1. /\ worker[w].pc = "ready" /\ cmds[w] # <<>>
      /\ worker' = [worker EXCEPT ![w] =
           IF cmd.op = "quit" THEN [@ EXCEPT !.pc = "leaving"]
           ELSE [pc |-> "syncing", pair |-> cmd.pair, leg |-> 0]]
      /\ cmds' = [cmds EXCEPT ![w] = Tail(@)]
      /\ UNCHANGED <<reports, won>>
  BY DEF Take, At
<1>2. /\ cmd = cmds[w][1] /\ 1 \in 1 .. Len(cmds[w])
      /\ cmd.op \in {"pair", "quit"}
      /\ \A i \in 1 .. Len(Tail(cmds[w])) : /\ Tail(cmds[w])[i] = cmds[w][i + 1]
                                            /\ i + 1 \in 1 .. Len(cmds[w])
  BY <1>1, FirstCommand DEF Tuning
<1>3. \A v \in WorkerIds \ {w} : worker'[v] = worker[v] /\ cmds'[v] = cmds[v]
  BY <1>1 DEF Tuning, TypeOK, PoolTypeOK
<1>4. /\ cmds'[w] = Tail(cmds[w])
      /\ cmd.op = "quit" => worker'[w].pc = "leaving"
      /\ cmd.op = "pair" => /\ worker'[w].pc = "syncing" /\ worker'[w].pair = cmd.pair
                            /\ worker'[w].leg = 0
  BY <1>1, <1>2 DEF Tuning, TypeOK, PoolTypeOK
<1>5. cmd.op = "pair" => IsPair(w, 1) /\ PairAt(w, 1) = cmd.pair
  BY <1>2 DEF IsPair, PairAt
<1> HIDE DEF cmd
<1>6. \A v \in WorkerIds, i \in Nat :
        IsPair(v, i)' => /\ At0(v, i) \in Nat /\ IsPair(v, At0(v, i))
                         /\ PairAt(v, i)' = PairAt(v, At0(v, i)) /\ At0(v, i) # 0
                         /\ v = w => At0(v, i) # 1
  <2> SUFFICES ASSUME NEW v \in WorkerIds, NEW i \in Nat, IsPair(v, i)'
               PROVE  /\ At0(v, i) \in Nat /\ IsPair(v, At0(v, i))
                      /\ PairAt(v, i)' = PairAt(v, At0(v, i)) /\ At0(v, i) # 0
                      /\ v = w => At0(v, i) # 1
    OBVIOUS
  <2>1. CASE v = w
    <3>2. i \in 1 .. Len(Tail(cmds[w])) /\ Tail(cmds[w])[i].op = "pair"
      BY <1>4, <2>1 DEF IsPair
    <3>1. At0(v, i) = i + 1 /\ i + 1 # 1 /\ i + 1 # 0 /\ i + 1 \in Nat
      BY <2>1, <3>2
    <3>3. IsPair(w, i + 1) /\ PairAt(w, i)' = PairAt(w, i + 1)
      BY <1>2, <1>4, <3>2 DEF IsPair, PairAt
    <3> QED BY <2>1, <3>1, <3>3
  <2>2. CASE v # w
    BY <1>3, <2>2 DEF IsPair, PairAt
  <2> QED BY <2>1, <2>2
<1>7. \A u, v \in WorkerIds, i, j \in Nat : At0(u, i) = At0(v, j) /\ u = v => i = j
  OBVIOUS
<1> HIDE DEF At0
<1>8. Sent' = Sent /\ Base' = Base
  BY DEF Base, Sent
<1>9. \A v \in WorkerIds : Holds(v)' =>
        \/ v # w /\ Holds(v) /\ worker'[v].pair = worker[v].pair
        \/ v = w /\ IsPair(w, 1) /\ worker'[v].pair = PairAt(w, 1)
  BY <1>2, <1>3, <1>4, <1>5 DEF Holds
<1>10. SentInv'
  BY <1>6, <1>8, <1>9 DEF SpsaCore, SpsaPlay, SentInv
<1>11. ApartInv'
  <2>1. \A u, v \in WorkerIds, i, j \in Nat :
          IsPair(u, i)' /\ IsPair(v, j)' /\ PairAt(u, i)' = PairAt(v, j)' => u = v /\ i = j
    BY <1>6, <1>7 DEF SpsaCore, SpsaPlay, ApartInv
  <2>2. \A u, v \in WorkerIds, i \in Nat :
          Holds(u)' /\ IsPair(v, i)' => PairAt(v, i)' # worker'[u].pair
    BY <1>6, <1>9, 1 \in Nat DEF SpsaCore, SpsaPlay, ApartInv
  <2>3. \A u, v \in WorkerIds :
          Holds(u)' /\ Holds(v)' /\ worker'[u].pair = worker'[v].pair => u = v
    BY <1>9, 1 \in Nat DEF SpsaCore, SpsaPlay, ApartInv
  <2> QED BY <2>1, <2>2, <2>3 DEF ApartInv
<1>12. PlayedInv'
  <2>1. \A v \in WorkerIds, i \in Nat, leg \in {0, 1} :
          IsPair(v, i)' => won'[game_index(PairAt(v, i)', leg)] = "none"
    BY <1>1, <1>6 DEF SpsaCore, SpsaPlay, PlayedInv
  <2>2. \A v \in WorkerIds, leg \in {0, 1} :
          worker'[v].pc \in {"syncing", "newgame"} /\ leg >= worker'[v].leg
            => won'[game_index(worker'[v].pair, leg)] = "none"
    <3> SUFFICES ASSUME NEW v \in WorkerIds, NEW leg \in {0, 1},
                        worker'[v].pc \in {"syncing", "newgame"}, leg >= worker'[v].leg
                 PROVE  won'[game_index(worker'[v].pair, leg)] = "none"
      OBVIOUS
    <3>1. CASE v = w
      <4>1. IsPair(w, 1) /\ worker'[v].pair = PairAt(w, 1)
        BY <1>2, <1>4, <1>5, <3>1
      <4> QED BY <1>1, <4>1, 1 \in Nat DEF SpsaCore, SpsaPlay, PlayedInv
    <3>2. CASE v # w
      BY <1>1, <1>3, <3>2 DEF SpsaCore, SpsaPlay, PlayedInv, GameOf
    <3> QED BY <3>1, <3>2
  <2>3. \A v \in WorkerIds, leg \in {0, 1} :
          \/ worker'[v].pc = "newgame" /\ leg < worker'[v].leg
          \/ worker'[v].pc = "paired"
          => won'[game_index(worker'[v].pair, leg)] # "none"
    BY <1>1, <1>2, <1>3, <1>4 DEF SpsaCore, SpsaPlay, PlayedInv, GameOf
  <2>4. \A v \in WorkerIds : worker'[v].pc = "syncing" => worker'[v].leg = 0
    BY <1>2, <1>3, <1>4 DEF SpsaCore, SpsaPlay, PlayedInv
  <2>5. /\ \A q \in Pairs, leg \in {0, 1} :
             q >= (Base + slot)' => won'[game_index(q, leg)] = "none"
        /\ \A g \in handled' : won'[g] # "none"
    BY <1>1, <1>8 DEF SpsaCore, SpsaPlay, PlayedInv
  <2> QED BY <2>1, <2>2, <2>3, <2>4, <2>5 DEF PlayedInv, GameOf
<1>13. \A q \in Sent : Said(q)' <=> Said(q)
  <2>1. \A v \in WorkerIds : /\ worker'[v].pc = "paired" <=> worker[v].pc = "paired"
                             /\ worker[v].pc = "paired" => worker'[v].pair = worker[v].pair
    BY <1>1, <1>2, <1>3, <1>4
  <2> QED BY <1>1, <2>1 DEF Said
<1>14. NewsInv' /\ ToldInv' /\ BehindInv' /\ SumInv'
  <2>1. UNCHANGED <<won, handled, iter, slot, pairs_complete, score_sum>> /\ reports' = reports
    BY <1>1
  <2> QED BY <1>13, <2>1, NewsKept DEF SpsaCore, SpsaPlay, Tuning
<1> QED BY <1>10, <1>11, <1>12, <1>14 DEF SpsaPlay

\* A game ends: it is one of the iteration and was not played before.
LEMMA PlaysInTurn ==
  ASSUME Tuning, cpc # "failed", SpsaCore, StepsInv,
         NEW w \in WorkerIds, NEW winner \in Results, Ends(w, winner),
         UNCHANGED <<cmds, handled, iter, slot, pairs_complete, score_sum, steps>>
  PROVE  SpsaPlay' /\ StepsInv'
<1>0. PICK p, l, g : p = worker[w].pair /\ l = worker[w].leg /\ g = game_index(p, l)
  OBVIOUS
<1> DEFINE color == IF winner = "draw" THEN "draw" ELSE ColorOf(winner, l)
           score == compute_clawfish_score(color, l = 0)
           report == GameComplete(w, g, score)
<1>1. /\ worker[w].pc = "newgame" /\ reports' = Append(reports, report)
      /\ won' = [won EXCEPT ![g] = winner]
      /\ worker' = [worker EXCEPT ![w].pc = IF l = 0 THEN "newgame" ELSE "paired",
                                  ![w].leg = 1]
  BY <1>0 DEF Ends, Say, At
<1>2. l \in {0, 1} /\ g \in Games /\ p \in Pairs /\ p \in Nat /\ winner # "none"
  BY <1>0, OwnGames, TotalPairs DEF Tuning, GameOf, Results, Players
<1>3. /\ score \in 0 .. 2
      /\ score = CASE winner = "engine" -> 2 [] winner = "opponent" -> 0 [] OTHER -> 1
  BY <1>2, ScoreIsWorth
<1> HIDE DEF score, color
<1>4. /\ \A v \in WorkerIds \ {w} : worker'[v] = worker[v]
      /\ worker'[w].pair = p /\ worker'[w].leg = 1
      /\ worker'[w].pc = IF l = 0 THEN "newgame" ELSE "paired"
  BY <1>0, <1>1 DEF Tuning, TypeOK, PoolTypeOK
<1>5. /\ won'[g] = winner /\ \A x \in Games : x # g => won'[x] = won[x]
      /\ \A x \in Games : won[x] # "none" => won'[x] # "none"
  BY <1>1, <1>2 DEF Tuning, TypeOK, PoolTypeOK
<1>6. report \in ReportType /\ report.kind = "game" /\ report.game = g /\ report.score = score
  BY <1>2, <1>3, ReportTypes DEF GameComplete
<1> HIDE DEF report
<1>7. /\ Len(reports) \in Nat /\ Len(reports') = Len(reports) + 1
      /\ \A i \in 1 .. Len(reports) : reports'[i] = reports[i] /\ i \in 1 .. Len(reports')
      /\ reports'[Len(reports')] = report /\ Len(reports') \in 1 .. Len(reports')
      /\ \A i \in 1 .. Len(reports') : i \in 1 .. Len(reports) \/ i = Len(reports')
  BY <1>1, <1>6, SaidReport DEF Tuning
<1>8. /\ p \in Sent /\ won[g] = "none" /\ g \in Current
      /\ l = 0 => won[game_index(p, 1)] = "none"
      /\ l = 1 => won[game_index(p, 0)] # "none"
  <2>1. p \in Sent
    BY <1>0, <1>1 DEF SpsaCore, SpsaPlay, SentInv, Holds
  <2>2. won[g] = "none"
    BY <1>0, <1>1, <1>2 DEF SpsaCore, SpsaPlay, PlayedInv, GameOf
  <2>3. g \in Current
    BY <1>0, <1>2, <2>1, SentPairs, GamesOfIter DEF SpsaCore, Current, Base
  <2>4. l = 0 => won[game_index(p, 1)] = "none"
    <3>1. ASSUME l = 0 PROVE won[GameOf(w, 1)] = "none"
      <4>1. worker[w].pc \in {"syncing", "newgame"} /\ 1 >= worker[w].leg /\ 1 \in {0, 1}
        BY <1>0, <1>1, <3>1
      <4>2. \A k \in {0, 1} : k >= worker[w].leg => won[GameOf(w, k)] = "none"
        BY <4>1 DEF SpsaCore, SpsaPlay, PlayedInv
      <4> QED BY <4>1, <4>2
    <3> QED BY <1>0, <3>1 DEF GameOf
  <2>5. l = 1 => won[game_index(p, 0)] # "none"
    <3>1. ASSUME l = 1 PROVE won[GameOf(w, 0)] # "none"
      <4>1. worker[w].pc = "newgame" /\ 0 < worker[w].leg /\ 0 \in {0, 1}
        BY <1>0, <1>1, <3>1
      <4>2. \A k \in {0, 1} : k < worker[w].leg => won[GameOf(w, k)] # "none"
        BY <4>1 DEF SpsaCore, SpsaPlay, PlayedInv
      <4> QED BY <4>1, <4>2
    <3> QED BY <1>0, <3>1 DEF GameOf
  <2> QED BY <2>1, <2>2, <2>3, <2>4, <2>5
<1>9. /\ Base' = Base /\ Sent' = Sent /\ Current' = Current
      /\ \A k : GamesOf(k)' = GamesOf(k)
  BY DEF Base, Sent, Current, GamesOf
<1>10. \A q \in Pairs, k \in {0, 1} :
         /\ game_index(q, k) \in Games
         /\ game_index(q, k) = g => q = p /\ k = l
  BY <1>0, <1>2, GameIndex, GamesType, TotalPairs
<1>11. /\ \A v \in WorkerIds : Holds(v)' <=> Holds(v)
       /\ \A v \in WorkerIds : worker'[v].pair = worker[v].pair
       /\ \A v \in WorkerIds, i \in Nat : (IsPair(v, i)' <=> IsPair(v, i)) /\ PairAt(v, i)' = PairAt(v, i)
  BY <1>0, <1>1, <1>2, <1>4 DEF Holds, IsPair, PairAt
<1>12. SentInv' /\ ApartInv'
  BY <1>9, <1>11 DEF SpsaCore, SpsaPlay, SentInv, ApartInv
<1>13. Sent \subseteq Pairs /\ \A q \in Pairs : q >= Base + slot => q # p
  <2>1. Base \in Nat /\ slot \in Nat /\ Sent \subseteq Pairs /\ Sent \subseteq Nat
    BY SentPairs DEF SpsaCore
  <2> QED BY <1>2, <1>8, <2>1 DEF Sent
<1>14. PlayedInv'
  <2>1. \A q \in Pairs, k \in {0, 1} :
          q >= (Base + slot)' => won'[game_index(q, k)] = "none"
    BY <1>5, <1>9, <1>10, <1>13 DEF SpsaCore, SpsaPlay, PlayedInv
  <2>2. \A v \in WorkerIds, i \in Nat, k \in {0, 1} :
          IsPair(v, i)' => won'[game_index(PairAt(v, i)', k)] = "none"
    <3> SUFFICES ASSUME NEW v \in WorkerIds, NEW i \in Nat, NEW k \in {0, 1}, IsPair(v, i)
                 PROVE  won'[game_index(PairAt(v, i), k)] = "none"
      BY <1>11
    <3>1. PairAt(v, i) \in Pairs
      BY <1>13 DEF SpsaCore, SpsaPlay, SentInv
    <3>2. PairAt(v, i) # p
      BY <1>0, <1>1 DEF SpsaCore, SpsaPlay, ApartInv, Holds
    <3>3. won[game_index(PairAt(v, i), k)] = "none"
      BY DEF SpsaCore, SpsaPlay, PlayedInv
    <3> QED BY <1>5, <1>10, <3>1, <3>2, <3>3
  <2>3. \A v \in WorkerIds, k \in {0, 1} :
          worker'[v].pc \in {"syncing", "newgame"} /\ k >= worker'[v].leg
            => won'[game_index(worker'[v].pair, k)] = "none"
    <3> SUFFICES ASSUME NEW v \in WorkerIds, NEW k \in {0, 1},
                        worker'[v].pc \in {"syncing", "newgame"}, k >= worker'[v].leg
                 PROVE  won'[game_index(worker'[v].pair, k)] = "none"
      OBVIOUS
    <3>1. CASE v = w
      <4>1. l = 0 /\ k = 1 /\ worker'[v].pair = p
        BY <1>2, <1>4, <3>1
      <4> QED BY <1>2, <1>5, <1>8, <1>10, <4>1
    <3>2. CASE v # w
      <4>1. worker'[v] = worker[v] /\ worker[v].pair \in Pairs
        BY <1>4, <3>2, OwnGames DEF Tuning
      <4>2. worker[v].pair # p
        BY <1>0, <1>1, <3>2, <4>1 DEF SpsaCore, SpsaPlay, ApartInv, Holds
      <4>3. won[game_index(worker[v].pair, k)] = "none"
        BY <4>1 DEF SpsaCore, SpsaPlay, PlayedInv, GameOf
      <4> QED BY <1>5, <1>10, <4>1, <4>2, <4>3
    <3> QED BY <3>1, <3>2
  <2>4. \A v \in WorkerIds, k \in {0, 1} :
          \/ worker'[v].pc = "newgame" /\ k < worker'[v].leg
          \/ worker'[v].pc = "paired"
          => won'[game_index(worker'[v].pair, k)] # "none"
    <3> SUFFICES ASSUME NEW v \in WorkerIds, NEW k \in {0, 1},
                        \/ worker'[v].pc = "newgame" /\ k < worker'[v].leg
                        \/ worker'[v].pc = "paired"
                 PROVE  won'[game_index(worker'[v].pair, k)] # "none"
      OBVIOUS
    <3>1. CASE v = w
      <4>1. worker'[v].pair = p /\ (k = l \/ (k = 0 /\ l = 1))
        BY <1>2, <1>4, <3>1
      <4>2. CASE k = l
        BY <1>0, <1>2, <1>5, <4>1, <4>2
      <4>3. CASE k = 0 /\ l = 1
        BY <1>2, <1>5, <1>8, <1>10, <4>1, <4>3
      <4> QED BY <4>1, <4>2, <4>3
    <3>2. CASE v # w
      <4>1. worker'[v] = worker[v] /\ worker[v].pair \in Pairs
        BY <1>4, <3>2, OwnGames DEF Tuning
      <4>2. won[game_index(worker[v].pair, k)] # "none"
        BY <4>1 DEF SpsaCore, SpsaPlay, PlayedInv, GameOf
      <4> QED BY <1>5, <1>10, <4>1, <4>2
    <3> QED BY <3>1, <3>2
  <2>5. \A v \in WorkerIds : worker'[v].pc = "syncing" => worker'[v].leg = 0
    BY <1>2, <1>4 DEF SpsaCore, SpsaPlay, PlayedInv
  <2>6. \A x \in handled' : won'[x] # "none"
    BY <1>5 DEF SpsaCore, SpsaPlay, PlayedInv, Tuning, TypeOK
  <2> QED BY <2>1, <2>2, <2>3, <2>4, <2>5, <2>6 DEF PlayedInv, GameOf
<1>15. \A q \in Sent : Said(q)' <=> Said(q)
  <2> SUFFICES ASSUME NEW q \in Sent PROVE Said(q)' <=> Said(q)
    OBVIOUS
  <2>1. CASE q = p
    <3>1. ~Said(q)
      BY <1>0, <1>2, <1>8, <2>1 DEF Said
    <3>2. ~Said(q)'
      <4>1. CASE l = 0
        BY <1>2, <1>5, <1>8, <1>10, <2>1, <4>1 DEF Said
      <4>2. CASE l = 1
        BY <1>4, <2>1, <4>2 DEF Said
      <4> QED BY <1>2, <4>1, <4>2
    <3> QED BY <3>1, <3>2
  <2>2. CASE q # p
    <3>1. \A k \in {0, 1} : won'[game_index(q, k)] = won[game_index(q, k)]
      BY <1>5, <1>10, <1>13, <2>2
    <3>2. \A v \in WorkerIds : /\ worker'[v].pair = worker[v].pair
                               /\ v # w => worker'[v].pc = worker[v].pc
      BY <1>4, <1>11
    <3> QED BY <1>0, <2>2, <3>1, <3>2 DEF Said
  <2> QED BY <2>1, <2>2
<1>16. \A x \in Games : x # g => Worth(x)' = Worth(x)
  BY <1>5 DEF Worth
<1>17. Worth(g)' = score
  BY <1>3, <1>5 DEF Worth
<1>18. NewsInv'
  <2> SUFFICES ASSUME NEW i \in 1 .. Len(reports'), reports'[i].kind = "game", NEW x,
                      x = reports'[i].game
               PROVE  /\ x \in Current \ handled
                      /\ won'[x] # "none" /\ reports'[i].score = Worth(x)'
                      /\ \A j \in 1 .. Len(reports') :
                           reports'[j].kind = "game" /\ reports'[j].game = x => i = j
    BY <1>9 DEF NewsInv
  <2>1. \A j \in 1 .. Len(reports) : reports[j].kind = "game" =>
          reports[j].game # g /\ reports[j].game \in Games
    BY <1>8 DEF SpsaCore, SpsaPlay, NewsInv, Current, GamesOf
  <2>2. CASE i \in 1 .. Len(reports)
    <3>1. reports'[i] = reports[i] /\ x = reports[i].game
      BY <1>7, <2>2
    <3>2. /\ x \in Current \ handled
          /\ won[x] # "none" /\ reports[i].score = Worth(x)
          /\ \A j \in 1 .. Len(reports) :
               reports[j].kind = "game" /\ reports[j].game = x => i = j
      BY <2>2, <3>1 DEF SpsaCore, SpsaPlay, NewsInv
    <3>3. x # g /\ x \in Games
      BY <2>1, <2>2, <3>1
    <3>4. won'[x] # "none" /\ reports'[i].score = Worth(x)'
      BY <1>5, <1>16, <3>1, <3>2, <3>3
    <3>5. \A j \in 1 .. Len(reports') :
            reports'[j].kind = "game" /\ reports'[j].game = x => i = j
      BY <1>6, <1>7, <3>1, <3>2, <3>3
    <3> QED BY <3>2, <3>4, <3>5
  <2>3. CASE i = Len(reports')
    <3>1. reports'[i] = report /\ x = g
      BY <1>6, <1>7, <2>3
    <3>2. g \notin handled
      BY <1>8 DEF SpsaCore, SpsaPlay, PlayedInv
    <3>3. \A j \in 1 .. Len(reports') :
            reports'[j].kind = "game" /\ reports'[j].game = x => i = j
      BY <1>6, <1>7, <2>1, <2>3, <3>1
    <3> QED BY <1>2, <1>5, <1>6, <1>8, <1>17, <3>1, <3>2, <3>3
  <2> QED BY <1>7, <2>2, <2>3
<1>19. ToldInv'
  <2> SUFFICES ASSUME NEW x \in Games, won'[x] # "none", x \notin handled
               PROVE  \E j \in 1 .. Len(reports') :
                        reports'[j].kind = "game" /\ reports'[j].game = x
    BY DEF ToldInv, Reported
  <2>1. CASE x = g
    BY <1>6, <1>7, <2>1
  <2>2. CASE x # g
    <3>1. Reported(x, Len(reports))
      BY <1>5, <2>2 DEF SpsaCore, SpsaPlay, ToldInv
    <3> QED BY <1>7, <3>1 DEF Reported
  <2> QED BY <2>1, <2>2
<1>20. PairReports' = PairReports
  <2>1. ASSUME NEW i PROVE i \in PairReports' <=> i \in PairReports
    BY <1>6, <1>7 DEF PairReports
  <2> QED BY <2>1
<1>21. BehindInv'
  <2> SUFFICES ASSUME NEW i \in 1 .. Len(reports'), NEW q \in Sent, NEW k \in {0, 1},
                      reports'[i].kind = "game", reports'[i].game = game_index(q, k),
                      Said(q)
               PROVE  \E j \in PairReports : i < j
    BY <1>9, <1>15, <1>20 DEF BehindInv
  <2>1. i # Len(reports')
    <3>1. ~Said(p)
      BY <1>0, <1>2, <1>8 DEF Said
    <3> QED BY <1>6, <1>7, <1>10, <1>13, <3>1
  <2>2. i \in 1 .. Len(reports) /\ reports'[i] = reports[i]
    BY <1>7, <2>1
  <2> QED BY <2>2 DEF SpsaCore, SpsaPlay, BehindInv
<1>22. \A x \in Games : x # g => Worths'[x] = Worths[x] /\ Worths[x] \in Int
  BY <1>16, WorthsAre DEF Worths, Tuning
<1>23. SumInv'
  <2>1. SaidPairs' = SaidPairs
    BY <1>9, <1>15 DEF SaidPairs
  <2> DEFINE S == handled \cap Current
  <2>2. IsFiniteSet(S) /\ S \subseteq Games /\ g \notin S
    BY <1>8, SentPairs, GamesOfIter, FS_Subset DEF SpsaCore, SpsaPlay, PlayedInv, Current
  <2> HIDE DEF S
  <2>3. Total(Worths, S) = Total(Worths', S)
    BY <1>22, <2>2, TotalSame
  <2>4. S' = S
    BY <1>9 DEF S
  <2>5. (score_sum = Total(Worths, S))'
    BY <2>3, <2>4 DEF SpsaCore, SpsaPlay, SumInv, S
  <2> QED BY <1>20, <2>1, <2>5 DEF SpsaCore, SpsaPlay, SumInv, S
<1>24. StepsInv'
  <2> SUFFICES ASSUME NEW k \in 1 .. iter
               PROVE  /\ steps[k] = Total(Worths', GamesOf(k))
                      /\ \A x \in GamesOf(k) : won'[x] # "none"
    BY <1>9 DEF StepsInv
  <2>1. steps[k] = Total(Worths, GamesOf(k)) /\ \A x \in GamesOf(k) : won[x] # "none"
    BY DEF StepsInv
  <2>2. iter \in Nat /\ k - 1 \in Nat /\ (k - 1) + 1 = k
    BY SentPairs DEF SpsaCore
  <2>3. IsFiniteSet(GamesOf(k)) /\ GamesOf(k) \subseteq Games
    BY <2>2, GamesOfIter
  <2>4. g \notin GamesOf(k)
    BY <1>8, <2>1
  <2>5. Total(Worths, GamesOf(k)) = Total(Worths', GamesOf(k))
    BY <1>22, <2>3, <2>4, TotalSame
  <2> QED BY <1>5, <2>1, <2>3, <2>5
<1> QED BY <1>12, <1>14, <1>18, <1>19, <1>21, <1>23, <1>24 DEF SpsaPlay

\* The other steps of a worker leave the pairs where they are, or lose one.
LEMMA WorkerInTurn ==
  ASSUME Tuning, cpc # "failed", SpsaCore, StepsInv, NEW w \in WorkerIds, WorkerStep(w, TRUE),
         UNCHANGED <<cpc, handled, iter, slot, pairs_complete, score_sum, steps>>
  PROVE  SpsaCore' /\ StepsInv'
<1>1. IterInv'
  BY DEF SpsaCore, IterInv
<1>2. CASE Play(w) \/ Spoil(w)
  <2>1. PICK winner \in Results : Ends(w, winner)
    <3>1. Winners \subseteq Results /\ Players \subseteq Results
      BY PoolAssumption DEF Results
    <3> QED BY <1>2, <3>1 DEF Play, Spoil
  <2>2. UNCHANGED cmds
    BY <1>2 DEF Play, Spoil
  <2> QED BY <1>1, <2>1, <2>2, PlaysInTurn DEF SpsaCore
<1>3. CASE Take(w)
  <2>1. UNCHANGED won
    BY <1>3 DEF Take
  <2> QED BY <1>1, <1>3, <2>1, TakeInTurn, StepsKept DEF SpsaCore
<1>4. CASE ReportPair(w)
  <2>1. UNCHANGED won
    BY <1>4 DEF ReportPair
  <2> QED BY <1>1, <1>4, <2>1, TellPreserves, StepsKept DEF SpsaCore
<1>5. CASE Handshake(w) \/ Disconnected(w) \/ Sync(w, TRUE) \/ Starved(w, TRUE) \/ Shutdown(w)
  <2>1. PICK pc \in {"ready", "leaving", "newgame", "gone"} :
          /\ worker' = [worker EXCEPT ![w].pc = pc]
          /\ worker[w].pc # "paired"
          /\ pc = "newgame" => worker[w].pc = "syncing"
    BY <1>5 DEF Handshake, Disconnected, Sync, Starved, Shutdown, Go, At
  <2>2. UNCHANGED <<cmds, won>>
    BY <1>5 DEF Handshake, Disconnected, Sync, Starved, Shutdown
  <2>3. \/ reports' = reports
        \/ \E v \in WorkerIds : reports' = Append(reports, Failure(v))
    BY <1>5 DEF Handshake, Disconnected, Sync, Starved, Shutdown, Say
  <2>4. \A v \in WorkerIds : /\ worker'[v].pair = worker[v].pair
                             /\ worker'[v].leg = worker[v].leg
                             /\ v # w => worker'[v].pc = worker[v].pc
                             /\ v = w => worker'[v].pc = pc
    BY ZenonT(40), <2>1 DEF Tuning, TypeOK, PoolTypeOK
  <2>5. \A v \in WorkerIds :
           /\ worker'[v].pair = worker[v].pair /\ worker'[v].leg = worker[v].leg
           /\ worker'[v].pc = "syncing" => worker[v].pc = "syncing"
           /\ worker'[v].pc = "newgame" =>
                worker[v].pc = "newgame" \/ (worker[v].pc = "syncing" /\ worker[v].leg = 0)
           /\ worker'[v].pc = "paired" => worker[v].pc = "paired"
    <3> SUFFICES ASSUME NEW v \in WorkerIds
                 PROVE  /\ worker'[v].pc = "syncing" => worker[v].pc = "syncing"
                        /\ worker'[v].pc = "newgame" => worker[v].pc = "newgame"
                             \/ (worker[v].pc = "syncing" /\ worker[v].leg = 0)
                        /\ worker'[v].pc = "paired" => worker[v].pc = "paired"
      BY <2>4
    <3>1. worker[v].pc = "syncing" => worker[v].leg = 0
      BY DEF SpsaCore, SpsaPlay, PlayedInv
    <3> QED BY <2>1, <2>4, <3>1
  <2>6. \A v \in WorkerIds, i \in Nat :
          IsPair(v, i)' => IsPair(v, i) /\ PairAt(v, i)' = PairAt(v, i)
    BY <2>2 DEF IsPair, PairAt
  <2>7. SentInv' /\ ApartInv' /\ PlayedInv'
    BY <2>2, <2>5, <2>6, PlacesKept DEF SpsaCore, SpsaPlay
  <2>8. \A v \in WorkerIds : worker'[v].pc = "paired" <=> worker[v].pc = "paired"
    BY <2>1, <2>4
  <2>9. \A p \in Sent : Said(p)' <=> Said(p)
    BY <2>2, <2>4, <2>8 DEF Said
  <2>10. NewsInv' /\ ToldInv' /\ BehindInv' /\ SumInv'
    BY <2>2, <2>3, <2>9, NewsKept DEF SpsaCore, SpsaPlay, Tuning
  <2>11. StepsInv'
    BY <2>2, StepsKept
  <2> QED BY <1>1, <2>7, <2>10, <2>11 DEF SpsaCore, SpsaPlay
<1> QED BY <1>2, <1>3, <1>4, <1>5 DEF WorkerStep

-----------------------------------------------------------------------------
\* The steps of run_spsa.

\* Steps that neither send a pair nor take a report.
LEMMA EndsInTurn ==
  ASSUME Tuning, SpsaCore, StepsInv, cpc # "failed", IterInv',
         \A v \in WorkerIds, i \in Nat :
           IsPair(v, i)' => IsPair(v, i) /\ PairAt(v, i)' = PairAt(v, i),
         UNCHANGED <<worker, reports, won, handled, iter, slot, pairs_complete, score_sum, steps>>
  PROVE  SpsaCore' /\ StepsInv'
<1>1. \A v \in WorkerIds :
         /\ worker'[v].pair = worker[v].pair /\ worker'[v].leg = worker[v].leg
         /\ worker'[v].pc = "syncing" => worker[v].pc = "syncing"
         /\ worker'[v].pc = "newgame" =>
              worker[v].pc = "newgame" \/ (worker[v].pc = "syncing" /\ worker[v].leg = 0)
         /\ worker'[v].pc = "paired" => worker[v].pc = "paired"
  OBVIOUS
<1>2. UNCHANGED <<won, handled, iter, slot>>
  OBVIOUS
<1>3. SentInv' /\ ApartInv' /\ PlayedInv'
  BY <1>1, <1>2, PlacesKept DEF SpsaCore, SpsaPlay
<1>4. \A p \in Sent : Said(p)' <=> Said(p)
  BY DEF Said
<1>5. NewsInv' /\ ToldInv' /\ BehindInv' /\ SumInv'
  BY <1>4, NewsKept DEF SpsaCore, SpsaPlay, Tuning
<1> QED BY <1>3, <1>5, StepsKept DEF SpsaCore, SpsaPlay

\* The next pair is sent to the worker whose turn it is.
LEMMA DispatchInTurn ==
  ASSUME Tuning, SpsaCore, StepsInv, SpsaDispatch
  PROVE  SpsaCore' /\ StepsInv'
<1>0. PICK q, u : q = Base + slot /\ u = slot % NWorkers
  OBVIOUS
<1>1. /\ cpc = "dispatch" /\ slot < PairsPerIter /\ slot' = slot + 1
      /\ cpc' = (IF slot' = PairsPerIter THEN "barrier" ELSE cpc)
      /\ cmds' = [cmds EXCEPT ![u] = Append(@, PlayPair(q))]
      /\ UNCHANGED <<worker, reports, won, handled, iter, pairs_complete, score_sum, steps>>
  BY <1>0 DEF SpsaDispatch, Send, UNCHANGED_Workers, spsaVars, tallyVars, Base
<1>2. /\ Base \in Nat /\ slot \in Nat /\ iter \in Nat /\ PairsPerIter \in Nat \ {0}
      /\ Sent \subseteq Pairs /\ Sent \subseteq Nat
  BY <1>1, SentPairs DEF SpsaCore
<1>3. q \in Pairs /\ q \in Nat
  <2>1. iter \in 0 .. NIters - 1 /\ slot \in 0 .. PairsPerIter - 1
    BY <1>1, <1>2, HarnessAssumption DEF Tuning, TuningInv
  <2> QED BY <1>0, <2>1, TuningPair, TotalPairs DEF Base
<1>4. u \in WorkerIds
  BY <1>0, <1>2, PoolAssumption DEF WorkerIds
<1>5. cmds[u] \in Seq(CommandType) /\ Len(cmds[u]) \in Nat
  <2>1. cmds[u] \in Seq(CommandType)
    BY <1>4 DEF Tuning, TypeOK, PoolTypeOK, CommandType
  <2> QED BY <2>1, LenProperties
<1>6. /\ Base' = Base /\ Sent' = Sent \cup {q} /\ q \notin Sent
      /\ Current' = Current /\ Worths' = Worths
      /\ \A x : Worth(x)' = Worth(x)
      /\ \A k : GamesOf(k)' = GamesOf(k)
  <2>1. Base' = Base
    BY <1>1 DEF Base
  <2>2. Sent' = Base .. Base + slot /\ Sent = Base .. Base + slot - 1
    BY <1>1, <1>2, <2>1 DEF Sent
  <2>3. Sent' = Sent \cup {q} /\ q \notin Sent
    BY <1>0, <1>2, <2>2
  <2>4. Current' = Current /\ \A k : GamesOf(k)' = GamesOf(k)
    BY <1>1 DEF Current, GamesOf
  <2>5. Worths' = Worths
    BY <1>1 DEF Worths, Worth
  <2>6. \A x : Worth(x)' = Worth(x)
    BY <1>1 DEF Worth
  <2> QED BY <2>1, <2>3, <2>4, <2>5, <2>6
<1>7. \A leg \in {0, 1} : won[game_index(q, leg)] = "none"
  BY <1>0, <1>2, <1>3 DEF SpsaCore, SpsaPlay, PlayedInv
<1>8. \A v \in WorkerIds, i \in Nat : IsPair(v, i)' =>
        \/ IsPair(v, i) /\ PairAt(v, i)' = PairAt(v, i)
        \/ v = u /\ i = Len(cmds[u]) + 1 /\ PairAt(v, i)' = q
  <2> SUFFICES ASSUME NEW v \in WorkerIds, NEW i \in Nat, IsPair(v, i)'
               PROVE  \/ IsPair(v, i) /\ PairAt(v, i)' = PairAt(v, i)
                      \/ v = u /\ i = Len(cmds[u]) + 1 /\ PairAt(v, i)' = q
    OBVIOUS
  <2>1. CASE v # u
    <3>1. cmds'[v] = cmds[v]
      BY <1>1, <2>1 DEF Tuning, TypeOK, PoolTypeOK
    <3> QED BY <3>1 DEF IsPair, PairAt
  <2>2. CASE v = u
    <3>1. cmds'[v] = Append(cmds[u], PlayPair(q))
      BY <1>1, <1>4, <2>2 DEF Tuning, TypeOK, PoolTypeOK
    <3>2. /\ Len(cmds'[v]) = Len(cmds[u]) + 1
          /\ \A j \in 1 .. Len(cmds[u]) : cmds'[v][j] = cmds[u][j]
          /\ cmds'[v][Len(cmds[u]) + 1] = PlayPair(q)
      BY <1>3, <1>5, <3>1, AppendProperties, CommandTypes
    <3> QED BY <1>5, <2>2, <3>2 DEF IsPair, PairAt, PlayPair
  <2> QED BY <2>1, <2>2
<1>9. IterInv'
  BY <1>1, <1>2 DEF SpsaCore, IterInv
<1>10. SentInv'
  BY <1>1, <1>6, <1>8 DEF SpsaCore, SpsaPlay, SentInv, Holds
<1>11. ApartInv'
  <2>1. /\ \A v \in WorkerIds, i \in Nat : IsPair(v, i) => PairAt(v, i) # q
        /\ \A v \in WorkerIds : Holds(v) => worker[v].pair # q
    BY <1>6 DEF SpsaCore, SpsaPlay, SentInv
  <2>2. \A v, w \in WorkerIds, i, j \in Nat :
          IsPair(v, i)' /\ IsPair(w, j)' /\ PairAt(v, i)' = PairAt(w, j)' => v = w /\ i = j
    BY <1>8, <2>1 DEF SpsaCore, SpsaPlay, ApartInv
  <2>3. \A v, w \in WorkerIds, i \in Nat :
          Holds(v) /\ IsPair(w, i)' => PairAt(w, i)' # worker[v].pair
    BY <1>8, <2>1 DEF SpsaCore, SpsaPlay, ApartInv
  <2> QED BY <1>1, <2>2, <2>3 DEF SpsaCore, SpsaPlay, ApartInv, Holds
<1>12. PlayedInv'
  <2>1. \A p \in Pairs, leg \in {0, 1} :
          p >= (Base + slot)' => won[game_index(p, leg)] = "none"
    <3> SUFFICES ASSUME NEW p \in Pairs, NEW leg \in {0, 1}, p >= Base + (slot + 1)
                 PROVE  won[game_index(p, leg)] = "none"
      BY <1>1, <1>6
    <3>1. p >= Base + slot
      BY <1>2, TotalPairs
    <3> QED BY <3>1 DEF SpsaCore, SpsaPlay, PlayedInv
  <2>2. \A v \in WorkerIds, i \in Nat, leg \in {0, 1} :
          IsPair(v, i)' => won[game_index(PairAt(v, i)', leg)] = "none"
    BY <1>7, <1>8 DEF SpsaCore, SpsaPlay, PlayedInv
  <2> QED BY <1>1, <2>1, <2>2 DEF SpsaCore, SpsaPlay, PlayedInv, GameOf
<1>13. ~Said(q) /\ \A p : Said(p)' <=> Said(p)
  BY <1>1, <1>7 DEF Said
<1>14. SaidPairs' = SaidPairs
  <2>1. ASSUME NEW p PROVE p \in SaidPairs' <=> p \in SaidPairs
    BY <1>6, <1>13 DEF SaidPairs
  <2> QED BY <2>1
<1>15. NewsInv' /\ ToldInv'
  BY <1>1, <1>6 DEF SpsaCore, SpsaPlay, NewsInv, ToldInv, Reported
<1>16. PairReports' = PairReports
  BY <1>1 DEF PairReports
<1>17. BehindInv'
  BY <1>1, <1>6, <1>13, <1>16 DEF SpsaCore, SpsaPlay, BehindInv
<1>18. SumInv'
  BY <1>1, <1>6, <1>14, <1>16 DEF SpsaCore, SpsaPlay, SumInv
<1>19. StepsInv'
  BY <1>1, StepsKept
<1> QED
  BY <1>9, <1>10, <1>11, <1>12, <1>15, <1>17, <1>18, <1>19 DEF SpsaCore, SpsaPlay

\* A report is taken: those behind it move up.
LEMMA HeardInTurn ==
  ASSUME Tuning, SpsaCore, cpc # "failed", Hear, UNCHANGED <<worker, won, cmds, iter, slot>>,
         handled \subseteq handled', \A g \in handled' : won[g] # "none",
         Report.kind = "game" => handled' = handled \cup {Report.game},
         Report.kind # "game" => handled' = handled
  PROVE  /\ SentInv' /\ ApartInv' /\ PlayedInv' /\ NewsInv' /\ ToldInv' /\ BehindInv'
         /\ SaidPairs' = SaidPairs /\ Current' = Current /\ Worths' = Worths
         /\ Report.kind # "pair" => Cardinality(PairReports') = Cardinality(PairReports)
         /\ Report.kind = "pair" => Cardinality(PairReports') = Cardinality(PairReports) - 1
<1>1. /\ Report = reports[1] /\ 1 \in 1 .. Len(reports)
      /\ Len(reports) \in Nat /\ Len(reports') = Len(reports) - 1
      /\ \A i \in 1 .. Len(reports') : reports'[i] = reports[i + 1] /\ i + 1 \in 1 .. Len(reports)
      /\ \A i \in 1 .. Len(reports) :
           i # 1 => i - 1 \in 1 .. Len(reports') /\ reports'[i - 1] = reports[i]
  BY HeardReport DEF Tuning
<1>2. /\ Base' = Base /\ Sent' = Sent /\ Current' = Current /\ Worths' = Worths
      /\ \A g : Worth(g)' = Worth(g)
  BY DEF Base, Sent, Current, GamesOf, Worths, Worth
<1>3. SentInv' /\ ApartInv'
  BY <1>2 DEF SpsaCore, SpsaPlay, SentInv, ApartInv, IsPair, PairAt, Holds
<1>4. PlayedInv'
  BY <1>2 DEF SpsaCore, SpsaPlay, PlayedInv, IsPair, PairAt, GameOf
<1>5. \A i \in 1 .. Len(reports') : i + 1 # 1 /\ i \in Nat
  BY <1>1
<1>6. NewsInv'
  <2> SUFFICES ASSUME NEW i \in 1 .. Len(reports'), reports'[i].kind = "game"
               PROVE  /\ reports'[i].game \in Current \ handled'
                      /\ won[reports'[i].game] # "none"
                      /\ reports'[i].score = Worth(reports'[i].game)
                      /\ \A j \in 1 .. Len(reports') :
                           reports'[j].kind = "game" /\ reports'[i].game = reports'[j].game
                             => i = j
    BY <1>2 DEF NewsInv
  <2>1. reports'[i] = reports[i + 1] /\ i + 1 \in 1 .. Len(reports) /\ i + 1 # 1 /\ i \in Nat
    BY <1>1, <1>5
  <2>2. /\ reports[i + 1].game \in Current \ handled
        /\ won[reports[i + 1].game] # "none"
        /\ reports[i + 1].score = Worth(reports[i + 1].game)
        /\ \A j \in 1 .. Len(reports) :
             reports[j].kind = "game" /\ reports[i + 1].game = reports[j].game => i + 1 = j
    BY <2>1 DEF SpsaCore, SpsaPlay, NewsInv
  <2>3. Report.kind = "game" => reports[i + 1].game # Report.game
    BY <1>1, <2>1, <2>2
  <2>4. \A j \in 1 .. Len(reports') :
          reports'[j].kind = "game" /\ reports'[i].game = reports'[j].game => i = j
    <3> SUFFICES ASSUME NEW j \in 1 .. Len(reports'), reports'[j].kind = "game",
                        reports'[i].game = reports'[j].game
                 PROVE  i = j
      OBVIOUS
    <3>1. reports'[j] = reports[j + 1] /\ j + 1 \in 1 .. Len(reports) /\ j \in Nat
      BY <1>1, <1>5
    <3>2. i + 1 = j + 1
      BY <2>1, <2>2, <3>1
    <3> QED BY <2>1, <3>1, <3>2
  <2> QED BY <2>1, <2>2, <2>3, <2>4
<1>7. ToldInv'
  <2> SUFFICES ASSUME NEW g \in Games, won[g] # "none", g \notin handled'
               PROVE  \E j \in 1 .. Len(reports') :
                        reports'[j].kind = "game" /\ reports'[j].game = g
    BY DEF ToldInv, Reported
  <2>1. PICK j \in 1 .. Len(reports) : reports[j].kind = "game" /\ reports[j].game = g
    BY DEF SpsaCore, SpsaPlay, ToldInv, Reported
  <2>2. j # 1
    BY <1>1, <2>1
  <2> QED BY <1>1, <2>1, <2>2
<1>8. \A i \in Nat : i \in PairReports' <=> i + 1 \in PairReports /\ i # 0
  <2> SUFFICES ASSUME NEW i \in Nat PROVE i \in PairReports' <=> i + 1 \in PairReports /\ i # 0
    OBVIOUS
  <2>1. i \in 1 .. Len(reports') <=> i + 1 \in 1 .. Len(reports) /\ i # 0
    BY <1>1
  <2> QED BY <1>1, <2>1 DEF PairReports
<1>9. \A p \in Sent : Said(p)' <=> Said(p)
  BY DEF Said
<1>10. SaidPairs' = SaidPairs
  BY <1>2, <1>9 DEF SaidPairs
<1>11. BehindInv'
  <2> SUFFICES ASSUME NEW i \in 1 .. Len(reports'), NEW p \in Sent, NEW leg \in {0, 1},
                      reports'[i].kind = "game", reports'[i].game = game_index(p, leg),
                      Said(p)
               PROVE  \E j \in PairReports' : i < j
    BY <1>2, <1>9 DEF BehindInv
  <2>1. reports'[i] = reports[i + 1] /\ i + 1 \in 1 .. Len(reports) /\ i \in Nat
    BY <1>1, <1>5
  <2>2. PICK j \in PairReports : i + 1 < j
    BY <2>1 DEF SpsaCore, SpsaPlay, BehindInv
  <2>3. j \in 1 .. Len(reports)
    BY DEF PairReports
  <2>4. j - 1 \in Nat /\ j - 1 # 0 /\ (j - 1) + 1 = j /\ i < j - 1
    BY <1>1, <2>1, <2>2, <2>3
  <2> QED BY <1>8, <2>2, <2>4
<1>12. Cardinality(PairReports') = Cardinality(PairReports \ {1})
  <2> DEFINE f == [i \in PairReports' |-> i + 1]
  <2>1. \A i \in PairReports' : i \in Nat /\ i + 1 \in PairReports \ {1}
    BY <1>5, <1>8 DEF PairReports
  <2>2. \A j \in PairReports \ {1} : j - 1 \in PairReports' /\ j = (j - 1) + 1
    <3> SUFFICES ASSUME NEW j \in PairReports \ {1}
                 PROVE  j - 1 \in PairReports' /\ j = (j - 1) + 1
      OBVIOUS
    <3>1. j \in 1 .. Len(reports) /\ j # 1
      BY DEF PairReports
    <3>2. j - 1 \in Nat /\ j - 1 # 0 /\ (j - 1) + 1 = j
      BY <1>1, <3>1
    <3> QED BY <1>8, <3>2
  <2>3. f \in Bijection(PairReports', PairReports \ {1})
    BY <2>1, <2>2 DEF Bijection, Injection, Surjection, IsInjective
  <2>4. IsFiniteSet(PairReports')
    <3>1. Len(reports') \in Int
      BY <1>1
    <3>2. IsFiniteSet(1 .. Len(reports'))
      BY <3>1, FS_Interval
    <3>3. PairReports' \subseteq 1 .. Len(reports')
      BY DEF PairReports
    <3> QED BY <3>2, <3>3, FS_Subset
  <2> QED BY <2>3, <2>4, FS_Bijection DEF ExistsBijection
<1>13. Cardinality(PairReports \ {1}) =
         IF Report.kind = "pair" THEN Cardinality(PairReports) - 1 ELSE Cardinality(PairReports)
  <2>1. 1 \in PairReports <=> Report.kind = "pair"
    BY <1>1 DEF PairReports
  <2> QED BY <2>1, PairReportsFinite, FS_RemoveElement DEF Tuning
<1> QED BY <1>2, <1>3, <1>4, <1>6, <1>7, <1>10, <1>11, <1>12, <1>13

LEMMA HandleInTurn ==
  ASSUME Tuning, SpsaCore, StepsInv, SpsaHandle
  PROVE  SpsaCore' /\ StepsInv'
<1>1. /\ cpc = "barrier" /\ cpc' = cpc /\ Hear
      /\ UNCHANGED <<worker, won, cmds, iter, slot, steps>>
      /\ IF Report.kind = "game"
         THEN /\ score_sum' = score_sum + Report.score
              /\ handled' = handled \cup {Report.game} /\ UNCHANGED pairs_complete
         ELSE pairs_complete' = pairs_complete + 1 /\ UNCHANGED <<score_sum, handled>>
      /\ Report.kind # "failure"
  BY DEF SpsaHandle, UNCHANGED_Workers
<1>2. /\ Report = reports[1] /\ 1 \in 1 .. Len(reports) /\ reports[1] \in ReportType
  BY <1>1, HeardReport DEF Tuning
<1>3. Report.kind = "game" =>
        /\ Report.game \in Current \ handled /\ won[Report.game] # "none"
        /\ Report.score = Worth(Report.game)
  BY <1>2 DEF SpsaCore, SpsaPlay, NewsInv
<1>4. handled \subseteq handled' /\ \A g \in handled' : won[g] # "none"
  BY <1>1, <1>3 DEF SpsaCore, SpsaPlay, PlayedInv
<1>5. /\ SentInv' /\ ApartInv' /\ PlayedInv' /\ NewsInv' /\ ToldInv' /\ BehindInv'
      /\ SaidPairs' = SaidPairs /\ Current' = Current /\ Worths' = Worths
      /\ Report.kind # "pair" => Cardinality(PairReports') = Cardinality(PairReports)
      /\ Report.kind = "pair" => Cardinality(PairReports') = Cardinality(PairReports) - 1
  BY <1>1, <1>4, HeardInTurn
<1>6. Report.kind \in {"game", "pair"}
  BY <1>1, <1>2 DEF ReportType
<1>7. pairs_complete' + Cardinality(PairReports') = Cardinality(SaidPairs')
  <2>1. pairs_complete \in Nat /\ Cardinality(PairReports) \in Nat
    BY PairReportsFinite, HarnessAssumption DEF Tuning, TypeOK
  <2> QED BY <1>1, <1>5, <1>6, <2>1 DEF SpsaCore, SpsaPlay, SumInv
<1>8. score_sum' = Total(Worths, handled' \cap Current)
  <2>1. CASE Report.kind # "game"
    BY <1>1, <2>1 DEF SpsaCore, SpsaPlay, SumInv
  <2>2. CASE Report.kind = "game"
    <3> DEFINE S == handled' \cap Current
    <3>0. PICK g : g = Report.game
      OBVIOUS
    <3>1. g \in S /\ S \ {g} = handled \cap Current
      BY <1>1, <1>3, <2>2, <3>0
    <3>2. iter \in Nat
      BY <1>1, SentPairs DEF SpsaCore
    <3>3. S \subseteq Games /\ IsFiniteSet(S)
      BY <3>2, GamesOfIter, FS_Subset DEF Current
    <3> HIDE DEF S
    <3>4. Total(Worths, S) = Worths[g] + Total(Worths, S \ {g}) /\ Worths[g] = Worth(g)
      BY <3>1, <3>3, WorthsAre, TotalAdd DEF Tuning
    <3>5. score_sum = Total(Worths, S \ {g})
      BY <3>1 DEF SpsaCore, SpsaPlay, SumInv
    <3>6. score_sum' = score_sum + Worth(g)
      BY <1>1, <1>3, <2>2, <3>0
    <3>7. score_sum \in Nat /\ Worth(g) \in 0 .. 2
      BY <3>1, <3>3, WorthsAre DEF Tuning, TypeOK
    <3>8. score_sum' = Total(Worths, S)
      BY <3>4, <3>5, <3>6, <3>7
    <3> QED BY <3>8 DEF S
  <2> QED BY <2>1, <2>2
<1>9. IterInv'
  BY <1>1 DEF SpsaCore, IterInv
<1>10. StepsInv'
  BY <1>1, StepsKept
<1> QED BY <1>5, <1>7, <1>8, <1>9, <1>10 DEF SpsaCore, SpsaPlay, SumInv

\* The gradient step: every pair of the iteration was reported, so none of its
\* games is missing or on its way.
LEMMA StepInTurn ==
  ASSUME Tuning, SpsaCore, StepsInv, SpsaStep
  PROVE  SpsaCore' /\ StepsInv'
<1>1. /\ cpc = "barrier" /\ pairs_complete = PairsPerIter /\ slot = PairsPerIter
      /\ steps' = Append(steps, score_sum)
      /\ iter' = iter + 1 /\ pairs_complete' = 0 /\ score_sum' = 0 /\ slot' = 0
      /\ cpc' = (IF iter' = NIters THEN "quit" ELSE "dispatch")
      /\ UNCHANGED <<worker, cmds, reports, won, handled>>
  BY DEF SpsaStep, BarrierPassed, SpsaCore, IterInv
<1>2. /\ Base \in Nat /\ iter \in Nat /\ PairsPerIter \in Nat \ {0}
      /\ Sent = Base .. Base + PairsPerIter - 1
      /\ Sent \subseteq Pairs /\ Sent \subseteq Nat /\ IsFiniteSet(Sent)
  BY <1>1, SentPairs DEF SpsaCore, Sent
<1>3. PairReports = {} /\ SaidPairs = Sent
  <2>1. Cardinality(Sent) = PairsPerIter
    <3>1. Base \in Int /\ Base + PairsPerIter - 1 \in Int
      BY <1>2
    <3>2. Cardinality(Sent) = IF Base > Base + PairsPerIter - 1 THEN 0
                              ELSE (Base + PairsPerIter - 1) - Base + 1
      BY <1>2, <3>1, FS_Interval
    <3> QED BY <1>2, <3>2
  <2>2. IsFiniteSet(PairReports) /\ Cardinality(PairReports) \in Nat
    BY PairReportsFinite DEF Tuning
  <2>3. SaidPairs \subseteq Sent
    BY DEF SaidPairs
  <2>4. /\ Cardinality(SaidPairs) \in Nat /\ Cardinality(SaidPairs) <= PairsPerIter
        /\ Cardinality(SaidPairs) = PairsPerIter => SaidPairs = Sent
    BY <1>2, <2>1, <2>3, FS_Subset, FS_CardinalityType
  <2>5. PairsPerIter + Cardinality(PairReports) = Cardinality(SaidPairs)
    BY <1>1 DEF SpsaCore, SpsaPlay, SumInv
  <2>6. Cardinality(PairReports) = 0 /\ Cardinality(SaidPairs) = PairsPerIter
    BY <1>2, <2>2, <2>4, <2>5
  <2> QED BY <2>2, <2>4, <2>6, FS_EmptySet
<1>4. \A p \in Sent : Said(p)
  BY <1>3 DEF SaidPairs
<1>5. \A p \in Sent, leg \in {0, 1} : won[game_index(p, leg)] # "none"
  BY <1>4 DEF Said
<1>6. \A w \in WorkerIds : ~Holds(w)
  <2> SUFFICES ASSUME NEW w \in WorkerIds, Holds(w) PROVE FALSE
    OBVIOUS
  <2>1. worker[w].pair \in Sent /\ worker[w].leg \in {0, 1}
    BY OwnGames DEF SpsaCore, SpsaPlay, SentInv, Tuning
  <2>2. worker[w].pc # "paired"
    BY <1>4, <2>1 DEF Said
  <2>3. worker[w].pc \in {"syncing", "newgame"} /\ worker[w].leg >= worker[w].leg
    BY <2>1, <2>2 DEF Holds
  <2>4. won[GameOf(w, worker[w].leg)] = "none"
    BY <2>1, <2>3 DEF SpsaCore, SpsaPlay, PlayedInv
  <2> QED BY <1>5, <2>1, <2>4 DEF GameOf
<1>7. \A w \in WorkerIds, i \in Nat : ~IsPair(w, i)
  <2> SUFFICES ASSUME NEW w \in WorkerIds, NEW i \in Nat, IsPair(w, i) PROVE FALSE
    OBVIOUS
  <2>1. PairAt(w, i) \in Sent
    BY DEF SpsaCore, SpsaPlay, SentInv
  <2>2. won[game_index(PairAt(w, i), 0)] = "none"
    BY DEF SpsaCore, SpsaPlay, PlayedInv
  <2> QED BY <1>5, <2>1, <2>2
<1>8. /\ \A g \in Current : \E p \in Sent : \E leg \in {0, 1} : g = game_index(p, leg)
      /\ Current \subseteq Games /\ IsFiniteSet(Current)
  BY <1>2, GamesOfIter DEF Current, Base
<1>9. \A i \in 1 .. Len(reports) : reports[i].kind # "game"
  <2> SUFFICES ASSUME NEW i \in 1 .. Len(reports), reports[i].kind = "game" PROVE FALSE
    OBVIOUS
  <2>1. reports[i].game \in Current
    BY DEF SpsaCore, SpsaPlay, NewsInv
  <2>2. PICK p \in Sent, leg \in {0, 1} : reports[i].game = game_index(p, leg)
    BY <1>8, <2>1
  <2> QED BY <1>3, <1>4, <2>2 DEF SpsaCore, SpsaPlay, BehindInv
<1>10. \A g \in Games : won[g] # "none" => g \in handled
  BY <1>9 DEF SpsaCore, SpsaPlay, ToldInv, Reported
<1>11. \A g \in Current : won[g] # "none" /\ g \in handled
  BY <1>5, <1>8, <1>10
<1>12. score_sum = Total(Worths, Current)
  <2>1. handled \cap Current = Current
    BY <1>11
  <2> QED BY <2>1 DEF SpsaCore, SpsaPlay, SumInv
<1>13. Worths' = Worths /\ (\A k : GamesOf(k)' = GamesOf(k)) /\ Current = GamesOf(iter + 1)
  BY <1>1 DEF Worths, Worth, GamesOf, Current
<1>14. StepsInv'
  <2>1. steps \in Seq(Nat) /\ score_sum \in Nat /\ Len(steps) = iter
    BY DEF Tuning, TypeOK, StepsInv
  <2>2. /\ Len(steps') = iter + 1 /\ steps'[iter + 1] = score_sum
        /\ \A k \in 1 .. iter : steps'[k] = steps[k]
    BY <1>1, <2>1, AppendProperties
  <2> SUFFICES ASSUME NEW k \in 1 .. iter + 1
               PROVE  /\ steps'[k] = Total(Worths, GamesOf(k))
                      /\ \A g \in GamesOf(k) : won[g] # "none"
    BY <1>1, <1>13, <2>2 DEF StepsInv
  <2>3. CASE k = iter + 1
    BY <1>11, <1>12, <1>13, <2>2, <2>3
  <2>4. CASE k # iter + 1
    <3>1. k \in 1 .. iter
      BY <1>2, <2>4
    <3> QED BY <2>2, <3>1 DEF StepsInv
  <2> QED BY <2>3, <2>4
<1>15. IterInv'
  BY <1>1, <1>2 DEF IterInv
<1>16. Base' = Base + PairsPerIter /\ Sent' = {}
  <2>1. (iter + 1) * PairsPerIter = Base + PairsPerIter
    BY <1>2 DEF Base
  <2>2. Base' = Base + PairsPerIter
    BY <1>1, <2>1 DEF Base
  <2>3. Base' \in Nat /\ slot' = 0
    BY <1>1, <1>2, <2>2
  <2> QED BY <2>2, <2>3 DEF Sent
<1>17. SentInv' /\ ApartInv'
  BY <1>1, <1>6, <1>7 DEF SentInv, ApartInv, IsPair, PairAt, Holds
<1>18. PlayedInv'
  <2>1. \A p \in Pairs, leg \in {0, 1} :
          p >= (Base + slot)' => won[game_index(p, leg)] = "none"
    <3>1. (Base + slot)' = Base + slot
      BY <1>1, <1>2, <1>16
    <3> QED BY <3>1 DEF SpsaCore, SpsaPlay, PlayedInv
  <2> QED BY <1>1, <2>1 DEF SpsaCore, SpsaPlay, PlayedInv, GameOf, IsPair, PairAt
<1>19. NewsInv' /\ ToldInv' /\ BehindInv'
  BY <1>1, <1>9, <1>10 DEF NewsInv, ToldInv, BehindInv
<1>20. SumInv'
  <2>1. PairReports' = {} /\ SaidPairs' = {}
    BY <1>1, <1>3, <1>16 DEF PairReports, SaidPairs
  <2>2. handled \cap GamesOf((iter + 1) + 1) = {}
    <3> SUFFICES ASSUME NEW g \in handled, g \in GamesOf((iter + 1) + 1) PROVE FALSE
      OBVIOUS
    <3> DEFINE next == (iter + 1) * PairsPerIter
    <3>1. iter + 1 \in Nat /\ next = Base + PairsPerIter
      BY <1>2 DEF Base
    <3>2. PICK leg \in {0, 1}, p \in next .. next + PairsPerIter - 1 :
            p \in Pairs /\ g = game_index(p, leg)
      BY <3>1, GamesOfIter
    <3>3. p >= Base + slot
      BY <1>1, <1>2, <3>1
    <3>4. won[g] = "none"
      BY <3>2, <3>3 DEF SpsaCore, SpsaPlay, PlayedInv
    <3> QED BY <3>4 DEF SpsaCore, SpsaPlay, PlayedInv
  <2>3. (handled \cap Current)' = {}
    BY <1>1, <2>2 DEF Current, GamesOf
  <2>4. Total(Worths, {}) = 0
    BY TotalEmpty
  <2>5. pairs_complete' + Cardinality(PairReports') = Cardinality(SaidPairs')
    BY <1>1, <2>1, FS_EmptySet
  <2>6. score_sum' = Total(Worths', (handled \cap Current)')
    BY <1>1, <1>13, <2>3, <2>4
  <2> QED BY <2>5, <2>6 DEF SumInv
<1> QED
  BY <1>14, <1>15, <1>17, <1>18, <1>19, <1>20 DEF SpsaCore, SpsaPlay

-----------------------------------------------------------------------------
LEMMA SpsaInit == Init /\ ~Match => SpsaInv
<1> SUFFICES ASSUME Init, ~Match PROVE SpsaCore /\ StepsInv
  BY DEF SpsaInv
<1>1. /\ iter = 0 /\ slot = 0 /\ steps = <<>> /\ handled = {} /\ reports = <<>>
      /\ pairs_complete = 0 /\ score_sum = 0
      /\ cpc = (IF NIters = 0 THEN "quit" ELSE "dispatch")
      /\ \A w \in WorkerIds : worker[w].pc = "starting" /\ cmds[w] = <<>>
      /\ \A g \in Games : won[g] = "none"
  BY DEF Init, PoolInit, Match
<1>2. PairsPerIter \in Nat \ {0} /\ NIters \in Nat
  BY HarnessAssumption
<1>3. Base = 0 /\ Sent = {}
  <2>1. Base = 0
    BY <1>1, <1>2 DEF Base
  <2> QED BY <1>1, <2>1 DEF Sent
<1>4. \A w \in WorkerIds, i \in Nat : ~IsPair(w, i)
  BY <1>1 DEF IsPair
<1>5. IterInv
  BY <1>1, <1>2 DEF IterInv
<1>6. SentInv /\ ApartInv
  BY <1>1, <1>4 DEF SentInv, ApartInv, Holds
<1>7. PlayedInv
  BY <1>1, <1>4, GamesType DEF PlayedInv
<1>8. NewsInv /\ ToldInv /\ BehindInv
  BY <1>1, <1>3 DEF NewsInv, ToldInv, BehindInv
<1>9. SumInv
  <2>1. PairReports = {} /\ SaidPairs = {} /\ handled \cap Current = {}
    BY <1>1, <1>3 DEF PairReports, SaidPairs
  <2> QED BY <1>1, <2>1, FS_EmptySet, TotalEmpty DEF SumInv
<1>10. StepsInv
  BY <1>1 DEF StepsInv
<1> QED BY <1>5, <1>6, <1>7, <1>8, <1>9, <1>10 DEF SpsaCore, SpsaPlay

LEMMA SpsaNext ==
  ASSUME TypeOK, TuningInv, NamedInv, ~Match, SpsaInv, [Next]_vars
  PROVE  SpsaInv'
<1>0. Tuning /\ mode = "spsa"
  BY DEF Tuning, Match
<1>1. ASSUME cpc' = "failed", UNCHANGED <<steps, iter, won>> PROVE SpsaInv'
  BY <1>1, StepsKept DEF SpsaInv
<1>2. CASE cpc = "failed"
  <2>1. UNCHANGED <<cpc, steps, iter, won>>
    BY <1>2, <1>0 DEF Next, Controller, Bootstrap, Bootstrapped, Draining, HandleGame,
      HandlePair, HandleFailure, StopDraining, QuitAll, ReturnError, ReturnOk, SpsaFails,
      SpsaDispatch, SpsaHandle, SpsaStep, Worker, Ended, Finished
  <2> QED BY <1>1, <1>2, <2>1
<1>3. CASE cpc # "failed"
  <2>0. SpsaCore /\ StepsInv
    BY <1>3 DEF SpsaInv
  <2>1. CASE SpsaFails \/ ReturnError
    <3>1. cpc' = "failed" /\ UNCHANGED <<steps, iter, won>>
      BY <2>1 DEF SpsaFails, ReturnError, UNCHANGED_Workers
    <3> QED BY <1>1, <3>1
  <2>2. CASE SpsaDispatch
    BY <1>0, <2>0, <2>2, DispatchInTurn DEF SpsaInv
  <2>3. CASE SpsaHandle
    BY <1>0, <2>0, <2>3, HandleInTurn DEF SpsaInv
  <2>4. CASE SpsaStep
    BY <1>0, <2>0, <2>4, StepInTurn DEF SpsaInv
  <2>5. ASSUME NEW w \in WorkerIds, Worker(w) PROVE SpsaInv'
    <3>1. WorkerStep(w, TRUE)
      BY <1>0, <2>5 DEF Worker
    <3>2. UNCHANGED <<cpc, handled, iter, slot, pairs_complete, score_sum, steps>>
      BY <2>5 DEF Worker
    <3> QED BY <1>0, <1>3, <2>0, <3>1, <3>2, WorkerInTurn DEF SpsaInv
  <2>6. CASE QuitAll \/ ReturnOk \/ Finished \/ UNCHANGED vars
    <3>1. UNCHANGED <<worker, reports, won, handled, iter, slot, pairs_complete, score_sum, steps>>
      BY <2>6 DEF QuitAll, ReturnOk, Finished, UNCHANGED_Workers
    <3>2. IterInv'
      BY <2>0, <2>6 DEF SpsaCore, IterInv, QuitAll, ReturnOk, Finished
    <3>3. \A v \in WorkerIds, i \in Nat :
            IsPair(v, i)' => IsPair(v, i) /\ PairAt(v, i)' = PairAt(v, i)
      <4>1. CASE cmds' = cmds
        BY <4>1 DEF IsPair, PairAt
      <4>2. CASE cmds' = [v \in WorkerIds |-> Append(cmds[v], QuitCmd)]
        <5> SUFFICES ASSUME NEW v \in WorkerIds, NEW i \in Nat, IsPair(v, i)'
                     PROVE  IsPair(v, i) /\ PairAt(v, i)' = PairAt(v, i)
          OBVIOUS
        <5>1. cmds[v] \in Seq(CommandType)
          BY <1>0 DEF Tuning, TypeOK, PoolTypeOK, CommandType
        <5>2. cmds'[v] = Append(cmds[v], QuitCmd)
          BY <4>2
        <5>3. /\ Len(cmds[v]) \in Nat /\ Len(cmds'[v]) = Len(cmds[v]) + 1
              /\ \A j \in 1 .. Len(cmds[v]) : cmds'[v][j] = cmds[v][j]
              /\ cmds'[v][Len(cmds[v]) + 1] = QuitCmd
          BY <5>1, <5>2, AppendProperties, CommandTypes, LenProperties
        <5> QED BY <5>3 DEF IsPair, PairAt, QuitCmd
      <4> QED BY <2>6, <4>1, <4>2 DEF QuitAll, ReturnOk, Finished
    <3> QED BY <1>0, <1>3, <2>0, <3>1, <3>2, <3>3, EndsInTurn DEF SpsaInv
  <2>7. CASE Bootstrap \/ Bootstrapped \/ HandleGame \/ HandlePair \/ HandleFailure \/ StopDraining
    <3>1. cpc \in {"bootstrap", "drain"}
      BY <2>7 DEF Bootstrap, Bootstrapped, HandleGame, HandlePair, HandleFailure, StopDraining,
        Draining
    <3>2. cpc \in {"dispatch", "barrier", "quit", "join", "returned", "failed"}
      BY DEF TuningInv
    <3> QED BY <3>1, <3>2
  <2> QED
    BY <2>1, <2>2, <2>3, <2>4, <2>5, <2>6, <2>7 DEF Next, Controller
<1> QED BY <1>2, <1>3

\* The steps of a tuning run do not mix: each is taken on the scores of all
\* games of its iteration and of no other, for any number of workers, pairs and
\* iterations, in whatever order the reports come.
THEOREM StepsCorrect == Spec => []StepsDoNotMix
<1> DEFINE Inv == TypeOK /\ TuningInv /\ NamedInv /\ (~Match => SpsaInv)
                    /\ (Match => steps = <<>>)
<1>1. Init => Inv
  BY InitTypes, SpsaInit DEF Init, Match
<1>2. Inv /\ IInv /\ [Next]_vars /\ IInv' => Inv'
  <2> SUFFICES ASSUME Inv, IInv, [Next]_vars, IInv' PROVE Inv'
    OBVIOUS
  <2>1. TypeOK' /\ TuningInv' /\ NamedInv'
    BY DEF IInv
  <2>2. Match' <=> Match
    BY DEF Match, Next, Controller, Worker, Finished, Bootstrap, Bootstrapped, HandleGame,
      HandlePair, HandleFailure, StopDraining, QuitAll, ReturnError, ReturnOk, SpsaFails,
      SpsaDispatch, SpsaHandle, SpsaStep
  <2>3. ~Match => SpsaInv'
    BY SpsaNext
  <2>4. ASSUME Match PROVE steps' = <<>>
    <3>1. cpc # "barrier"
      BY <2>4 DEF IInv, MatchInv, MatchCore, PhaseInv
    <3>2. steps' = steps
      BY <3>1 DEF Next, Controller, Worker, Finished, Bootstrap, Bootstrapped, HandleGame,
      HandlePair, HandleFailure, StopDraining, QuitAll, ReturnError, ReturnOk, SpsaFails,
      SpsaDispatch, SpsaHandle, SpsaStep
    <3> QED BY <2>4, <3>2
  <2> QED BY <2>1, <2>2, <2>3, <2>4
<1>3. Inv => StepsDoNotMix
  <2> SUFFICES ASSUME Inv, NEW k \in DOMAIN steps
               PROVE  steps[k] = MapThenSumSet(Worth, GamesOf(k))
    BY DEF StepsDoNotMix
  <2>1. CASE Match
    BY <2>1
  <2>2. CASE ~Match
    <3>1. steps \in Seq(Nat) /\ iter \in Nat /\ Len(steps) = iter
      BY <2>2, HarnessAssumption DEF TypeOK, SpsaInv, StepsInv
    <3>2. k \in 1 .. iter
      BY <3>1
    <3>3. steps[k] = Total(Worths, GamesOf(k))
      BY <2>2, <3>2 DEF SpsaInv, StepsInv
    <3>4. k - 1 \in Nat /\ (k - 1) + 1 = k
      BY <3>1, <3>2
    <3>5. GamesOf(k) \subseteq Games /\ IsFiniteSet(GamesOf(k))
      BY <3>4, GamesOfIter
    <3> QED BY <3>3, <3>5, WorthIsTotal
  <2> QED BY <2>1, <2>2
<1> QED BY <1>1, <1>2, <1>3, Invariance, PTL DEF Spec
=============================================================================
