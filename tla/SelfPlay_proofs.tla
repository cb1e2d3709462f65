--------------------------- MODULE SelfPlay_proofs ---------------------------
(***************************************************************************)
(* The self-play campaign plays every game once, and its lane is the one   *)
(* that a single worker would have written.                                *)
(*                                                                         *)
(* Each game below nextDispatch is in one of a few places (DispatchInv),   *)
(* and is queued or played only if it is in no other (QueueInv, WorkerInv).*)
(* A game whose write failed after its rename (unsynced) may be queued and *)
(* played though its file is there; nothing rests on there being one copy. *)
(*                                                                         *)
(* That the lane is canonical is not inductive.  A block may be appended   *)
(* only because the games that were passed over add nothing (SettledInv),  *)
(* and a game keeps adding nothing when the lane grows since dedup and cap *)
(* are monotone (SelfPlayAssumption).  The positions of a block are a      *)
(* beginning of what its game adds, all of it but for the last (Grown),    *)
(* and the last is whole unless the target is reached (EndsWell): that is  *)
(* what an extend breaks and has to mend before it goes on, so the phases  *)
(* in which it holds, and in which the checkpoint may be trusted, are part *)
(* of the invariant.                                                       *)
(***************************************************************************)
EXTENDS SelfPlay, FiniteSetTheorems, FunctionTheorems, SequenceTheorems, TLAPS

-----------------------------------------------------------------------------
\* Workers and the dispatcher.
HasGame == {"claimed", "played", "written"}
WorkerInv ==
  \A w \in Workers :
    /\ game[w] # None <=> worker[w] \in HasGame
    /\ game[w] \notin {None} \cup unsynced =>
         /\ game[w] \in claimed
         /\ w \in Playing => game[w] \notin pending \cup committedAtResume /\ game[w] >= next
         /\ \A v \in Workers : game[v] = game[w] => v = w
OnceEach(q, U) == \A i, j \in 1 .. Len(q) : q[i] = q[j] /\ q[i] \notin U => i = j
QueueInv ==
  /\ \A g \in Queued \ unsynced :
       g \notin pending \cup committedAtResume \cup claimed /\ g >= next
  /\ OnceEach(gapQueue, unsynced)
DispatchInv ==
  /\ \A g \in Queued \cup claimed \cup pending \cup committedAtResume \cup unsynced :
       g < nextDispatch
  /\ \A g \in Games : g >= next /\ g < nextDispatch =>
       \/ g \in committedAtResume \cup pending \cup Queued
       \/ \E w \in Playing : game[w] = g
  /\ \A g \in claimed \ unsynced : \E w \in Workers : game[w] = g
  /\ damaged \cap claimed \subseteq unsynced
ConsumerInv ==
  /\ next <= nextDispatch
  /\ cpc = "garbage" => next \in damaged \cup unsynced
  /\ cpc \in {"missing", "garbage", "found"} => next \notin committedAtResume
  /\ cpc \in {"found", "committed"} => next \in pending
  /\ cpc = "saved" => next > 0

PhaseInv ==
  /\ phase \in {"extending", "forgetting"} => manifest.target # None /\ manifest.target < target
  /\ phase = "returned" => manifest.target = target
  /\ phase = "truncated" => checkpoint = None
  /\ rest # None => phase = "truncating"
  /\ phase # "up" => cpc \in {"done", "failed"}

\* The lane as a sequence of blocks B.
End(b) == b.start + Len(b.fens)
Seen(B, i) == UNION {ToSet(B[j].fens) : j \in 1 .. i - 1}
All(B, i) == Survivors(B[i].game, Seen(B, i))
Prefix(s, u) == Len(s) <= Len(u) /\ \A k \in 1 .. Len(s) : s[k] = u[k]
Contiguous(B) ==
  /\ B # <<>> => B[1].start = 0
  /\ \A i \in 2 .. Len(B) : B[i].start = End(B[i - 1])
  /\ \A i, j \in 1 .. Len(B) : i < j => End(B[i]) <= B[j].start
Grown(B) ==
  /\ \A i \in 1 .. Len(B) : Len(B[i].fens) > 0 /\ Prefix(B[i].fens, All(B, i))
  /\ \A i \in 1 .. Len(B) - 1 : B[i].fens = All(B, i)
  /\ \A i, j \in 1 .. Len(B) : i < j => B[i].game < B[j].game
  /\ \A i \in 1 .. Len(B), g \in Games :
       g < B[i].game /\ (i > 1 => B[i - 1].game < g) => Survivors(g, Seen(B, i)) = <<>>
\* The last block was not cut short, or the target is reached.
EndsWell(B) == B = <<>> \/ B[Len(B)].fens = All(B, Len(B)) \/ Count(B) >= target
\* The game is in the lane, or there is no use in waiting for it.
Settled(B, g) ==
  \/ \E h \in Ids(B) : g <= h
  \/ Survivors(g, FensOf(B)) = <<>>
  \/ Count(B) >= target

Sound == HeadIsWhole /\ ~blind
\* A truncate that has still to append a part of a block.
ContigInv ==
  /\ Contiguous(Blocks)
  /\ rest # None => lane = Blocks /\ Contiguous(Append(Blocks, rest))
\* What the committer holds in memory is what is on the disk.
CommitterInv ==
  (phase = "up" /\ HeadIsWhole /\ cpc # "failed") =>
    /\ lane = Blocks /\ committed = Count(Blocks) /\ fen_set = FensOf(Blocks)
    /\ committedAtResume \subseteq Ids(Blocks)
    /\ cpc \in {"top", "missing", "garbage", "found", "saved"} =>
         Ids(Blocks) \subseteq committedAtResume \cup 0 .. next - 1
    /\ cpc = "committed" => Ids(Blocks) \subseteq committedAtResume \cup 0 .. next
GrownInv ==
  Sound =>
    /\ Grown(Blocks) /\ Count(Blocks) <= target
    /\ rest # None => Grown(Append(Blocks, rest)) /\ End(rest) <= target
    /\ phase \in {"forgetting", "resuming", "up", "returned", "failed"} => EndsWell(Blocks)
    /\ phase = "extending" => EndsWell(Blocks) \/ DropsCutGame
\* The next run is to extend, and will not go by the checkpoint.
ExtendPending == phase = "down" /\ manifest.target # None /\ manifest.target < target
CheckpointCounts == phase \in {"down", "resuming", "up", "returned", "failed"} /\ ~ExtendPending
SettledInv ==
  Sound =>
    /\ CheckpointCounts /\ checkpoint # None =>
         \A g \in Games : g < checkpoint => Settled(Blocks, g)
    /\ phase = "up" =>
         /\ \A g \in Games : g < next => Settled(Blocks, g)
         /\ cpc = "committed" => Settled(Blocks, next)
LaneInv == ContigInv /\ CommitterInv /\ GrownInv /\ SettledInv

UpInv == phase = "up" => WorkerInv /\ QueueInv /\ DispatchInv /\ ConsumerInv
IInv == TypeOK /\ PhaseInv /\ UpInv /\ LaneInv

-----------------------------------------------------------------------------
\* A finite set of integers in ascending order: the rank of an element is the
\* number of those that are not above it.
LEMMA Ranked ==
  ASSUME NEW S \in SUBSET Int, IsFiniteSet(S)
  PROVE  \E q \in [1 .. Cardinality(S) -> S] :
           /\ \A i, j \in 1 .. Cardinality(S) : i < j => q[i] < q[j]
           /\ \A x \in S : \E i \in 1 .. Cardinality(S) : q[i] = x
<1> DEFINE n == Cardinality(S)
           Upto(x) == {y \in S : y <= x}
           rank == [x \in S |-> Cardinality(Upto(x))]
<1>0. n \in Nat
  BY FS_CardinalityType
<1>1. \A x \in S : IsFiniteSet(Upto(x)) /\ rank[x] \in 1 .. n
  <2> SUFFICES ASSUME NEW x \in S
               PROVE  IsFiniteSet(Upto(x)) /\ Cardinality(Upto(x)) \in 1 .. n
    OBVIOUS
  <2>1. Upto(x) \in SUBSET S /\ x \in Upto(x)
    OBVIOUS
  <2>2. IsFiniteSet(Upto(x)) /\ Cardinality(Upto(x)) <= n
    BY <2>1, FS_Subset
  <2>3. Cardinality(Upto(x)) \in Nat /\ Cardinality(Upto(x)) # 0
    BY <2>1, <2>2, FS_CardinalityType, FS_EmptySet
  <2>4. n \in Nat
    BY FS_CardinalityType
  <2> HIDE DEF Upto, n
  <2> QED BY <2>2, <2>3, <2>4
<1>2. \A x, y \in S : x < y => rank[x] < rank[y]
  <2> SUFFICES ASSUME NEW x \in S, NEW y \in S, x < y
               PROVE  Cardinality(Upto(x)) < Cardinality(Upto(y))
    OBVIOUS
  <2>1. Upto(x) \in SUBSET Upto(y) /\ Upto(x) # Upto(y)
    <3>1. x \in Int /\ y \in Int /\ S \subseteq Int
      OBVIOUS
    <3>2. \A z \in S : z <= x => z <= y
      BY <3>1
    <3>3. y \in Upto(y) /\ y \notin Upto(x)
      BY <3>1
    <3> QED BY <3>2, <3>3
  <2>2. Cardinality(Upto(x)) <= Cardinality(Upto(y)) /\ Cardinality(Upto(x)) # Cardinality(Upto(y))
    BY <1>1, <2>1, FS_Subset
  <2>3. Cardinality(Upto(x)) \in Int /\ Cardinality(Upto(y)) \in Int
    BY <1>1
  <2> HIDE DEF Upto
  <2> QED BY <2>2, <2>3
<1>3. rank \in Injection(S, 1 .. n)
  <2>1. rank \in [S -> 1 .. n]
    BY <1>1
  <2>2. \A x, y \in S : rank[x] = rank[y] => x = y
    <3> SUFFICES ASSUME NEW x \in S, NEW y \in S, rank[x] = rank[y], x # y PROVE FALSE
      OBVIOUS
    <3>1. x \in Int /\ y \in Int /\ rank[x] \in Int
      BY <1>1
    <3> HIDE DEF rank
    <3> QED BY <1>2, <3>1
  <2> HIDE DEF rank
  <2> QED BY <2>1, <2>2 DEF Injection, IsInjective
<1>4. rank \in Surjection(S, 1 .. n)
  <2>1. n \in Nat
    BY FS_CardinalityType
  <2>2. IsFiniteSet(1 .. n) /\ Cardinality(1 .. n) = n
    BY <2>1, FS_Interval
  <2> HIDE DEF rank
  <2> QED BY <1>3, <2>2, FS_Injection
<1>5. \A i \in 1 .. n : \E x \in S : rank[x] = i
  <2> HIDE DEF rank, n
  <2> QED BY <1>4 DEF Surjection
<1> DEFINE q == [i \in 1 .. n |-> CHOOSE x \in S : rank[x] = i]
<1>6. \A i \in 1 .. n : q[i] \in S /\ rank[q[i]] = i
  <2> HIDE DEF rank, n
  <2> QED BY <1>5
<1>7. \A i, j \in 1 .. n : i < j => q[i] < q[j]
  <2> SUFFICES ASSUME NEW i \in 1 .. n, NEW j \in 1 .. n, i < j PROVE q[i] < q[j]
    OBVIOUS
  <2>1. q[i] \in S /\ q[j] \in S /\ rank[q[i]] = i /\ rank[q[j]] = j
    BY <1>6
  <2> HIDE DEF q, rank, n
  <2>2. q[j] < q[i] => rank[q[j]] < rank[q[i]]
    BY <1>2, <2>1
  <2>3. i # j /\ ~(j < i)
    BY <1>0
  <2>4. q[i] # q[j]
    BY <2>1, <2>3
  <2>5. q[i] \in Int /\ q[j] \in Int
    BY <2>1
  <2> QED BY <2>1, <2>2, <2>3, <2>4, <2>5
<1>8. \A x \in S : \E i \in 1 .. n : q[i] = x
  <2> SUFFICES ASSUME NEW x \in S PROVE q[rank[x]] = x
    BY <1>1
  <2>1. rank[x] \in 1 .. n
    BY <1>1
  <2> HIDE DEF q, rank, n
  <2>2. q[rank[x]] \in S /\ rank[q[rank[x]]] = rank[x]
    BY <1>6, <2>1
  <2> QED BY <1>3, <2>2 DEF Injection, IsInjective
<1>9. q \in [1 .. n -> S]
  <2> HIDE DEF rank, n
  <2> QED BY <1>6
<1> HIDE DEF q
<1> QED BY <1>7, <1>8, <1>9

\* A finite set of integers has a least and a greatest element.
LEMMA Extremes ==
  ASSUME NEW S \in SUBSET Int, IsFiniteSet(S), S # {}
  PROVE  /\ Min(S) \in S /\ \A x \in S : Min(S) <= x
         /\ Max(S) \in S /\ \A x \in S : Max(S) >= x
<1> DEFINE n == Cardinality(S)
<1>1. PICK q \in [1 .. n -> S] : /\ \A i, j \in 1 .. n : i < j => q[i] < q[j]
                                 /\ \A x \in S : \E i \in 1 .. n : q[i] = x
  BY Ranked
<1>2. n \in Nat /\ n # 0
  BY FS_CardinalityType, FS_EmptySet
<1> HIDE DEF n
<1>3. 1 \in 1 .. n /\ n \in 1 .. n
  BY <1>2
<1>4. \A x \in S : q[1] <= x /\ x <= q[n]
  <2> SUFFICES ASSUME NEW i \in 1 .. n PROVE q[1] <= q[i] /\ q[i] <= q[n]
    BY <1>1
  <2>1. q[1] \in Int /\ q[i] \in Int /\ q[n] \in Int
    BY <1>1, <1>3
  <2>2. (1 < i => q[1] < q[i]) /\ (i < n => q[i] < q[n])
    BY <1>1, <1>3
  <2>3. (i = 1 \/ 1 < i) /\ (i = n \/ i < n)
    BY <1>2
  <2> QED BY <2>1, <2>2, <2>3
<1>5. q[1] \in S /\ q[n] \in S
  BY <1>1, <1>3
<1>6. \E x \in S : \A y \in S : x =< y
  BY <1>4, <1>5
<1>7. \E x \in S : \A y \in S : x >= y
  BY <1>4, <1>5
<1> QED BY <1>6, <1>7 DEF Min, Max

LEMMA AscendingSequence ==
  ASSUME NEW S \in SUBSET Int, IsFiniteSet(S)
  PROVE  /\ Ascending(S) \in Seq(S) /\ ToSet(Ascending(S)) = S
         /\ \A i, j \in DOMAIN Ascending(S) : i < j => Ascending(S)[i] < Ascending(S)[j]
         /\ \A i, j \in DOMAIN Ascending(S) : Ascending(S)[i] = Ascending(S)[j] => i = j
<1> DEFINE n == Cardinality(S)
           OK(q) == \A i, j \in DOMAIN q : i < j => q[i] < q[j]
           q == Ascending(S)
<1>0. n \in Nat
  BY FS_CardinalityType
<1>1. PICK r \in [1 .. n -> S] : /\ \A i, j \in 1 .. n : i < j => r[i] < r[j]
                                 /\ \A x \in S : \E i \in 1 .. n : r[i] = x
  BY Ranked
<1>2. OK(r)
  BY <1>1
<1>3. q \in [1 .. n -> S] /\ OK(q)
  BY <1>1, <1>2 DEF Ascending
<1> HIDE DEF q
<1>4. q \in Seq(S)
  BY <1>0, <1>3
<1>5. \A i, j \in 1 .. n : q[i] = q[j] => i = j
  <2> SUFFICES ASSUME NEW i \in 1 .. n, NEW j \in 1 .. n, q[i] = q[j], i # j PROVE FALSE
    OBVIOUS
  <2>1. i < j \/ j < i
    BY <1>0
  <2>2. q[i] < q[j] \/ q[j] < q[i]
    BY <1>3, <2>1
  <2>3. q[i] \in Int
    BY <1>3
  <2> QED BY <2>2, <2>3
<1>6. q \in Injection(1 .. n, S)
  BY <1>3, <1>5 DEF Injection, IsInjective
<1>7. q \in Surjection(1 .. n, S)
  <2>1. Cardinality(1 .. n) = Cardinality(S)
    BY <1>0, FS_Interval
  <2> QED BY <1>6, <2>1, FS_Injection
<1>8. ToSet(q) = S
  BY <1>3, <1>7 DEF ToSet, Surjection
<1> QED BY <1>3, <1>4, <1>5, <1>8 DEF q

-----------------------------------------------------------------------------
\* The blocks of a file are those before the first that is cut off.
ItemType == BlockType \cup {Torn}
BlocksOf(l) ==
  LET first == SelectInSeq(l, LAMBDA b : b = Torn)
  IN  IF first = 0 THEN l ELSE SubSeq(l, 1, first - 1)
IsValid(l, B) ==
  /\ B \in Seq(BlockType) /\ Len(B) <= Len(l)
  /\ \A i \in 1 .. Len(B) : B[i] = l[i]
  /\ Len(B) < Len(l) => l[Len(B) + 1] = Torn

LEMMA ValidBlocks ==
  ASSUME NEW l \in Seq(ItemType)
  PROVE  IsValid(l, BlocksOf(l))
<1> DEFINE I == {i \in 1 .. Len(l) : l[i] = Torn}
           first == SelectInSeq(l, LAMBDA b : b = Torn)
<1>1. Len(l) \in Nat /\ \A i \in 1 .. Len(l) : l[i] \in ItemType
  BY ElementOfSeq
<1>2. first = IF I # {} THEN Min(I) ELSE 0
  BY DEF SelectInSeq
<1>3. BlocksOf(l) = IF first = 0 THEN l ELSE SubSeq(l, 1, first - 1)
  BY DEF BlocksOf
<1> HIDE DEF first
<1>4. CASE I = {}
  <2>1. BlocksOf(l) = l
    BY <1>2, <1>3, <1>4
  <2>2. \A i \in 1 .. Len(l) : l[i] \in BlockType
    BY <1>1, <1>4 DEF ItemType
  <2>3. l \in Seq(BlockType)
    BY <1>1, <2>2
  <2> QED BY <1>1, <2>1, <2>3 DEF IsValid
<1>5. CASE I # {}
  <2>1. I \in SUBSET Int /\ IsFiniteSet(I)
    <3>1. I \in SUBSET (1 .. Len(l)) /\ IsFiniteSet(1 .. Len(l))
      BY <1>1, FS_Interval
    <3>2. 1 .. Len(l) \subseteq Int
      BY <1>1
    <3> HIDE DEF I
    <3> QED BY <3>1, <3>2, FS_Subset
  <2>2. Min(I) \in I /\ \A i \in I : Min(I) <= i
    BY <1>5, <2>1, Extremes
  <2>3. first = Min(I)
    BY <1>2, <1>5
  <2>4. first \in 1 .. Len(l) /\ l[first] = Torn
    BY <2>2, <2>3
  <2>5. \A i \in 1 .. first - 1 : i \in 1 .. Len(l) /\ l[i] # Torn
    <3> SUFFICES ASSUME NEW i \in 1 .. first - 1 PROVE i \in 1 .. Len(l) /\ l[i] # Torn
      OBVIOUS
    <3>1. i \in 1 .. Len(l) /\ i < first
      BY <1>1, <2>4
    <3>2. i \in I => first <= i
      BY <2>2, <2>3
    <3> QED BY <2>4, <3>1, <3>2
  <2>6. BlocksOf(l) = SubSeq(l, 1, first - 1)
    BY <1>3, <2>4
  <2>7. \A i \in 1 .. first - 1 : l[i] \in BlockType
    BY <1>1, <2>5 DEF ItemType
  <2> DEFINE B == SubSeq(l, 1, first - 1)
  <2>8. /\ B \in Seq(BlockType) /\ Len(B) = first - 1
        /\ \A i \in 1 .. first - 1 : B[i] = l[i]
    <3>1. 1 \in Int /\ first - 1 \in Int
      BY <2>4
    <3>2. /\ B \in Seq(BlockType) /\ Len(B) = IF 1 <= first - 1 THEN first - 1 - 1 + 1 ELSE 0
          /\ \A i \in 1 .. first - 1 - 1 + 1 : B[i] = l[1 + i - 1]
      BY <2>7, <3>1, SubSeqProperties
    <3> HIDE DEF B
    <3> QED BY <2>4, <3>2
  <2> HIDE DEF B, I
  <2> QED BY <1>1, <2>4, <2>6, <2>8 DEF IsValid, B
<1> QED BY <1>4, <1>5

LEMMA ValidUnique ==
  ASSUME NEW l \in Seq(ItemType), NEW B, IsValid(l, B)
  PROVE  BlocksOf(l) = B
<1> DEFINE C == BlocksOf(l)
<1>1. IsValid(l, C)
  BY ValidBlocks
<1> HIDE DEF C
<1>2. Len(B) \in Nat /\ Len(C) \in Nat /\ B \in Seq(BlockType) /\ C \in Seq(BlockType)
  BY <1>1 DEF IsValid
<1>3. ASSUME NEW D, NEW E, IsValid(l, D), IsValid(l, E) PROVE ~(Len(D) < Len(E))
  <2> SUFFICES ASSUME Len(D) < Len(E) PROVE FALSE
    OBVIOUS
  <2>1. Len(D) \in Nat /\ Len(E) \in Nat /\ Len(l) \in Nat /\ Len(E) <= Len(l)
    BY <1>3 DEF IsValid
  <2>2. l[Len(D) + 1] = Torn
    BY <1>3, <2>1 DEF IsValid
  <2>3. Len(D) + 1 \in 1 .. Len(E)
    BY <2>1
  <2>4. l[Len(D) + 1] = E[Len(D) + 1] /\ E[Len(D) + 1] \in BlockType
    BY <1>3, <2>3, ElementOfSeq DEF IsValid
  <2> QED BY <2>2, <2>4, SelfPlayAssumption
<1>4. Len(B) = Len(C)
  BY <1>1, <1>2, <1>3
<1>5. \A i \in 1 .. Len(B) : B[i] = C[i]
  BY <1>1, <1>4 DEF IsValid
<1> QED BY <1>2, <1>4, <1>5, SeqEqual DEF C

LEMMA BlocksAre == Blocks = BlocksOf(lane) /\ Blocks' = BlocksOf(lane')
BY DEF Blocks, FirstTorn, BlocksOf, SelectInSeq

\* Appending what is cut off, and cutting the file.
LEMMA BlocksOfTorn ==
  ASSUME NEW l \in Seq(ItemType)
  PROVE  Append(l, Torn) \in Seq(ItemType) /\ BlocksOf(Append(l, Torn)) = BlocksOf(l)
<1>1. /\ Append(l, Torn) \in Seq(ItemType) /\ Len(Append(l, Torn)) = Len(l) + 1
      /\ \A i \in 1 .. Len(l) : Append(l, Torn)[i] = l[i]
      /\ Append(l, Torn)[Len(l) + 1] = Torn /\ Len(l) \in Nat
  BY AppendProperties DEF ItemType
<1>2. IsValid(l, BlocksOf(l))
  BY ValidBlocks
<1>3. IsValid(Append(l, Torn), BlocksOf(l))
  <2> DEFINE B == BlocksOf(l)
  <2> HIDE DEF B
  <2>1. B \in Seq(BlockType) /\ Len(B) \in Nat /\ Len(B) <= Len(l)
    BY <1>2 DEF IsValid, B
  <2>2. \A i \in 1 .. Len(B) : B[i] = l[i] /\ i \in 1 .. Len(l)
    BY <1>1, <1>2, <2>1 DEF IsValid, B
  <2>3. Append(l, Torn)[Len(B) + 1] = Torn
    <3>1. CASE Len(B) = Len(l)
      BY <1>1, <3>1
    <3>2. CASE Len(B) < Len(l)
      <4>1. Len(B) + 1 \in 1 .. Len(l) /\ l[Len(B) + 1] = Torn
        BY <1>1, <1>2, <2>1, <3>2 DEF IsValid, B
      <4> QED BY <1>1, <4>1
    <3> QED BY <1>1, <2>1, <3>1, <3>2
  <2> QED BY <1>1, <2>1, <2>2, <2>3 DEF IsValid, B
<1> QED BY <1>1, <1>3, ValidUnique

LEMMA BlocksOfBlocks ==
  ASSUME NEW l \in Seq(BlockType)
  PROVE  l \in Seq(ItemType) /\ BlocksOf(l) = l
<1>1. l \in Seq(ItemType)
  BY SeqMonotonic DEF ItemType
<1>2. IsValid(l, l)
  BY DEF IsValid
<1> QED BY <1>1, <1>2, ValidUnique

LEMMA CutSeq ==
  ASSUME NEW S, NEW s \in Seq(S), NEW k \in 0 .. Len(s)
  PROVE  /\ SubSeq(s, 1, k) \in Seq(S) /\ Len(SubSeq(s, 1, k)) = k
         /\ \A i \in 1 .. k : SubSeq(s, 1, k)[i] = s[i]
<1>1. Len(s) \in Nat /\ 1 \in Int /\ k \in Int /\ k <= Len(s)
  OBVIOUS
<1>2. \A i \in 1 .. k : i \in 1 .. Len(s)
  BY <1>1
<1>3. \A i \in 1 .. k : s[i] \in S
  BY <1>2, ElementOfSeq
<1>4. /\ SubSeq(s, 1, k) \in Seq(S)
      /\ Len(SubSeq(s, 1, k)) = IF 1 <= k THEN k - 1 + 1 ELSE 0
      /\ \A i \in 1 .. k - 1 + 1 : SubSeq(s, 1, k)[i] = s[1 + i - 1]
  BY <1>1, <1>3, SubSeqProperties
<1> QED BY <1>1, <1>4

LEMMA BlocksOfCut ==
  ASSUME NEW l \in Seq(ItemType), NEW k \in 0 .. Len(l)
  PROVE  /\ SubSeq(l, 1, k) \in Seq(ItemType)
         /\ BlocksOf(SubSeq(l, 1, k)) =
              IF k <= Len(BlocksOf(l)) THEN SubSeq(BlocksOf(l), 1, k) ELSE BlocksOf(l)
<1> DEFINE B == BlocksOf(l)
           s == SubSeq(l, 1, k)
<1>1. s \in Seq(ItemType) /\ Len(s) = k /\ \A i \in 1 .. k : s[i] = l[i]
  BY CutSeq
<1>2. IsValid(l, B)
  BY ValidBlocks
<1>3. Len(B) \in Nat /\ Len(l) \in Nat /\ B \in Seq(BlockType) /\ Len(B) <= Len(l)
  BY <1>2 DEF IsValid
<1> HIDE DEF B, s
<1>4. CASE k <= Len(B)
  <2>1. k \in 0 .. Len(B)
    BY <1>3, <1>4
  <2>2. /\ SubSeq(B, 1, k) \in Seq(BlockType) /\ Len(SubSeq(B, 1, k)) = k
        /\ \A i \in 1 .. k : SubSeq(B, 1, k)[i] = B[i]
    BY <1>3, <2>1, CutSeq
  <2>3. \A i \in 1 .. k : B[i] = l[i]
    BY <1>2, <2>1 DEF IsValid
  <2>4. IsValid(s, SubSeq(B, 1, k))
    BY <1>1, <2>2, <2>3 DEF IsValid
  <2> QED BY <1>1, <1>4, <2>4, ValidUnique DEF B, s
<1>5. CASE ~(k <= Len(B))
  <2>1. Len(B) < k /\ Len(B) + 1 \in 1 .. k
    BY <1>3, <1>5
  <2>2. l[Len(B) + 1] = Torn
    BY <1>2, <1>3, <2>1 DEF IsValid
  <2>3. \A i \in 1 .. Len(B) : B[i] = l[i] /\ i \in 1 .. k
    BY <1>2, <1>3, <2>1 DEF IsValid
  <2>4. IsValid(s, B)
    BY <1>1, <1>3, <2>1, <2>2, <2>3 DEF IsValid
  <2> QED BY <1>1, <1>5, <2>4, ValidUnique DEF B, s
<1> QED BY <1>4, <1>5

-----------------------------------------------------------------------------
\* What a sequence of blocks holds.
LEMMA BlockFields ==
  ASSUME NEW b \in BlockType
  PROVE  /\ b.game \in Games /\ b.start \in Nat /\ b.fens \in Seq(Fens)
         /\ Len(b.fens) \in Nat /\ ToSet(b.fens) \subseteq Fens /\ End(b) \in Nat
<1>1. b.game \in Games /\ b.start \in Nat /\ b.fens \in Seq(Fens)
  BY DEF BlockType
<1>2. Len(b.fens) \in Nat /\ \A i \in DOMAIN b.fens : b.fens[i] \in Fens
  BY <1>1, LenProperties, ElementOfSeq
<1> QED BY <1>1, <1>2 DEF ToSet, End

LEMMA GamesFinite ==
  /\ NGames \in Nat /\ NGames # 0 /\ Games \subseteq Nat /\ IsFiniteSet(Games)
  /\ Games \in SUBSET Int
BY SelfPlayAssumption, FS_Interval DEF Games

LEMMA LaneSets ==
  ASSUME NEW B \in Seq(BlockType)
  PROVE  /\ Len(B) \in Nat /\ \A i \in 1 .. Len(B) : B[i] \in BlockType
         /\ B = <<>> <=> Len(B) = 0
         /\ Ids(B) = {B[i].game : i \in 1 .. Len(B)}
         /\ Ids(B) \subseteq Games /\ IsFiniteSet(Ids(B))
         /\ FensOf(B) = Seen(B, Len(B) + 1) /\ FensOf(B) \subseteq Fens
         /\ \A i \in 1 .. Len(B) + 1 : Seen(B, i) \subseteq Fens /\ Seen(B, i) \subseteq FensOf(B)
         /\ Count(B) \in Nat
         /\ Count(B) = IF Len(B) = 0 THEN 0 ELSE End(B[Len(B)])
<1>1. Len(B) \in Nat /\ DOMAIN B = 1 .. Len(B) /\ \A i \in 1 .. Len(B) : B[i] \in BlockType
  BY ElementOfSeq, LenProperties
<1>2. B = <<>> <=> Len(B) = 0
  BY EmptySeq
<1>3. ToSet(B) = {B[i] : i \in 1 .. Len(B)}
  BY <1>1 DEF ToSet
<1>4. Ids(B) = {B[i].game : i \in 1 .. Len(B)}
  BY <1>3 DEF Ids
<1>5. \A i \in 1 .. Len(B) : /\ B[i].game \in Games /\ ToSet(B[i].fens) \subseteq Fens
                             /\ End(B[i]) \in Nat
  BY <1>1, BlockFields
<1>6. Ids(B) \subseteq Games
  BY <1>4, <1>5
<1>7. IsFiniteSet(Ids(B))
  BY <1>6, GamesFinite, FS_Subset
<1>8. FensOf(B) = UNION {ToSet(B[i].fens) : i \in 1 .. Len(B)}
  BY <1>3 DEF FensOf
<1>9. FensOf(B) = Seen(B, Len(B) + 1)
  <2>1. Len(B) + 1 - 1 = Len(B)
    BY <1>1
  <2> QED BY <1>8, <2>1 DEF Seen
<1>10. \A i \in 1 .. Len(B) + 1 : Seen(B, i) \subseteq FensOf(B)
  <2> SUFFICES ASSUME NEW i \in 1 .. Len(B) + 1, NEW j \in 1 .. i - 1
               PROVE  ToSet(B[j].fens) \subseteq FensOf(B)
    BY DEF Seen
  <2>1. j \in 1 .. Len(B)
    BY <1>1
  <2> QED BY <1>8, <2>1
<1>11. FensOf(B) \subseteq Fens
  BY <1>5, <1>8
<1>12. Count(B) = IF Len(B) = 0 THEN 0 ELSE End(B[Len(B)])
  BY <1>2 DEF Count, Last, End
<1>13. Count(B) \in Nat
  <2>1. CASE Len(B) = 0
    BY <1>12, <2>1
  <2>2. CASE Len(B) # 0
    <3>1. Len(B) \in 1 .. Len(B)
      BY <1>1, <2>2
    <3> QED BY <1>5, <1>12, <2>2, <3>1
  <2> QED BY <2>1, <2>2
<1> QED BY <1>1, <1>2, <1>4, <1>6, <1>7, <1>9, <1>10, <1>11, <1>12, <1>13

LEMMA AppendedLane ==
  ASSUME NEW B \in Seq(BlockType), NEW b \in BlockType
  PROVE  /\ Append(B, b) \in Seq(BlockType) /\ Len(Append(B, b)) = Len(B) + 1
         /\ \A i \in 1 .. Len(B) : Append(B, b)[i] = B[i]
         /\ Append(B, b)[Len(B) + 1] = b
         /\ Ids(Append(B, b)) = Ids(B) \cup {b.game}
         /\ FensOf(Append(B, b)) = FensOf(B) \cup ToSet(b.fens)
         /\ Count(Append(B, b)) = End(b)
         /\ \A i \in 1 .. Len(B) + 1 : Seen(Append(B, b), i) = Seen(B, i)
<1> DEFINE C == Append(B, b)
<1>1. /\ C \in Seq(BlockType) /\ Len(C) = Len(B) + 1
      /\ \A i \in 1 .. Len(B) : C[i] = B[i]
      /\ C[Len(B) + 1] = b /\ Len(B) \in Nat
  BY AppendProperties
<1> HIDE DEF C
<1>2. \A i \in 1 .. Len(C) : i \in 1 .. Len(B) \/ i = Len(B) + 1
  BY <1>1
<1>3. \A i \in 1 .. Len(B) + 1 : i \in 1 .. Len(C)
  BY <1>1
<1>4. Len(B) + 1 \in 1 .. Len(C) /\ \A i \in 1 .. Len(B) : i \in 1 .. Len(C)
  BY <1>1
<1>5. Ids(C) = {C[i].game : i \in 1 .. Len(C)} /\ Ids(B) = {B[i].game : i \in 1 .. Len(B)}
  BY <1>1, LaneSets
<1>6. Ids(C) = Ids(B) \cup {b.game}
  BY <1>1, <1>2, <1>4, <1>5
<1>7. FensOf(C) = FensOf(B) \cup ToSet(b.fens)
  <2>1. /\ FensOf(C) = UNION {ToSet(C[i].fens) : i \in 1 .. Len(C)}
        /\ FensOf(B) = UNION {ToSet(B[i].fens) : i \in 1 .. Len(B)}
    <3>1. Len(C) + 1 - 1 = Len(C) /\ Len(B) + 1 - 1 = Len(B)
      BY <1>1
    <3> QED BY <1>1, <3>1, LaneSets DEF Seen
  <2> QED BY <1>1, <1>2, <1>4, <2>1
<1>8. Count(C) = End(b)
  BY <1>1, LaneSets
<1>9. \A i \in 1 .. Len(B) + 1 : Seen(C, i) = Seen(B, i)
  <2> SUFFICES ASSUME NEW i \in 1 .. Len(B) + 1 PROVE Seen(C, i) = Seen(B, i)
    OBVIOUS
  <2>1. \A j \in 1 .. i - 1 : C[j] = B[j]
    BY <1>1
  <2> QED BY <2>1 DEF Seen
<1> QED BY <1>1, <1>6, <1>7, <1>8, <1>9 DEF C

LEMMA CutSets ==
  ASSUME NEW B \in Seq(BlockType), NEW k \in 0 .. Len(B)
  PROVE  /\ SubSeq(B, 1, k) \in Seq(BlockType) /\ Len(SubSeq(B, 1, k)) = k
         /\ \A i \in 1 .. k : i \in 1 .. Len(B) /\ SubSeq(B, 1, k)[i] = B[i]
         /\ \A i \in 1 .. k + 1 : Seen(SubSeq(B, 1, k), i) = Seen(B, i)
         /\ FensOf(SubSeq(B, 1, k)) = Seen(B, k + 1)
         /\ Ids(SubSeq(B, 1, k)) = {B[i].game : i \in 1 .. k}
         /\ Count(SubSeq(B, 1, k)) = IF k = 0 THEN 0 ELSE End(B[k])
<1> DEFINE C == SubSeq(B, 1, k)
<1>1. /\ C \in Seq(BlockType) /\ Len(C) = k
      /\ \A i \in 1 .. k : C[i] = B[i]
  BY CutSeq
<1>2. k \in Nat /\ \A i \in 1 .. k : i \in 1 .. Len(B)
  OBVIOUS
<1> HIDE DEF C
<1>3. \A i \in 1 .. k + 1 : Seen(C, i) = Seen(B, i)
  <2> SUFFICES ASSUME NEW i \in 1 .. k + 1 PROVE Seen(C, i) = Seen(B, i)
    OBVIOUS
  <2>1. \A j \in 1 .. i - 1 : C[j] = B[j]
    BY <1>1, <1>2
  <2> QED BY <2>1 DEF Seen
<1>4. FensOf(C) = Seen(B, k + 1)
  <2>1. k + 1 \in 1 .. k + 1
    BY <1>2
  <2> QED BY <1>1, <1>3, <2>1, LaneSets
<1>5. Ids(C) = {B[i].game : i \in 1 .. k}
  BY <1>1, LaneSets
<1>6. Count(C) = IF k = 0 THEN 0 ELSE End(B[k])
  <2>1. k # 0 => k \in 1 .. k
    BY <1>2
  <2> QED BY <1>1, <2>1, LaneSets
<1> QED BY <1>1, <1>2, <1>3, <1>4, <1>5, <1>6 DEF C

LEMMA SurvivorsAre ==
  ASSUME NEW g \in 0 .. NGames, NEW seen \in SUBSET Fens
  PROVE  /\ Survivors(g, seen) \in Seq(Fens) /\ Len(Survivors(g, seen)) \in Nat
         /\ Survivors(g, seen) = <<>> <=> Len(Survivors(g, seen)) = 0
         /\ ToSet(Survivors(g, seen)) \subseteq Fens
         /\ Survivors(g, seen) = <<>> =>
              \A more \in SUBSET Fens : seen \subseteq more => Survivors(g, more) = <<>>
<1>1. Survivors(g, seen) \in Seq(Fens)
  BY SelfPlayAssumption
<1>2. \A i \in DOMAIN Survivors(g, seen) : Survivors(g, seen)[i] \in Fens
  BY <1>1, LenProperties, ElementOfSeq
<1>3. ASSUME Survivors(g, seen) = <<>>, NEW more \in SUBSET Fens, seen \subseteq more
      PROVE  Survivors(g, more) = <<>>
  <2>1. Survivors(g, seen \cup more) = <<>>
    BY <1>3, SelfPlayAssumption
  <2>2. seen \cup more = more
    BY <1>3
  <2> QED BY <2>1, <2>2
<1> QED BY <1>1, <1>2, <1>3, EmptySeq, LenProperties DEF ToSet

\* Contiguous and Grown of a lane with one block more, and of its beginning.
LEMMA ContiguousAppend ==
  ASSUME NEW B \in Seq(BlockType), NEW b \in BlockType,
         Contiguous(B), b.start = Count(B)
  PROVE  Contiguous(Append(B, b))
<1> DEFINE C == Append(B, b)
           n == Len(B)
<1>1. /\ n \in Nat /\ Len(C) = n + 1 /\ C[n + 1] = b
      /\ \A i \in 1 .. n : C[i] = B[i]
  BY AppendedLane, LaneSets
<1>2. b.start = IF n = 0 THEN 0 ELSE End(B[n])
  BY LaneSets
<1>3. \A i \in 1 .. n : End(B[i]) \in Nat /\ B[i].start \in Nat
  BY LaneSets, BlockFields
<1>4. B = <<>> <=> n = 0
  BY LaneSets
<1> HIDE DEF C, n
<1>5. C[1].start = 0
  <2>1. CASE n = 0
    BY <1>1, <1>2, <2>1
  <2>2. CASE n # 0
    <3>1. 1 \in 1 .. n
      BY <1>1, <2>2
    <3> QED BY <1>1, <1>4, <2>2, <3>1 DEF Contiguous
  <2> QED BY <2>1, <2>2
<1>6. \A i \in 2 .. Len(C) : C[i].start = End(C[i - 1])
  <2> SUFFICES ASSUME NEW i \in 2 .. n + 1 PROVE C[i].start = End(C[i - 1])
    BY <1>1
  <2>1. i - 1 \in 1 .. n
    BY <1>1
  <2>2. CASE i = n + 1
    <3>1. i - 1 = n /\ n # 0
      BY <1>1, <2>2
    <3> QED BY <1>1, <1>2, <2>1, <2>2, <3>1
  <2>3. CASE i # n + 1
    <3>1. i \in 2 .. n /\ i \in 1 .. n
      BY <1>1, <2>3
    <3>2. B[i].start = End(B[i - 1])
      BY <3>1 DEF Contiguous, n
    <3> QED BY <1>1, <2>1, <3>1, <3>2
  <2> QED BY <2>2, <2>3
<1>7. \A i, j \in 1 .. Len(C) : i < j => End(C[i]) <= C[j].start
  <2> SUFFICES ASSUME NEW i \in 1 .. n + 1, NEW j \in 1 .. n + 1, i < j
               PROVE  End(C[i]) <= C[j].start
    BY <1>1
  <2>1. i \in 1 .. n /\ C[i] = B[i]
    BY <1>1
  <2>2. CASE j = n + 1
    <3>1. C[j].start = End(B[n])
      BY <1>1, <1>2, <2>1, <2>2
    <3>2. CASE i = n
      BY <1>3, <2>1, <3>1, <3>2
    <3>3. CASE i # n
      <4>1. i < n /\ n \in 1 .. n
        BY <1>1, <2>1, <3>3
      <4>2. End(B[i]) <= B[n].start
        BY <2>1, <4>1 DEF Contiguous, n
      <4>3. B[n].start <= End(B[n])
        <5>1. B[n] \in BlockType
          BY <4>1, LaneSets DEF n
        <5>2. B[n].start \in Nat /\ Len(B[n].fens) \in Nat
          BY <5>1, BlockFields
        <5> QED BY <5>2 DEF End
      <4>4. End(B[i]) \in Nat /\ B[n].start \in Nat /\ End(B[n]) \in Nat
        BY <1>3, <2>1, <4>1
      <4> QED BY <2>1, <3>1, <4>2, <4>3, <4>4
    <3> QED BY <3>2, <3>3
  <2>3. CASE j # n + 1
    <3>1. j \in 1 .. n /\ C[j] = B[j]
      BY <1>1, <2>3
    <3> QED BY <2>1, <3>1 DEF Contiguous, n
  <2> QED BY <2>2, <2>3
<1> QED BY <1>5, <1>6, <1>7 DEF Contiguous, C

LEMMA ContiguousCut ==
  ASSUME NEW B \in Seq(BlockType), Contiguous(B), NEW k \in 0 .. Len(B)
  PROVE  Contiguous(SubSeq(B, 1, k))
<1> DEFINE C == SubSeq(B, 1, k)
<1>1. /\ Len(C) = k /\ C \in Seq(BlockType)
      /\ \A i \in 1 .. k : i \in 1 .. Len(B) /\ C[i] = B[i]
  BY CutSets
<1>2. k \in Nat /\ Len(B) \in Nat /\ k <= Len(B)
  BY LaneSets
<1>3. C # <<>> => k # 0 /\ B # <<>>
  BY <1>1, <1>2, LaneSets
<1> HIDE DEF C
<1>4. C # <<>> => C[1].start = 0
  <2>1. k # 0 => 1 \in 1 .. k
    BY <1>2
  <2> QED BY <1>1, <1>3, <2>1 DEF Contiguous
<1>5. ASSUME NEW i \in 2 .. k PROVE C[i].start = End(C[i - 1])
  <2>1. i \in 2 .. Len(B) /\ i \in 1 .. k /\ i - 1 \in 1 .. k
    BY <1>2
  <2> QED BY <1>1, <2>1 DEF Contiguous
<1>6. \A i, j \in 1 .. k : i < j => End(C[i]) <= C[j].start
  BY <1>1 DEF Contiguous
<1> QED BY <1>1, <1>4, <1>5, <1>6 DEF Contiguous, C

LEMMA GrownAppend ==
  ASSUME NEW B \in Seq(BlockType), NEW b \in BlockType,
         Grown(B), B = <<>> \/ B[Len(B)].fens = All(B, Len(B)),
         \A h \in Ids(B) : h < b.game,
         Len(b.fens) > 0, Prefix(b.fens, Survivors(b.game, FensOf(B))),
         \A g \in Games : g < b.game /\ (\A h \in Ids(B) : h < g) =>
                            Survivors(g, FensOf(B)) = <<>>
  PROVE  Grown(Append(B, b))
<1> DEFINE C == Append(B, b)
           n == Len(B)
<1>1. /\ n \in Nat /\ Len(C) = n + 1 /\ C[n + 1] = b
      /\ \A i \in 1 .. n : C[i] = B[i]
      /\ \A i \in 1 .. n + 1 : Seen(C, i) = Seen(B, i)
  BY AppendedLane, LaneSets
<1>2. /\ FensOf(B) = Seen(B, n + 1)
      /\ Ids(B) = {B[i].game : i \in 1 .. n}
      /\ B = <<>> <=> n = 0
      /\ \A i \in 1 .. n : B[i].game \in Games
  BY LaneSets, BlockFields
<1>3. n + 1 \in 1 .. n + 1 /\ \A i \in 1 .. n : i \in 1 .. n + 1
  BY <1>1
<1> HIDE DEF C, n
<1>4. (\A i \in 1 .. n : All(C, i) = All(B, i)) /\ All(C, n + 1) = Survivors(b.game, FensOf(B))
  BY <1>1, <1>2, <1>3 DEF All
<1>5. \A i \in 1 .. n + 1 : i \in 1 .. n \/ i = n + 1
  BY <1>1
<1>6. \A i \in 1 .. n + 1 : Len(C[i].fens) > 0 /\ Prefix(C[i].fens, All(C, i))
  BY <1>1, <1>4, <1>5 DEF Grown, n
<1>7. \A i \in 1 .. n : C[i].fens = All(C, i)
  <2> SUFFICES ASSUME NEW i \in 1 .. n PROVE B[i].fens = All(B, i)
    BY <1>1, <1>4
  <2>1. CASE i = n
    BY <1>1, <1>2, <2>1 DEF n
  <2>2. CASE i # n
    <3>1. i \in 1 .. n - 1
      BY <1>1, <2>2
    <3> QED BY <3>1 DEF Grown, n
  <2> QED BY <2>1, <2>2
<1>8. ASSUME NEW i \in 1 .. n + 1, NEW j \in 1 .. n + 1, i < j PROVE C[i].game < C[j].game
  <2>1. i \in 1 .. n
    BY <1>1, <1>8
  <2>2. CASE j = n + 1
    BY <1>1, <1>2, <2>1, <2>2
  <2>3. CASE j # n + 1
    <3>1. j \in 1 .. n
      BY <1>5, <2>3
    <3> QED BY <1>1, <1>8, <2>1, <3>1 DEF Grown, n
  <2> QED BY <2>2, <2>3
<1>9. ASSUME NEW i \in 1 .. n + 1, NEW g \in Games,
             g < C[i].game, i > 1 => C[i - 1].game < g
      PROVE  Survivors(g, Seen(C, i)) = <<>>
  <2>1. CASE i \in 1 .. n
    <3>1. i > 1 => i - 1 \in 1 .. n
      BY <1>1, <2>1
    <3>2. i > 1 => B[i - 1].game < g
      BY <1>1, <1>9, <3>1
    <3>3. g < B[i].game
      BY <1>1, <1>9, <2>1
    <3>4. Survivors(g, Seen(B, i)) = <<>>
      BY <2>1, <3>2, <3>3 DEF Grown, n
    <3> QED BY <1>1, <1>3, <2>1, <3>4
  <2>2. CASE i = n + 1
    <3>1. \A h \in Ids(B) : h < g
      <4> SUFFICES ASSUME NEW k \in 1 .. n PROVE B[k].game < g
        BY <1>2
      <4>1. n \in 1 .. n /\ n + 1 > 1 /\ n + 1 - 1 = n
        BY <1>1
      <4>2. C[n].game = B[n].game
        BY <1>1, <4>1
      <4>3. B[n].game < g
        BY <1>9, <2>2, <4>1, <4>2
      <4>4. CASE k = n
        BY <4>3, <4>4
      <4>5. CASE k # n
        <5>1. k < n
          BY <1>1, <4>5
        <5>2. B[k].game < B[n].game
          BY <4>1, <5>1 DEF Grown, n
        <5>3. B[k].game \in Nat /\ B[n].game \in Nat /\ g \in Nat
          BY <1>2, <4>1, GamesFinite
        <5> QED BY <4>3, <5>2, <5>3
      <4> QED BY <4>4, <4>5
    <3>2. g < b.game
      BY <1>1, <1>9, <2>2
    <3> QED BY <1>1, <1>2, <1>3, <2>2, <3>1, <3>2
  <2> QED BY <1>5, <2>1, <2>2
<1>10. n + 1 - 1 = n
  BY <1>1
<1> QED BY <1>1, <1>6, <1>7, <1>8, <1>9, <1>10 DEF Grown, C

LEMMA GrownCut ==
  ASSUME NEW B \in Seq(BlockType), Grown(B), NEW k \in 0 .. Len(B)
  PROVE  /\ Grown(SubSeq(B, 1, k))
         /\ k < Len(B) => \/ SubSeq(B, 1, k) = <<>>
                          \/ /\ Len(SubSeq(B, 1, k)) = k
                             /\ SubSeq(B, 1, k)[k].fens = All(SubSeq(B, 1, k), k)
<1> DEFINE C == SubSeq(B, 1, k)
<1>1. /\ Len(C) = k /\ C \in Seq(BlockType)
      /\ \A i \in 1 .. k : i \in 1 .. Len(B) /\ C[i] = B[i]
      /\ \A i \in 1 .. k + 1 : Seen(C, i) = Seen(B, i)
  BY CutSets
<1>2. k \in Nat /\ Len(B) \in Nat /\ k <= Len(B)
  BY LaneSets
<1>3. \A i \in 1 .. k : i \in 1 .. k + 1 /\ (i > 1 => i - 1 \in 1 .. k)
  BY <1>2
<1>4. C = <<>> <=> k = 0
  BY <1>1, LaneSets
<1> HIDE DEF C
<1>5. \A i \in 1 .. k : All(C, i) = All(B, i)
  BY <1>1, <1>3 DEF All
<1>6. \A i \in 1 .. k : Len(C[i].fens) > 0 /\ Prefix(C[i].fens, All(C, i))
  BY <1>1, <1>5 DEF Grown
<1>7. ASSUME NEW i \in 1 .. k, i < Len(B) PROVE C[i].fens = All(C, i)
  <2>1. i \in 1 .. Len(B) - 1
    BY <1>2, <1>7
  <2> QED BY <1>1, <1>5, <2>1 DEF Grown
<1>8. \A i, j \in 1 .. k : i < j => C[i].game < C[j].game
  BY <1>1 DEF Grown
<1>9. ASSUME NEW i \in 1 .. k, NEW g \in Games,
             g < C[i].game, i > 1 => C[i - 1].game < g
      PROVE  Survivors(g, Seen(C, i)) = <<>>
  <2>1. i > 1 => B[i - 1].game < g
    BY <1>1, <1>3, <1>9
  <2>2. i \in 1 .. Len(B) /\ g < B[i].game
    BY <1>1, <1>9
  <2>3. Survivors(g, Seen(B, i)) = <<>>
    BY <2>1, <2>2 DEF Grown
  <2> QED BY <1>1, <1>3, <2>3
<1>10. \A i \in 1 .. k - 1 : C[i].fens = All(C, i)
  <2> SUFFICES ASSUME NEW i \in 1 .. k - 1 PROVE C[i].fens = All(C, i)
    OBVIOUS
  <2>1. i \in 1 .. k /\ i < Len(B)
    BY <1>2
  <2> QED BY <1>7, <2>1
<1>11. Grown(C)
  BY <1>1, <1>6, <1>8, <1>9, <1>10 DEF Grown
<1>12. k < Len(B) => C = <<>> \/ C[k].fens = All(C, k)
  <2>1. k = 0 \/ k \in 1 .. k
    BY <1>2
  <2> QED BY <1>4, <1>7, <2>1
<1> QED BY <1>1, <1>11, <1>12 DEF C

-----------------------------------------------------------------------------
\* An initial part of 1 .. n is as long as it has elements.
LEMMA DownSet ==
  ASSUME NEW n \in Nat, NEW S \in SUBSET (1 .. n),
         \A i, j \in 1 .. n : i < j /\ j \in S => i \in S
  PROVE  Cardinality(S) \in 0 .. n /\ S = 1 .. Cardinality(S)
<1>1. IsFiniteSet(S) /\ S \in SUBSET Int
  <2>1. IsFiniteSet(1 .. n) /\ 1 .. n \subseteq Int
    BY FS_Interval
  <2> QED BY <2>1, FS_Subset
<1>2. CASE S = {}
  <2>1. Cardinality(S) = 0
    BY <1>2, FS_EmptySet
  <2> QED BY <1>2, <2>1
<1>3. CASE S # {}
  <2>1. PICK m \in S : \A x \in S : m >= x
    BY <1>1, <1>3, Extremes
  <2>2. m \in 1 .. n
    OBVIOUS
  <2>3. ASSUME NEW i \in 1 .. n PROVE i \in S <=> i \in 1 .. m
    <3>1. CASE i < m
      BY <2>2, <3>1
    <3>2. CASE i = m
      BY <2>2, <3>2
    <3>3. CASE i > m
      BY <2>1, <2>2, <3>3
    <3> QED BY <2>2, <3>1, <3>2, <3>3
  <2>4. S = 1 .. m
    <3>1. 1 .. m \subseteq 1 .. n
      BY <2>2
    <3> QED BY <2>3, <3>1
  <2>5. Cardinality(1 .. m) = m
    BY <2>2, FS_Interval
  <2> QED BY <2>2, <2>4, <2>5
<1> QED BY <1>2, <1>3

LEMMA MinMaxOfTwo ==
  ASSUME NEW a \in Int, NEW b \in Int
  PROVE  /\ Min({a, b}) = IF a <= b THEN a ELSE b
         /\ Max({a, b}) = IF a <= b THEN b ELSE a
<1>1. IsFiniteSet({a, b}) /\ {a, b} \in SUBSET Int /\ {a, b} # {}
  <2>1. IsFiniteSet({a} \cup {b})
    BY FS_Singleton, FS_AddElement
  <2>2. {a} \cup {b} = {a, b}
    OBVIOUS
  <2> QED BY <2>1, <2>2
<1>2. /\ Min({a, b}) \in {a, b} /\ \A x \in {a, b} : Min({a, b}) <= x
      /\ Max({a, b}) \in {a, b} /\ \A x \in {a, b} : Max({a, b}) >= x
  BY <1>1, Extremes
<1> HIDE DEF Min, Max
<1> QED BY <1>2

\* What the blocks of the lane are in every state.
LEMMA LaneTypes ==
  ASSUME TypeOK
  PROVE  /\ lane \in Seq(ItemType) /\ Blocks \in Seq(BlockType)
         /\ IsValid(lane, Blocks) /\ Blocks = BlocksOf(lane)
         /\ Ids(Blocks) \subseteq Games /\ IsFiniteSet(Ids(Blocks))
         /\ FensOf(Blocks) \subseteq Fens /\ Count(Blocks) \in Nat
<1>1. lane \in Seq(ItemType)
  BY DEF TypeOK, ItemType
<1>2. Blocks = BlocksOf(lane)
  BY BlocksAre
<1>3. IsValid(lane, Blocks)
  BY <1>1, <1>2, ValidBlocks
<1>4. Blocks \in Seq(BlockType)
  BY <1>3 DEF IsValid
<1> QED BY <1>1, <1>2, <1>3, <1>4, LaneSets

\* The numbers that a resume begins with.
LEMMA ResumesAt ==
  ASSUME TypeOK
  PROVE  /\ Cursor \in 0 .. NGames
         /\ checkpoint # None => Cursor = checkpoint
         /\ checkpoint = None => 0 .. Cursor - 1 \subseteq Ids(Blocks) /\ Cursor \notin Ids(Blocks)
         /\ LiveFiles \subseteq Games /\ LiveFiles \cap Ids(Blocks) = {}
         /\ LiveFiles \subseteq pending \ damaged
         /\ Upper \in 0 .. NGames /\ Cursor <= Upper
         /\ \A g \in Ids(Blocks) \cup LiveFiles : g < Upper
<1> DEFINE S == Ids(Blocks)
<1>1. S \subseteq Games /\ IsFiniteSet(S)
  BY LaneTypes
<1> HIDE DEF S
<1>2. NGames \in Nat /\ NGames # 0 /\ Games = 0 .. NGames - 1
  BY GamesFinite DEF Games
<1>3. ASSUME checkpoint = None
      PROVE  Cursor \in 0 .. NGames /\ 0 .. Cursor - 1 \subseteq S /\ Cursor \notin S
  <2> DEFINE D == (0 .. NGames) \ S
             good(n) == n \notin S /\ 0 .. n - 1 \subseteq S
  <2>1. NGames \in D
    BY <1>1, <1>2
  <2>2. D \in SUBSET Int /\ IsFiniteSet(D)
    <3>1. D \in SUBSET (0 .. NGames) /\ IsFiniteSet(0 .. NGames) /\ 0 .. NGames \subseteq Int
      BY <1>2, FS_Interval
    <3> HIDE DEF D
    <3> QED BY <3>1, FS_Subset
  <2>3. PICK m \in D : \A x \in D : m <= x
    <3> HIDE DEF D
    <3> QED BY <2>1, <2>2, Extremes
  <2>4. m \in 0 .. NGames + 1 /\ good(m)
    <3>1. m \in 0 .. NGames /\ m \notin S
      BY <2>3
    <3>2. \A x \in 0 .. m - 1 : x \in 0 .. NGames /\ ~(m <= x)
      BY <1>2, <3>1
    <3> QED BY <1>2, <2>3, <3>1, <3>2
  <2>5. Cursor = CHOOSE n \in 0 .. NGames + 1 : good(n)
    BY <1>3 DEF Cursor, smallest_not_in, S
  <2>6. Cursor \in 0 .. NGames + 1 /\ good(Cursor)
    <3> HIDE DEF good
    <3> QED BY <2>4, <2>5
  <2>7. Cursor # NGames + 1
    <3> SUFFICES ASSUME Cursor = NGames + 1 PROVE FALSE
      OBVIOUS
    <3>1. NGames \in 0 .. Cursor - 1 /\ NGames \notin Games
      BY <1>2
    <3> QED BY <1>1, <2>6, <3>1
  <2> QED BY <1>2, <2>6, <2>7
<1>4. checkpoint # None => Cursor = checkpoint /\ checkpoint \in 0 .. NGames
  BY DEF Cursor, TypeOK
<1>5. Cursor \in 0 .. NGames
  BY <1>3, <1>4
<1>6. LiveFiles \subseteq Games /\ LiveFiles \cap S = {} /\ LiveFiles \subseteq pending \ damaged
  BY DEF LiveFiles, TypeOK, S
<1> DEFINE T == S \cup LiveFiles \cup {Cursor - 1, 0}
<1>7. IsFiniteSet(T) /\ T \in SUBSET (-1 .. NGames - 1) /\ T # {}
  <2>1. T \in SUBSET (-1 .. NGames - 1)
    BY <1>1, <1>2, <1>5, <1>6
  <2>2. IsFiniteSet(-1 .. NGames - 1)
    BY <1>2, FS_Interval
  <2> HIDE DEF T
  <2>3. IsFiniteSet(T)
    BY <2>1, <2>2, FS_Subset
  <2> QED BY <2>1, <2>3 DEF T
<1>8. Max(T) \in T /\ \A x \in T : Max(T) >= x
  <2>1. T \in SUBSET Int
    BY <1>2, <1>7
  <2> HIDE DEF T
  <2> QED BY <1>7, <2>1, Extremes
<1>9. Upper = Max(T) + 1
  BY DEF Upper, S
<1>10. Max(T) \in -1 .. NGames - 1
  BY <1>7, <1>8
<1>11. Cursor - 1 \in T /\ 0 \in T /\ S \cup LiveFiles \subseteq T
  OBVIOUS
<1> HIDE DEF T
<1>12. Max(T) >= 0 /\ Max(T) >= Cursor - 1 /\ \A g \in S \cup LiveFiles : Max(T) >= g
  BY <1>8, <1>11
<1>13. Upper \in 0 .. NGames /\ Cursor <= Upper
  BY <1>2, <1>5, <1>9, <1>10, <1>12
<1>14. ASSUME NEW g \in S \cup LiveFiles PROVE g < Upper
  <2>1. g \in Nat
    BY <1>1, <1>2, <1>6
  <2> QED BY <1>9, <1>10, <1>12, <2>1
<1> QED BY <1>3, <1>4, <1>5, <1>6, <1>13, <1>14 DEF S

LEMMA GapsAre ==
  ASSUME TypeOK
  PROVE  /\ GapList \in Seq(Games)
         /\ ToSet(GapList) = (Cursor .. Upper - 1) \ (Ids(Blocks) \cup LiveFiles)
         /\ \A i, j \in DOMAIN GapList : GapList[i] = GapList[j] => i = j
<1> DEFINE S == (Cursor .. Upper - 1) \ (Ids(Blocks) \cup LiveFiles)
<1>1. NGames \in Nat /\ Games = 0 .. NGames - 1 /\ IsFiniteSet(Games)
  BY GamesFinite DEF Games
<1>2. Cursor \in 0 .. NGames /\ Upper \in 0 .. NGames
  BY ResumesAt
<1>3. S \in SUBSET Games /\ S \in SUBSET Int
  BY <1>1, <1>2
<1>4. GapList = Ascending(S)
  BY DEF GapList
<1> HIDE DEF S
<1>5. IsFiniteSet(S)
  BY <1>1, <1>3, FS_Subset
<1>6. GapList \in Seq(S) /\ ToSet(GapList) = S
      /\ \A i, j \in DOMAIN GapList : GapList[i] = GapList[j] => i = j
  BY <1>3, <1>4, <1>5, AscendingSequence
<1>7. GapList \in Seq(Games)
  <2>1. \A i \in 1 .. Len(GapList) : GapList[i] \in Games
    BY <1>3, <1>6, ElementOfSeq
  <2> QED BY <1>6, <2>1
<1> QED BY <1>6, <1>7 DEF S

\* The blocks that fit under a cap are the first ones.
LEMMA FittingIs ==
  ASSUME TypeOK, Contiguous(Blocks), NEW cap \in Nat
  PROVE  /\ Fitting(cap) \in 0 .. Len(Blocks)
         /\ \A i \in 1 .. Len(Blocks) : i <= Fitting(cap) <=> End(Blocks[i]) <= cap
<1> DEFINE B == Blocks
           n == Len(B)
           S == {i \in 1 .. n : End(B[i]) <= cap}
<1>1. B \in Seq(BlockType)
  BY LaneTypes
<1>2. /\ n \in Nat /\ DOMAIN B = 1 .. n
      /\ \A i \in 1 .. n : B[i].start \in Nat /\ Len(B[i].fens) \in Nat
  BY <1>1, LaneSets, BlockFields
<1>3. Fitting(cap) = Cardinality(S)
  BY <1>2 DEF Fitting, End
<1>4. Contiguous(B)
  OBVIOUS
<1> HIDE DEF B, n
<1>5. ASSUME NEW i \in 1 .. n, NEW j \in 1 .. n, i < j, j \in S PROVE i \in S
  <2>1. End(B[i]) <= B[j].start
    BY <1>4, <1>5 DEF Contiguous, n
  <2>2. B[j].start <= End(B[j]) /\ End(B[i]) \in Nat /\ B[j].start \in Nat /\ End(B[j]) \in Nat
    BY <1>2 DEF End
  <2>3. End(B[j]) <= cap
    BY <1>5
  <2>4. End(B[i]) <= cap
    BY <2>1, <2>2, <2>3
  <2> QED BY <2>4
<1>6. S \in SUBSET (1 .. n)
  OBVIOUS
<1>7. Cardinality(S) \in 0 .. n /\ S = 1 .. Cardinality(S)
  <2> HIDE DEF S
  <2> QED BY <1>2, <1>5, <1>6, DownSet
<1>8. \A i \in 1 .. n : i \in S <=> i <= Cardinality(S)
  <2> HIDE DEF S
  <2> QED BY <1>2, <1>7
<1>9. \A i \in 1 .. n : i \in S <=> End(B[i]) <= cap
  OBVIOUS
<1> HIDE DEF S
<1> QED BY <1>3, <1>7, <1>8, <1>9 DEF B, n

-----------------------------------------------------------------------------
\* The types.
LEMMA InitTypes == Init => TypeOK
<1> SUFFICES ASSUME Init PROVE TypeOK
  OBVIOUS
<1>1. NGames \in Nat /\ NGames # 0 /\ MaxStarts \in Nat /\ MaxFaults \in Nat
  BY SelfPlayAssumption
<1>2. <<>> \in Seq(BlockType \cup {Torn}) /\ <<>> \in Seq(Games)
  OBVIOUS
<1>3. /\ lane \in Seq(BlockType \cup {Torn}) /\ gapQueue \in Seq(Games)
      /\ manifest \in [target : Nat \cup {None}, offset : Nat \cup {None}]
      /\ next \in 0 .. NGames /\ nextDispatch \in 0 .. NGames
      /\ starts \in 0 .. MaxStarts /\ faults \in 0 .. MaxFaults
  BY <1>1, <1>2 DEF Init
<1>4. /\ worker \in [Workers -> {"top", "claimed", "played", "written", "leaving",
                                 "gone", "broken"}]
      /\ game \in [Workers -> Games \cup {None}]
  BY DEF Init
<1> QED BY <1>3, <1>4 DEF Init, TypeOK, Ended

LEMMA AppendsType ==
  ASSUME TypeOK
  PROVE  /\ Append(lane, Torn) \in Seq(ItemType)
         /\ \A b \in BlockType : Append(lane, b) \in Seq(ItemType)
         /\ \A g \in Games : Append(gapQueue, g) \in Seq(Games)
         /\ gapQueue # <<>> => Head(gapQueue) \in Games /\ Tail(gapQueue) \in Seq(Games)
         /\ Blocks \in Seq(ItemType)
         /\ \A k \in 0 .. Len(lane) : SubSeq(lane, 1, k) \in Seq(ItemType)
         /\ \A k \in 0 .. Len(Blocks) : SubSeq(Blocks, 1, k) \in Seq(ItemType)
<1>1. lane \in Seq(ItemType) /\ Blocks \in Seq(BlockType) /\ gapQueue \in Seq(Games)
  BY LaneTypes DEF TypeOK
<1>2. Blocks \in Seq(ItemType)
  <2>1. \A i \in 1 .. Len(Blocks) : Blocks[i] \in ItemType
    BY <1>1, ElementOfSeq DEF ItemType
  <2> QED BY <1>1, <2>1
<1>3. ASSUME NEW k \in 0 .. Len(lane) PROVE SubSeq(lane, 1, k) \in Seq(ItemType)
  BY <1>1, CutSeq
<1>4. ASSUME NEW k \in 0 .. Len(Blocks) PROVE SubSeq(Blocks, 1, k) \in Seq(ItemType)
  BY <1>2, CutSeq
<1>5. gapQueue # <<>> => Head(gapQueue) \in Games /\ Tail(gapQueue) \in Seq(Games)
  BY <1>1, HeadTailProperties
<1>6. \A g \in Games : Append(gapQueue, g) \in Seq(Games)
  BY <1>1, AppendProperties
<1>7. /\ Append(lane, Torn) \in Seq(ItemType)
      /\ \A b \in BlockType : Append(lane, b) \in Seq(ItemType)
  BY <1>1, AppendProperties DEF ItemType
<1> QED BY <1>2, <1>3, <1>4, <1>5, <1>6, <1>7

\* The steps of a command that is not running.
LEMMA CommandTypes ==
  ASSUME TypeOK, Contiguous(Blocks),
         (\E t \in Targets : Start(t)) \/ Boot \/ (\E cap \in Caps : CutLane(cap))
           \/ Truncate \/ Join \/ Kill \/ Interrupt
  PROVE  TypeOK'
<1>a. NGames \in Nat /\ NGames # 0 /\ MaxStarts \in Nat /\ MaxFaults \in Nat
      /\ Targets \cup Caps \subseteq Nat \ {0}
  BY SelfPlayAssumption
<1>b. ItemType = BlockType \cup {Torn}
  BY DEF ItemType
<1>1. ASSUME NEW t \in Targets, Start(t) PROVE TypeOK'
  BY <1>1, <1>a DEF Start, TypeOK, disk, dispatcher, workers, committer, Ended
<1>2. CASE DropBoundary
  <2>1. lane' \in Seq(ItemType)
    <3>1. CASE lane' = lane
      BY <3>1, LaneTypes
    <3>2. CASE lane' = Append(lane, Torn)
      BY <3>2, AppendsType
    <3>3. CASE manifest.offset # None /\ manifest.offset < Len(lane)
               /\ lane' = SubSeq(lane, 1, manifest.offset)
      <4>1. manifest.offset \in Nat
        BY <3>3 DEF TypeOK
      <4>2. Len(lane) \in Nat
        BY LaneTypes, LenProperties
      <4>3. manifest.offset \in 0 .. Len(lane)
        BY <3>3, <4>1, <4>2
      <4> QED BY <3>3, <4>3, AppendsType
    <3> QED BY <1>2, <3>1, <3>2, <3>3 DEF DropBoundary, TruncatedAt
  <2> QED BY <1>2, <1>b, <2>1 DEF DropBoundary, TypeOK, command, dispatcher, workers, committer, history, Ended
<1>3. CASE ForgetCheckpoint
  BY <1>3 DEF ForgetCheckpoint, CheckpointOnExtend, TypeOK, command, dispatcher, workers, committer, history, Ended
<1>4. CASE Resume
  <2>1. lane' \in Seq(ItemType)
    BY <1>4, LaneTypes, AppendsType DEF Resume, TruncatedToValid
  <2>2. next' \in 0 .. NGames /\ nextDispatch' \in 0 .. NGames
    BY <1>4, ResumesAt DEF Resume
  <2>3. pending' \subseteq Games /\ damaged' \subseteq pending'
    BY <1>4, ResumesAt DEF Resume
  <2>4. gapQueue' \in Seq(Games)
    BY <1>4, GapsAre DEF Resume
  <2>5. committedAtResume' \subseteq Games /\ fen_set' \subseteq Fens /\ committed' \in Nat
    BY <1>4, LaneTypes DEF Resume
  <2>6. /\ boundary' = None /\ claimed' = {} /\ phase' = "up" /\ cpc' = "top" /\ stop' = FALSE
        /\ worker' = [w \in Workers |-> "top"] /\ game' = [w \in Workers |-> None]
        /\ UNCHANGED <<checkpoint, manifest, target, rest, starts, faults, blind>>
        /\ unsynced' = {}
    BY <1>4 DEF Resume, command
  <2> QED BY <1>b, <2>1, <2>2, <2>3, <2>4, <2>5, <2>6 DEF TypeOK
<1>5. ASSUME NEW cap \in Caps, CutLane(cap) PROVE TypeOK'
  <2> DEFINE k == Fitting(cap)
             b == Blocks[k + 1]
             r == [b EXCEPT !.fens = SubSeq(@, 1, cap - b.start)]
  <2>1. cap \in Nat /\ target \in Nat
    BY <1>a DEF TypeOK
  <2>2. k \in 0 .. Len(Blocks) /\ \A i \in 1 .. Len(Blocks) : i <= k <=> End(Blocks[i]) <= cap
    BY <2>1, FittingIs
  <2>3. Blocks \in Seq(BlockType) /\ Len(Blocks) \in Nat
    BY LaneTypes, LaneSets
  <2>4. lane' \in Seq(ItemType)
    <3>1. lane' = lane \/ lane' = SubSeq(Blocks, 1, k)
      BY <1>5 DEF CutLane
    <3> HIDE DEF k
    <3> QED BY <2>2, <3>1, LaneTypes, AppendsType
  <2>5. target' \in Targets \cup Caps
    <3>1. target' = Min({target, cap})
      BY <1>5 DEF CutLane
    <3>2. Min({target, cap}) = IF target <= cap THEN target ELSE cap
      BY <2>1, MinMaxOfTwo
    <3>3. target \in Targets \cup Caps
      BY DEF TypeOK
    <3> QED BY <3>1, <3>2, <3>3
  <2>6. rest' = None \/ (k < Len(Blocks) /\ b.start < cap /\ rest' = r)
    BY <1>5 DEF CutLane
  <2>7. ASSUME k < Len(Blocks), b.start < cap PROVE r \in BlockType
    <3>1. k + 1 \in 1 .. Len(Blocks) /\ ~(k + 1 <= k)
      <4> HIDE DEF k
      <4> QED BY <2>2, <2>3, <2>7
    <3>2. b \in BlockType
      BY <2>3, <3>1, LaneSets
    <3>3. ~(End(b) <= cap)
      BY <2>2, <3>1
    <3> HIDE DEF k, b
    <3>4. b.game \in Games /\ b.start \in Nat /\ b.fens \in Seq(Fens) /\ Len(b.fens) \in Nat
      BY <3>2, BlockFields
    <3>5. cap - b.start \in 0 .. Len(b.fens)
      BY <2>1, <2>7, <3>3, <3>4 DEF End
    <3>6. SubSeq(b.fens, 1, cap - b.start) \in Seq(Fens)
      BY <3>4, <3>5, CutSeq
    <3> QED BY <3>2, <3>6 DEF BlockType
  <2>8. rest' \in BlockType \cup {None}
    BY <2>6, <2>7
  <2>9. /\ phase' = "truncating" /\ starts' = starts + 1 /\ starts < MaxStarts
        /\ UNCHANGED <<checkpoint, pending, damaged, manifest, stop, nextDispatch,
                       gapQueue, claimed, worker, game, cpc, next,
                       committedAtResume, fen_set, committed, boundary, faults, unsynced, blind>>
    BY <1>5 DEF CutLane, dispatcher, workers, committer
  <2> QED BY <1>a, <1>b, <2>4, <2>5, <2>8, <2>9 DEF TypeOK
<1>6. CASE AppendPartial
  <2>1. lane' \in Seq(ItemType)
    <3>1. rest = None \/ rest \in BlockType
      BY DEF TypeOK
    <3> QED BY <1>6, <3>1, LaneTypes, AppendsType DEF AppendPartial
  <2> QED BY <1>6, <1>b, <2>1 DEF AppendPartial, TypeOK, dispatcher, workers, committer, history
<1>7. CASE RemoveCheckpoint
  BY <1>7 DEF RemoveCheckpoint, CheckpointOnTruncate, TypeOK, command, dispatcher, workers, committer, history, Ended
<1>8. CASE Return
  BY <1>8, <1>a DEF Return, TypeOK, command, dispatcher, workers, committer, history, Ended
<1>9. CASE Fail
  BY <1>9 DEF Fail, TypeOK, disk, command, dispatcher, workers, committer, history, Ended
<1>10. CASE Kill
  <2>1. lane' \in Seq(ItemType)
    <3>1. lane' = lane \/ lane' = Append(lane, Torn)
      BY <1>10 DEF Kill, Cut
    <3> QED BY <3>1, LaneTypes, AppendsType
  <2>2. blind' \in BOOLEAN
    BY <1>10 DEF Kill, TypeOK
  <2>3. /\ phase' = "down" /\ stop' = FALSE /\ nextDispatch' = 0 /\ gapQueue' = <<>>
        /\ claimed' = {} /\ worker' = [w \in Workers |-> "gone"]
        /\ game' = [w \in Workers |-> None] /\ cpc' = "done" /\ next' = 0
        /\ committedAtResume' = {} /\ fen_set' = {} /\ committed' = 0
        /\ boundary' = None /\ rest' = None
        /\ unsynced' = {}
        /\ UNCHANGED <<checkpoint, pending, damaged, manifest, target, starts, faults>>
    BY <1>10 DEF Kill
  <2>4. gapQueue' \in Seq(Games) /\ next' \in 0 .. NGames /\ nextDispatch' \in 0 .. NGames
    BY <1>a, <2>3
  <2> QED BY <1>b, <2>1, <2>2, <2>3, <2>4 DEF TypeOK, Ended
<1>11. CASE Interrupt
  BY <1>11 DEF Interrupt, TypeOK, disk, command, dispatcher, workers, committer, history
<1> QED BY <1>1, <1>2, <1>3, <1>4, <1>5, <1>6, <1>7, <1>8, <1>9, <1>10, <1>11
        DEF Boot, Truncate, Join

\* What is left of the records of a game when there is room for count more.
LEMMA TruncatedIs ==
  ASSUME NEW s \in Seq(Fens), NEW count \in Nat, target \in Nat
  PROVE  /\ Truncated(s, count) \in Seq(Fens) /\ Prefix(Truncated(s, count), s)
         /\ Len(Truncated(s, count)) \in Nat /\ ToSet(Truncated(s, count)) \subseteq Fens
         /\ Truncated(s, count) = <<>> <=> s = <<>> \/ count >= target
         /\ Truncated(s, count) # <<>> <=> Len(Truncated(s, count)) > 0
         /\ Truncated(s, count) # <<>> => count + Len(Truncated(s, count)) <= target
         /\ Truncated(s, count) = s \/ count + Len(Truncated(s, count)) >= target
<1> DEFINE room == IF count < target THEN target - count ELSE 0
           t == Truncated(s, count)
<1>1. t = IF Len(s) > room THEN SubSeq(s, 1, room) ELSE s
  BY DEF Truncated
<1>2. room \in Nat /\ (count < target => room = target - count /\ room > 0)
      /\ (count >= target => room = 0)
  OBVIOUS
<1>3. Len(s) \in Nat /\ (s = <<>> <=> Len(s) = 0)
  BY EmptySeq, LenProperties
<1> HIDE DEF room, t
<1>4. CASE Len(s) > room
  <2>1. room \in 0 .. Len(s)
    BY <1>2, <1>3, <1>4
  <2>2. t \in Seq(Fens) /\ Len(t) = room /\ \A i \in 1 .. room : t[i] = s[i]
    BY <1>1, <1>4, <2>1, CutSeq
  <2>3. Prefix(t, s)
    BY <1>2, <1>3, <1>4, <2>2 DEF Prefix
  <2>4. t = <<>> <=> room = 0
    BY <2>2, EmptySeq
  <2>5. room = 0 <=> count >= target
    BY <1>2
  <2>6. s # <<>>
    BY <1>2, <1>3, <1>4
  <2>7. count + Len(t) >= target /\ (t # <<>> => count + Len(t) <= target)
    BY <1>2, <2>2, <2>4
  <2>8. /\ t = <<>> <=> s = <<>> \/ count >= target
        /\ t # <<>> <=> Len(t) > 0
    BY <1>2, <2>2, <2>4, <2>5, <2>6
  <2>9. ToSet(t) \subseteq Fens
    BY <2>2, ElementOfSeq, LenProperties DEF ToSet
  <2> QED BY <1>2, <2>2, <2>3, <2>7, <2>8, <2>9 DEF t
<1>5. CASE ~(Len(s) > room)
  <2>1. t = s
    BY <1>1, <1>5
  <2>2. Prefix(t, s)
    BY <1>3, <2>1 DEF Prefix
  <2>3. count >= target => Len(s) = 0
    BY <1>2, <1>3, <1>5
  <2>4. Len(s) > 0 => count + Len(s) <= target
    BY <1>2, <1>3, <1>5
  <2>5. ToSet(t) \subseteq Fens
    BY <2>1, ElementOfSeq, LenProperties DEF ToSet
  <2> QED BY <1>3, <2>1, <2>2, <2>3, <2>4, <2>5 DEF t
<1> QED BY <1>4, <1>5

LEMMA WorkerTypes ==
  ASSUME TypeOK, phase = "up" => WorkerInv, NEW w \in Workers,
         WorkerNext(w) \/ WriteFails(w)
  PROVE  TypeOK'
<1>a. NGames \in Nat /\ MaxFaults \in Nat /\ Games = 0 .. NGames - 1
  BY SelfPlayAssumption DEF Games
<1>b. /\ worker[w] \in {"claimed", "played", "written"} => game[w] \in Games
      /\ \A g \in Games : [game EXCEPT ![w] = g] \in [Workers -> Games \cup {None}]
      /\ [game EXCEPT ![w] = None] \in [Workers -> Games \cup {None}]
      /\ \A p \in {"top", "claimed", "played", "written", "leaving", "gone", "broken"} :
           [worker EXCEPT ![w] = p] \in [Workers -> {"top", "claimed", "played", "written",
                                                     "leaving", "gone", "broken"}]
      /\ phase = "up"
  <2>1. phase = "up"
    BY DEF WorkerNext, WriteFails, WorkerGoes, Claim, Leave, Play, DropGame, WritePending,
           NotifyCompleted, Break
  <2>2. worker[w] \in HasGame => game[w] \in Games
    BY <2>1 DEF WorkerInv, TypeOK
  <2> QED BY <2>1, <2>2 DEF TypeOK, HasGame
<1>1. CASE Claim(w)
  <2>1. \/ /\ gapQueue # <<>> /\ game' = [game EXCEPT ![w] = Head(gapQueue)]
           /\ gapQueue' = Tail(gapQueue) /\ UNCHANGED nextDispatch
        \/ /\ nextDispatch < NGames /\ game' = [game EXCEPT ![w] = nextDispatch]
           /\ nextDispatch' = nextDispatch + 1 /\ UNCHANGED gapQueue
    BY <1>1 DEF Claim, QueueWithoutClaim, MoreGames
  <2>2. nextDispatch < NGames => nextDispatch \in Games /\ nextDispatch + 1 \in 0 .. NGames
    BY <1>a DEF TypeOK
  <2>3. PICK g \in Games : game' = [game EXCEPT ![w] = g]
    BY <2>1, <2>2, AppendsType
  <2>4. game'[w] = g
    BY <2>3 DEF TypeOK
  <2>5. gapQueue' \in Seq(Games) /\ nextDispatch' \in 0 .. NGames
    BY <2>1, <2>2, AppendsType DEF TypeOK
  <2>6. claimed' \subseteq Games
    BY <1>1, <2>4 DEF Claim, TypeOK
  <2>7. worker' = [worker EXCEPT ![w] = "claimed"]
    BY <1>1 DEF Claim, WorkerGoes
  <2>8. UNCHANGED <<lane, checkpoint, manifest, phase, target, rest, stop, cpc, next,
                    committedAtResume, fen_set, committed, boundary, starts, blind,
                    pending, damaged, faults, unsynced>>
    BY <1>1 DEF Claim, WorkerGoes, command, committer
  <2> QED BY <1>b, <2>3, <2>5, <2>6, <2>7, <2>8 DEF TypeOK
<1>2. CASE Leave(w) \/ Play(w) \/ Break(w)
  <2>1. \E p \in {"gone", "played", "broken"} : worker' = [worker EXCEPT ![w] = p]
    BY <1>2 DEF Leave, Play, Break, WorkerGoes
  <2>2. UNCHANGED <<lane, checkpoint, manifest, phase, target, rest, stop, cpc, next,
                    committedAtResume, fen_set, committed, boundary, starts, blind,
                    pending, damaged, nextDispatch, gapQueue, claimed, game, faults, unsynced>>
    BY <1>2 DEF Leave, Play, Break, WorkerGoes, command, committer, dispatcher
  <2> QED BY <1>b, <2>1, <2>2 DEF TypeOK
<1>3. CASE DropGame(w) \/ WriteFails(w)
  <2>1. game[w] \in Games
    BY <1>3, <1>b DEF DropGame, WriteFails, WorkerGoes
  <2>2. gapQueue' \in Seq(Games) /\ claimed' \subseteq Games
    BY ZenonT(40), <1>3, <2>1, AppendsType DEF DropGame, WriteFails, release_unclaimed, TypeOK
  <2>3. \E p \in {"top", "leaving"} : worker' = [worker EXCEPT ![w] = p]
    BY <1>3 DEF DropGame, WriteFails, WorkerGoes
  <2>4. faults' \in 0 .. MaxFaults /\ unsynced' \subseteq Games
    <3>1. faults' \in {faults, faults + 1} /\ (faults' = faults \/ faults < MaxFaults)
      BY <1>3 DEF DropGame, WriteFails
    <3>2. unsynced' = unsynced \/ unsynced' = unsynced \cup {game[w]}
      BY <1>3 DEF DropGame, WriteFails
    <3>3. unsynced \subseteq Games /\ faults \in 0 .. MaxFaults
      BY DEF TypeOK
    <3>4. unsynced' \subseteq Games
      BY <2>1, <3>2, <3>3
    <3>5. faults' \in 0 .. MaxFaults
      BY <1>a, <3>1, <3>3
    <3> QED BY <3>4, <3>5
  <2>5. game' = [game EXCEPT ![w] = None]
        /\ UNCHANGED <<lane, checkpoint, manifest, phase, target, rest, stop, cpc, next,
                       committedAtResume, fen_set, committed, boundary, starts, blind,
                       pending, damaged, nextDispatch>>
    BY <1>3 DEF DropGame, WriteFails, WorkerGoes, command, committer
  <2> QED BY <1>b, <2>2, <2>3, <2>4, <2>5 DEF TypeOK
<1>4. CASE WritePending(w)
  <2>1. game[w] \in Games /\ worker' = [worker EXCEPT ![w] = "written"]
    BY <1>4, <1>b DEF WritePending, WorkerGoes
  <2>2. pending' \subseteq Games /\ damaged' \subseteq pending'
    BY <1>4, <2>1 DEF WritePending, TypeOK
  <2>3. UNCHANGED <<lane, checkpoint, manifest, phase, target, rest, stop, cpc, next,
                    committedAtResume, fen_set, committed, boundary, starts, blind,
                    nextDispatch, gapQueue, claimed, game, faults, unsynced>>
    BY <1>4 DEF WritePending, WorkerGoes, command, committer, dispatcher
  <2> QED BY <1>b, <2>1, <2>2, <2>3 DEF TypeOK
<1>5. CASE NotifyCompleted(w)
  <2>1. /\ worker' = [worker EXCEPT ![w] = "top"] /\ game' = [game EXCEPT ![w] = None]
        /\ claimed' \subseteq claimed
        /\ UNCHANGED <<lane, checkpoint, manifest, phase, target, rest, stop, cpc, next,
                       committedAtResume, fen_set, committed, boundary, starts, blind,
                       pending, damaged, nextDispatch, gapQueue, faults, unsynced>>
    BY <1>5 DEF NotifyCompleted, WorkerGoes, command, committer
  <2> QED BY <1>b, <2>1 DEF TypeOK
<1> QED BY <1>1, <1>2, <1>3, <1>4, <1>5 DEF WorkerNext

LEMMA ConsumerTypes ==
  ASSUME TypeOK, phase = "up" => ConsumerInv, ConsumerNext \/ ConsumerFails \/ Damage
  PROVE  TypeOK'
<1>a. NGames \in Nat /\ MaxFaults \in Nat /\ Games = 0 .. NGames - 1 /\ target \in Nat
  BY SelfPlayAssumption DEF Games, TypeOK
<1>b. ItemType = BlockType \cup {Torn}
  BY DEF ItemType
<1>1. CASE ConsumerExits \/ Probe \/ Wait
  <2>1. cpc' \in {"top", "missing", "garbage", "found", "done", "failed"}
    BY <1>1 DEF ConsumerExits, Probe, Wait, ConsumerGoes
  <2>2. UNCHANGED <<lane, checkpoint, pending, damaged, manifest, phase, target, rest, stop,
                    nextDispatch, gapQueue, claimed, worker, game, next, committedAtResume,
                    fen_set, committed, boundary, starts, faults, unsynced, blind>>
    BY <1>1 DEF ConsumerExits, Probe, Wait, ConsumerGoes, command, workers, committer
  <2> QED BY <2>1, <2>2 DEF TypeOK
<1>2. CASE SkipCommitted \/ WriteCheckpoint
  <2>1. next \in Games
    <3>1. CASE SkipCommitted
      BY <3>1 DEF SkipCommitted, TypeOK
    <3>2. CASE WriteCheckpoint
      BY <3>2 DEF WriteCheckpoint, ConsumerGoes, ConsumerInv, TypeOK
    <3> QED BY <1>2, <3>1, <3>2
  <2>2. next + 1 \in 0 .. NGames
    BY <1>a, <2>1
  <2>3. next' = next + 1 /\ checkpoint' \in {checkpoint, next + 1} /\ cpc' \in {"top", "saved"}
    BY <1>2 DEF SkipCommitted, WriteCheckpoint, ConsumerGoes
  <2>4. UNCHANGED <<lane, pending, damaged, manifest, phase, target, rest, stop,
                    nextDispatch, gapQueue, claimed, worker, game, committedAtResume,
                    fen_set, committed, boundary, starts, faults, unsynced, blind>>
    BY <1>2 DEF SkipCommitted, WriteCheckpoint, ConsumerGoes, command, workers, committer
  <2> QED BY <2>2, <2>3, <2>4 DEF TypeOK
<1>3. CASE RejectDamaged
  <2>1. next \in Games
    BY <1>3 DEF RejectDamaged, ConsumerGoes, ConsumerInv, TypeOK
  <2>2. gapQueue' \in Seq(Games) /\ claimed' \subseteq Games
    BY <1>3, <2>1, AppendsType DEF RejectDamaged, release_unclaimed, TypeOK
  <2>3. cpc' \in {"top", "failed"} /\ pending' = pending \ {next} /\ damaged' = damaged \ {next}
    BY <1>3 DEF RejectDamaged, ConsumerGoes
  <2>4. UNCHANGED <<lane, checkpoint, manifest, phase, target, rest, stop,
                    nextDispatch, worker, game, next, committedAtResume,
                    fen_set, committed, boundary, starts, faults, unsynced, blind>>
    BY <1>3 DEF RejectDamaged, ConsumerGoes, command, workers, committer
  <2> QED BY <2>2, <2>3, <2>4 DEF TypeOK
<1>4. CASE Commit
  <2>1. next \in Games /\ next \in 0 .. NGames
    BY <1>4 DEF Commit, ConsumerGoes, ConsumerInv, TypeOK
  <2> DEFINE s == Survivors(next, fen_set)
             kept == Truncated(s, committed)
             b == [game |-> next, start |-> committed, fens |-> kept]
  <2>2. s \in Seq(Fens)
    BY <2>1, SurvivorsAre DEF TypeOK
  <2>3. committed \in Nat /\ fen_set \subseteq Fens
    BY DEF TypeOK
  <2>4. kept \in Seq(Fens) /\ Len(kept) \in Nat /\ ToSet(kept) \subseteq Fens
    <3> HIDE DEF s
    <3> QED BY <1>a, <2>2, <2>3, TruncatedIs
  <2>5. b \in BlockType
    BY <2>1, <2>3, <2>4 DEF BlockType
  <2>6. \/ UNCHANGED <<lane, fen_set, committed, boundary>>
        \/ /\ lane' = Append(lane, b) /\ fen_set' = fen_set \cup ToSet(kept)
           /\ committed' = committed + Len(kept) /\ boundary' \in {Len(lane), boundary}
    BY <1>4 DEF Commit, committer
  <2>7. Len(lane) \in Nat
    BY LaneTypes, LenProperties
  <2> HIDE DEF s, kept, b
  <2>8. lane' \in Seq(ItemType) /\ fen_set' \subseteq Fens /\ committed' \in Nat
        /\ boundary' \in Nat \cup {None}
    <3>1. lane' \in Seq(ItemType)
      BY <2>5, <2>6, LaneTypes, AppendsType
    <3>2. fen_set' \subseteq Fens /\ committed' \in Nat
      BY <2>3, <2>4, <2>6
    <3>3. boundary' \in Nat \cup {None}
      BY <2>6, <2>7 DEF TypeOK
    <3> QED BY <3>1, <3>2, <3>3
  <2>9. cpc' = "committed"
        /\ UNCHANGED <<checkpoint, pending, damaged, manifest, phase, target, rest, stop,
                       nextDispatch, gapQueue, claimed, worker, game, next,
                       committedAtResume, starts, faults, unsynced, blind>>
    BY <1>4 DEF Commit, ConsumerGoes, command, workers
  <2> QED BY <1>b, <2>8, <2>9 DEF TypeOK
<1>5. CASE Unlink
  <2>1. /\ cpc' = "top" /\ stop' \in BOOLEAN
        /\ pending' = pending \ {next - 1} /\ damaged' = damaged \ {next - 1}
        /\ UNCHANGED <<lane, checkpoint, manifest, phase, target, rest,
                       nextDispatch, gapQueue, claimed, worker, game, next,
                       committedAtResume, fen_set, committed, boundary, starts, faults, unsynced, blind>>
    BY <1>5 DEF Unlink, ConsumerGoes, command, workers, committer
  <2> QED BY <2>1 DEF TypeOK
<1>6. CASE ConsumerFails
  <2>1. lane' \in {lane, Append(lane, Torn)}
    BY <1>6 DEF ConsumerFails, Cut
  <2>2. lane' \in Seq(ItemType)
    BY <2>1, LaneTypes, AppendsType
  <2>3. cpc' = "failed" /\ faults' \in 0 .. MaxFaults
        /\ UNCHANGED <<checkpoint, pending, damaged, manifest, phase, target, rest, stop,
                       nextDispatch, gapQueue, claimed, worker, game, next,
                       committedAtResume, fen_set, committed, boundary, starts, unsynced, blind>>
    BY <1>6, <1>a DEF ConsumerFails, ConsumerGoes, command, workers, committer, TypeOK
  <2> QED BY <1>b, <2>2, <2>3 DEF TypeOK
<1>7. CASE Damage
  <2>1. damaged' \subseteq pending /\ faults' \in 0 .. MaxFaults
    BY <1>7, <1>a DEF Damage, TypeOK
  <2>2. UNCHANGED <<lane, checkpoint, pending, manifest, phase, target, rest, stop,
                    nextDispatch, gapQueue, claimed, worker, game, cpc, next,
                    committedAtResume, fen_set, committed, boundary, starts, unsynced, blind>>
    BY <1>7 DEF Damage, command, dispatcher, workers, committer
  <2> QED BY <2>1, <2>2 DEF TypeOK
<1> QED BY <1>1, <1>2, <1>3, <1>4, <1>5, <1>6, <1>7 DEF ConsumerNext

-----------------------------------------------------------------------------
\* What the command is doing.
LEMMA InitPhase == Init => PhaseInv /\ UpInv
BY DEF Init, PhaseInv, UpInv

LEMMA PhaseStep ==
  ASSUME TypeOK, PhaseInv, [Next]_vars
  PROVE  PhaseInv'
<1>1. ASSUME NEW t \in Targets, Start(t) PROVE PhaseInv'
  <2>1. /\ phase \in Ended /\ phase' \in {"extending", "resuming"} /\ target' = t
        /\ phase' = "extending" => manifest.target # None /\ t > manifest.target
        /\ UNCHANGED <<manifest, rest, cpc>>
    BY <1>1 DEF Start, disk
  <2>2. rest = None /\ cpc \in {"done", "failed"}
    BY <2>1 DEF PhaseInv, Ended
  <2>3. t \in Nat /\ (manifest.target # None => manifest.target \in Nat)
    BY SelfPlayAssumption DEF TypeOK
  <2> QED BY <2>1, <2>2, <2>3 DEF PhaseInv
<1>2. CASE DropBoundary
  BY <1>2 DEF DropBoundary, PhaseInv, command
<1>3. CASE ForgetCheckpoint
  BY <1>3 DEF ForgetCheckpoint, PhaseInv, command
<1>4. CASE Resume
  BY <1>4 DEF Resume, PhaseInv, command
<1>5. ASSUME NEW cap \in Caps, CutLane(cap) PROVE PhaseInv'
  BY <1>5 DEF CutLane, PhaseInv, Ended
<1>6. CASE AppendPartial
  BY <1>6 DEF AppendPartial, PhaseInv
<1>7. CASE RemoveCheckpoint
  BY <1>7 DEF RemoveCheckpoint, CheckpointOnTruncate, PhaseInv, command
<1>8. CASE Return
  BY <1>8 DEF Return, Joined, AllWell, PhaseInv, command
<1>9. CASE Fail
  BY <1>9 DEF Fail, Joined, PhaseInv, command
<1>10. CASE Kill
  BY <1>10 DEF Kill, PhaseInv
<1>11. CASE Interrupt
  BY <1>11 DEF Interrupt, PhaseInv, disk, command
<1>12. CASE ConsumerNext \/ ConsumerFails
  <2>1. phase = "up" /\ UNCHANGED <<manifest, phase, target, rest>>
    BY <1>12 DEF ConsumerNext, ConsumerFails, ConsumerExits, SkipCommitted, Probe, Wait,
           RejectDamaged, Commit, WriteCheckpoint, Unlink, ConsumerGoes, command
  <2> QED BY <2>1 DEF PhaseInv
<1>13. ASSUME NEW w \in Workers, WorkerNext(w) \/ WriteFails(w) PROVE PhaseInv'
  <2>1. phase = "up" /\ UNCHANGED <<manifest, phase, target, rest, cpc>>
    BY <1>13 DEF WorkerNext, WriteFails, Claim, Leave, Play, DropGame, WritePending,
           NotifyCompleted, Break, WorkerGoes, command
  <2> QED BY <2>1 DEF PhaseInv
<1>14. CASE Damage
  BY <1>14 DEF Damage, PhaseInv, command
<1>15. CASE UNCHANGED vars
  BY <1>15 DEF vars, disk, command, PhaseInv
<1> QED BY <1>1, <1>2, <1>3, <1>4, <1>5, <1>6, <1>7, <1>8, <1>9, <1>10, <1>11, <1>12,
           <1>13, <1>14, <1>15 DEF Next, Boot, Truncate, Join, Fault, Idle

-----------------------------------------------------------------------------
\* Each game has one place.
LEMMA QueueAppend ==
  ASSUME NEW q \in Seq(Games), NEW g \in Games, NEW U, NEW V, U \subseteq V,
         OnceEach(q, U), g \in V \/ g \notin ToSet(q)
  PROVE  ToSet(Append(q, g)) = ToSet(q) \cup {g} /\ OnceEach(Append(q, g), V)
<1> DEFINE r == Append(q, g)
           n == Len(q)
<1>1. /\ n \in Nat /\ r \in Seq(Games) /\ Len(r) = n + 1 /\ r[n + 1] = g
      /\ \A i \in 1 .. n : r[i] = q[i]
  BY AppendProperties, LenProperties
<1>2. ToSet(q) = {q[i] : i \in 1 .. n}
  BY LenProperties DEF ToSet
<1>3. ToSet(r) = {r[i] : i \in 1 .. n + 1}
  BY <1>1, LenProperties DEF ToSet
<1> HIDE DEF r, n
<1>4. \A i \in 1 .. n + 1 : i \in 1 .. n \/ i = n + 1
  BY <1>1
<1>5. n + 1 \in 1 .. n + 1 /\ \A i \in 1 .. n : i \in 1 .. n + 1
  BY <1>1
<1>6. ToSet(r) = ToSet(q) \cup {g}
  BY <1>1, <1>2, <1>3, <1>4, <1>5
<1>7. \A i, j \in 1 .. n : q[i] = q[j] /\ q[i] \notin U => i = j
  BY DEF n, OnceEach
<1>8. \A i \in 1 .. n : q[i] # g \/ g \in V
  BY <1>2
<1>9. \A i, j \in 1 .. n + 1 : r[i] = r[j] /\ r[i] \notin V => i = j
  BY <1>1, <1>4, <1>7, <1>8
<1> QED BY <1>1, <1>6, <1>9 DEF r, OnceEach

LEMMA QueueTail ==
  ASSUME NEW q \in Seq(Games), q # <<>>, NEW U, OnceEach(q, U)
  PROVE  /\ ToSet(q) = ToSet(Tail(q)) \cup {Head(q)} /\ OnceEach(Tail(q), U)
         /\ Head(q) \in ToSet(Tail(q)) => Head(q) \in U
<1> DEFINE r == Tail(q)
           n == Len(q)
<1>1. /\ n \in Nat /\ n # 0 /\ Len(r) = n - 1 /\ r \in Seq(Games) /\ Head(q) = q[1]
      /\ \A i \in 1 .. n - 1 : r[i] = q[i + 1]
  BY HeadTailProperties, EmptySeq, LenProperties
<1>2. ToSet(q) = {q[i] : i \in 1 .. n}
  BY LenProperties DEF ToSet
<1>3. ToSet(r) = {r[i] : i \in 1 .. n - 1}
  BY <1>1, LenProperties DEF ToSet
<1> HIDE DEF r, n
<1>4. 1 \in 1 .. n /\ \A i \in 1 .. n - 1 : i + 1 \in 1 .. n /\ i + 1 # 1
  BY <1>1
<1>5. \A i \in 1 .. n : i = 1 \/ (i - 1 \in 1 .. n - 1 /\ i - 1 + 1 = i)
  BY <1>1
<1>6. \A i, j \in 1 .. n : q[i] = q[j] /\ q[i] \notin U => i = j
  BY DEF n, OnceEach
<1>7. ToSet(q) = ToSet(r) \cup {Head(q)}
  <2>1. ASSUME NEW i \in 1 .. n - 1 PROVE r[i] \in ToSet(q)
    <3>1. i + 1 \in 1 .. n /\ r[i] = q[i + 1]
      BY <1>1, <1>4
    <3> QED BY <1>2, <3>1
  <2>2. ASSUME NEW x \in ToSet(q), x # Head(q) PROVE x \in ToSet(r)
    <3>1. PICK i \in 1 .. n : x = q[i]
      BY <1>2
    <3>2. i - 1 \in 1 .. n - 1 /\ i - 1 + 1 = i
      BY <1>1, <1>5, <2>2, <3>1
    <3>3. r[i - 1] = x
      BY <1>1, <3>1, <3>2
    <3> QED BY <1>3, <3>2, <3>3
  <2>3. Head(q) \in ToSet(q)
    BY <1>1, <1>2, <1>4
  <2> QED BY <1>3, <2>1, <2>2, <2>3
<1>8. ASSUME NEW i \in 1 .. n - 1, NEW j \in 1 .. n - 1, r[i] = r[j], r[i] \notin U
      PROVE  i = j
  <2>1. i + 1 = j + 1
    BY <1>1, <1>4, <1>6, <1>8
  <2> QED BY <1>1, <2>1
<1>9. ASSUME Head(q) \in ToSet(r) PROVE Head(q) \in U
  <2>1. PICK i \in 1 .. n - 1 : r[i] = Head(q)
    BY <1>3, <1>9
  <2>2. q[i + 1] = q[1]
    BY <1>1, <2>1
  <2> QED BY <1>1, <1>4, <1>6, <2>2
<1> QED BY <1>1, <1>7, <1>8, <1>9 DEF r, OnceEach

LEMMA WorkerUp ==
  ASSUME TypeOK, TypeOK', WorkerInv, QueueInv, DispatchInv, ConsumerInv,
         NEW w \in Workers, WorkerNext(w) \/ WriteFails(w)
  PROVE  WorkerInv' /\ QueueInv' /\ DispatchInv' /\ ConsumerInv'
<1>a. /\ next \in Nat /\ nextDispatch \in Nat /\ NGames \in Nat /\ Games = 0 .. NGames - 1
      /\ pending \subseteq Games /\ committedAtResume \subseteq Games /\ claimed \subseteq Games
      /\ damaged \subseteq pending /\ gapQueue \in Seq(Games) /\ None \notin Nat
      /\ next <= nextDispatch /\ unsynced \subseteq Games
  BY SMTT(40), SelfPlayAssumption DEF TypeOK, Games, ConsumerInv
<1>b. /\ worker \in [Workers -> {"top", "claimed", "played", "written", "leaving",
                                 "gone", "broken"}]
      /\ game \in [Workers -> Games \cup {None}]
  BY DEF TypeOK
<1>c. UNCHANGED <<next, committedAtResume, cpc>>
  BY DEF WorkerNext, WriteFails, Claim, Leave, Play, DropGame, WritePending,
         NotifyCompleted, Break, WorkerGoes
<1>d. Queued \subseteq Games
  BY <1>a, ElementOfSeq, LenProperties DEF Queued, ToSet
<1>e. None \notin Games
  BY <1>a
<1>1. CASE Claim(w)
  <2>1. worker[w] = "top" /\ worker' = [worker EXCEPT ![w] = "claimed"]
        /\ UNCHANGED <<pending, damaged, unsynced>>
    BY <1>1 DEF Claim, WorkerGoes
  <2> DEFINE Taken(g) ==
          /\ game' = [game EXCEPT ![w] = g]
          /\ g \in unsynced \/ (g \notin pending \cup committedAtResume \cup claimed /\ g >= next)
          /\ Queued \subseteq Queued' \cup {g} /\ Queued' \subseteq Queued
          /\ g \in Queued' => g \in unsynced
          /\ OnceEach(gapQueue, unsynced)'
          /\ \/ nextDispatch' = nextDispatch /\ g < nextDispatch
             \/ nextDispatch' = nextDispatch + 1 /\ g = nextDispatch
  <2>2. \E g \in Games : Taken(g)
    <3>1. CASE /\ gapQueue # <<>> /\ game' = [game EXCEPT ![w] = Head(gapQueue)]
               /\ gapQueue' = Tail(gapQueue) /\ UNCHANGED nextDispatch
      <4>1. /\ Queued = ToSet(Tail(gapQueue)) \cup {Head(gapQueue)}
            /\ OnceEach(Tail(gapQueue), unsynced)
            /\ Head(gapQueue) \in ToSet(Tail(gapQueue)) => Head(gapQueue) \in unsynced
        BY <1>a, <3>1, QueueTail DEF Queued, QueueInv
      <4>2. PICK g : g = Head(gapQueue)
        OBVIOUS
      <4>3. Queued = Queued' \cup {g} /\ (g \in Queued' => g \in unsynced)
        BY <3>1, <4>1, <4>2 DEF Queued
      <4>4. g \in Games /\ g < nextDispatch
            /\ (g \in unsynced \/ (g \notin pending \cup committedAtResume \cup claimed /\ g >= next))
        BY <1>d, <4>3 DEF QueueInv, DispatchInv
      <4>5. OnceEach(gapQueue, unsynced)'
        BY <2>1, <3>1, <4>1 DEF OnceEach
      <4> QED BY <3>1, <4>2, <4>3, <4>4, <4>5
    <3>2. CASE /\ nextDispatch < NGames /\ game' = [game EXCEPT ![w] = nextDispatch]
               /\ nextDispatch' = nextDispatch + 1 /\ UNCHANGED gapQueue
      <4>1. PICK g : g = nextDispatch
        OBVIOUS
      <4>2. g \in Games
        BY <1>a, <3>2, <4>1
      <4>3. g \notin Queued \cup claimed \cup pending \cup committedAtResume
        BY <1>a, <4>1 DEF DispatchInv
      <4>4. Queued' = Queued
        BY <3>2 DEF Queued
      <4>5. g >= next
        BY <1>a, <4>1
      <4>6. OnceEach(gapQueue, unsynced)'
        BY <2>1, <3>2 DEF QueueInv, OnceEach
      <4>7. game' = [game EXCEPT ![w] = g] /\ nextDispatch' = nextDispatch + 1
        BY <3>2, <4>1
      <4> QED BY <4>1, <4>2, <4>3, <4>4, <4>5, <4>6, <4>7
    <3> QED BY <1>1, <3>1, <3>2 DEF Claim, QueueWithoutClaim, MoreGames
  <2>3. PICK g \in Games : Taken(g)
    BY <2>2
  <2>4. claimed' = claimed \cup {g}
    BY <1>1, <1>b, <2>3 DEF Claim
  <2>5. game[w] = None /\ g # None
    BY <1>a, <1>b, <2>1 DEF WorkerInv, HasGame
  <2>6. \A v \in Workers : /\ v # w => game'[v] = game[v] /\ worker'[v] = worker[v]
                           /\ v = w => game'[v] = g /\ worker'[v] = "claimed"
    BY <1>b, <2>1, <2>3
  <2>7. \A v \in Workers : v # w /\ game[v] = g => g \in unsynced
    BY <2>3, <2>5 DEF WorkerInv
  <2>8. WorkerInv'
    BY <1>c, <2>1, <2>3, <2>4, <2>5, <2>6, <2>7 DEF WorkerInv, HasGame, Playing
  <2>9. QueueInv'
    BY <1>c, <2>1, <2>3, <2>4 DEF QueueInv
  <2>10. DispatchInv'
    <3>1. \A x \in Queued' \cup claimed' \cup pending' \cup committedAtResume' \cup unsynced' :
            x < nextDispatch'
      <4>1. \A x \in Queued \cup claimed \cup pending \cup committedAtResume \cup unsynced :
              x < nextDispatch /\ x \in Games
        BY <1>a, <1>d DEF DispatchInv
      <4>2. \A x \in Games : x < nextDispatch => x < nextDispatch'
        BY <1>a, <2>3
      <4>3. g < nextDispatch'
        BY <1>a, <2>3
      <4> QED BY <1>c, <2>1, <2>3, <2>4, <4>1, <4>2, <4>3
    <3>2. ASSUME NEW x \in Games, x >= next', x < nextDispatch'
          PROVE  \/ x \in committedAtResume' \cup pending' \cup Queued'
                 \/ \E v \in Playing' : game'[v] = x
      <4>1. x < nextDispatch \/ x = g
        BY <1>a, <2>3, <3>2
      <4>2. w \in Playing' /\ Playing \subseteq Playing' /\ w \notin Playing
        BY <2>1, <2>6 DEF Playing
      <4>3. CASE x = g
        BY <2>6, <4>2, <4>3
      <4>4. CASE x # g /\ x < nextDispatch
        <5>1. \/ x \in committedAtResume \cup pending \cup Queued
              \/ \E v \in Playing : game[v] = x
          BY <1>c, <3>2, <4>4 DEF DispatchInv
        <5>2. \A v \in Playing : v \in Playing' /\ game'[v] = game[v]
          BY <2>6, <4>2 DEF Playing
        <5> QED BY <1>c, <2>1, <2>3, <4>4, <5>1, <5>2
      <4> QED BY <4>1, <4>3, <4>4
    <3>3. \A x \in claimed' \ unsynced' : \E v \in Workers : game'[v] = x
      <4>1. ASSUME NEW x \in claimed \ unsynced PROVE \E v \in Workers : game'[v] = x
        <5>1. PICK v \in Workers : game[v] = x
          BY DEF DispatchInv
        <5>2. x # None
          BY <1>a
        <5> QED BY <2>5, <2>6, <5>1, <5>2
      <4> QED BY <2>1, <2>4, <2>6, <4>1
    <3>4. damaged' \cap claimed' \subseteq unsynced'
      BY <1>a, <2>1, <2>3, <2>4 DEF DispatchInv
    <3> QED BY <3>1, <3>2, <3>3, <3>4 DEF DispatchInv
  <2>11. ConsumerInv'
    BY <1>a, <1>c, <2>1, <2>3 DEF ConsumerInv
  <2> QED BY <2>8, <2>9, <2>10, <2>11
<1>2. CASE Leave(w) \/ Play(w) \/ Break(w)
  <2>1. PICK p \in {"gone", "played", "broken"} :
          /\ worker' = [worker EXCEPT ![w] = p]
          /\ p = "played" <=> worker[w] = "claimed"
          /\ worker[w] \in {"top", "claimed", "leaving"}
    BY <1>2 DEF Leave, Play, Break, WorkerGoes
  <2>2. UNCHANGED <<pending, damaged, nextDispatch, gapQueue, claimed, game, unsynced>>
    BY <1>2 DEF Leave, Play, Break, dispatcher
  <2>3. \A v \in Workers : worker'[v] = IF v = w THEN p ELSE worker[v]
    BY <1>b, <2>1
  <2>4. Playing' = Playing
    BY <2>1, <2>3 DEF Playing
  <2>5. WorkerInv'
    BY <1>c, <2>1, <2>2, <2>3, <2>4 DEF WorkerInv, HasGame
  <2>6. Queued' = Queued
    BY <2>2 DEF Queued
  <2>7. QueueInv' /\ DispatchInv' /\ ConsumerInv'
    BY <1>c, <2>2, <2>4, <2>6 DEF QueueInv, DispatchInv, ConsumerInv, OnceEach
  <2> QED BY <2>5, <2>7
<1>3. CASE DropGame(w) \/ WriteFails(w)
  <2>1. PICK p \in {"top", "leaving"} : worker' = [worker EXCEPT ![w] = p]
    BY <1>3 DEF DropGame, WriteFails, WorkerGoes
  <2>2. worker[w] \in HasGame
    BY <1>3 DEF DropGame, WriteFails, WorkerGoes, HasGame
  <2>3. PICK g \in Games : game[w] = g
    BY <1>b, <2>2 DEF WorkerInv
  <2>4. /\ unsynced \subseteq unsynced' /\ unsynced' \subseteq unsynced \cup {g}
        /\ w \in Playing \/ g \in unsynced'
    BY <1>3, <2>3 DEF DropGame, WriteFails, WorkerGoes, Playing
  <2>5. /\ g \in claimed \cup unsynced /\ g # None
        /\ g \notin unsynced' => g \notin pending \cup committedAtResume /\ g >= next /\ g \in claimed
    BY <1>e, <2>3, <2>4 DEF WorkerInv
  <2>6. /\ claimed' = claimed \ {g} /\ gapQueue' = Append(gapQueue, g)
        /\ game' = [game EXCEPT ![w] = None]
        /\ UNCHANGED <<pending, damaged, nextDispatch>>
    BY <1>3, <2>3 DEF DropGame, WriteFails, release_unclaimed
  <2>7. Queued' = Queued \cup {g} /\ OnceEach(gapQueue, unsynced)'
    <3>1. g \in unsynced' \/ g \notin ToSet(gapQueue)
      BY <2>4, <2>5 DEF QueueInv, Queued
    <3>2. OnceEach(gapQueue, unsynced)
      BY DEF QueueInv
    <3>3. ToSet(Append(gapQueue, g)) = ToSet(gapQueue) \cup {g}
          /\ OnceEach(Append(gapQueue, g), unsynced')
      BY <1>a, <2>4, <3>1, <3>2, QueueAppend
    <3> QED BY <2>6, <3>3 DEF Queued, OnceEach
  <2>8. \A v \in Workers : /\ v # w => game'[v] = game[v] /\ worker'[v] = worker[v]
                           /\ v = w => game'[v] = None /\ worker'[v] = p
    BY <1>b, <2>1, <2>6
  <2>9. \A v \in Workers : v # w /\ game[v] = g => g \in unsynced
    BY <2>3, <2>5 DEF WorkerInv
  <2>10. WorkerInv'
    BY <1>c, <2>1, <2>4, <2>6, <2>8, <2>9 DEF WorkerInv, HasGame, Playing
  <2>11. QueueInv'
    BY <1>c, <2>4, <2>5, <2>6, <2>7 DEF QueueInv
  <2>12. DispatchInv'
    <3>1. \A x \in claimed' \ unsynced' : \E v \in Workers : game'[v] = x
      BY <2>3, <2>4, <2>6, <2>8 DEF DispatchInv
    <3>2. \A x \in Queued' \cup claimed' \cup pending' \cup committedAtResume' \cup unsynced' :
            x < nextDispatch'
      BY <1>c, <2>4, <2>5, <2>6, <2>7 DEF DispatchInv
    <3>3. ASSUME NEW x \in Games, x >= next', x < nextDispatch'
          PROVE  \/ x \in committedAtResume' \cup pending' \cup Queued'
                 \/ \E v \in Playing' : game'[v] = x
      <4>1. \/ x \in committedAtResume \cup pending \cup Queued
            \/ \E v \in Playing : game[v] = x
        BY <1>c, <2>6, <3>3 DEF DispatchInv
      <4>2. \A v \in Playing : v = w \/ (v \in Playing' /\ game'[v] = game[v])
        BY <2>8 DEF Playing
      <4> QED BY <1>c, <2>3, <2>6, <2>7, <4>1, <4>2
    <3>4. damaged' \cap claimed' \subseteq unsynced'
      BY <2>4, <2>6 DEF DispatchInv
    <3> QED BY <3>1, <3>2, <3>3, <3>4 DEF DispatchInv
  <2>13. ConsumerInv'
    BY <1>c, <2>4, <2>6 DEF ConsumerInv
  <2> QED BY <2>10, <2>11, <2>12, <2>13
<1>4. CASE WritePending(w)
  <2>1. worker[w] = "played" /\ worker' = [worker EXCEPT ![w] = "written"]
        /\ UNCHANGED <<nextDispatch, gapQueue, claimed, game, unsynced>>
    BY <1>4 DEF WritePending, WorkerGoes, dispatcher
  <2>2. w \in Playing /\ worker[w] \in HasGame
    BY <2>1 DEF Playing, HasGame
  <2>3. PICK g \in Games : game[w] = g
    BY <1>b, <2>2 DEF WorkerInv
  <2>4. /\ g \in claimed \cup unsynced
        /\ g \notin unsynced => g \notin pending \cup committedAtResume /\ g >= next /\ g \in claimed
    BY <1>e, <2>2, <2>3 DEF WorkerInv
  <2>5. pending' = pending \cup {g} /\ damaged' = damaged \ {g}
    BY <1>4, <2>3 DEF WritePending
  <2>6. \A v \in Workers : worker'[v] = IF v = w THEN "written" ELSE worker[v]
    BY <1>b, <2>1
  <2>7. \A v \in Workers : v # w /\ game[v] = g => g \in unsynced
    BY <1>e, <2>3 DEF WorkerInv
  <2>8. WorkerInv'
    BY <1>c, <2>1, <2>3, <2>5, <2>6, <2>7 DEF WorkerInv, HasGame, Playing
  <2>9. Queued' = Queued /\ (g \in Queued => g \in unsynced)
    BY <2>1, <2>4 DEF Queued, QueueInv
  <2>10. QueueInv'
    BY <1>c, <2>1, <2>4, <2>5, <2>9 DEF QueueInv, OnceEach
  <2>11. DispatchInv'
    <3>1. g < nextDispatch
      BY <2>4 DEF DispatchInv
    <3>2. ASSUME NEW x \in Games, x >= next', x < nextDispatch'
          PROVE  \/ x \in committedAtResume' \cup pending' \cup Queued'
                 \/ \E v \in Playing' : game'[v] = x
      <4>1. \/ x \in committedAtResume \cup pending \cup Queued
            \/ \E v \in Playing : game[v] = x
        BY <1>c, <2>1, <3>2 DEF DispatchInv
      <4>2. \A v \in Playing : v = w \/ (v \in Playing' /\ game'[v] = game[v])
        BY <2>1, <2>6 DEF Playing
      <4> QED BY <1>c, <2>3, <2>5, <2>9, <4>1, <4>2
    <3> QED BY <1>c, <2>1, <2>4, <2>5, <2>9, <3>1, <3>2 DEF DispatchInv
  <2>12. ConsumerInv'
    BY <1>a, <1>c, <2>1, <2>4, <2>5 DEF ConsumerInv
  <2> QED BY <2>8, <2>10, <2>11, <2>12
<1>5. CASE NotifyCompleted(w)
  <2>1. worker[w] = "written" /\ worker' = [worker EXCEPT ![w] = "top"]
        /\ game' = [game EXCEPT ![w] = None] /\ claimed' = claimed \ {game[w]}
        /\ UNCHANGED <<pending, damaged, nextDispatch, gapQueue, unsynced>>
    BY <1>5 DEF NotifyCompleted, WorkerGoes
  <2>2. PICK g \in Games : game[w] = g
    BY <1>b, <2>1 DEF WorkerInv, HasGame
  <2>3. g # None
    BY <1>e
  <2>4. \A v \in Workers : /\ v # w => game'[v] = game[v] /\ worker'[v] = worker[v]
                           /\ v = w => game'[v] = None /\ worker'[v] = "top"
    BY <1>b, <2>1
  <2>5. \A v \in Workers : v # w /\ game[v] = g => g \in unsynced
    BY <2>2, <2>3 DEF WorkerInv
  <2>6. WorkerInv'
    BY <1>c, <2>1, <2>2, <2>4, <2>5 DEF WorkerInv, HasGame, Playing
  <2>7. Queued' = Queued
    BY <2>1 DEF Queued
  <2>8. QueueInv'
    BY <1>c, <2>1, <2>7 DEF QueueInv, OnceEach
  <2>9. DispatchInv'
    <3>1. \A x \in claimed' \ unsynced' : \E v \in Workers : game'[v] = x
      BY <2>1, <2>2, <2>4 DEF DispatchInv
    <3>2. ASSUME NEW v \in Playing PROVE v \in Playing' /\ game'[v] = game[v]
      BY <2>1, <2>4 DEF Playing
    <3> QED BY <1>c, <2>1, <2>7, <3>1, <3>2 DEF DispatchInv
  <2>10. ConsumerInv'
    BY <1>c, <2>1 DEF ConsumerInv
  <2> QED BY <2>6, <2>8, <2>9, <2>10
<1> QED BY <1>1, <1>2, <1>3, <1>4, <1>5 DEF WorkerNext

LEMMA ConsumerUp ==
  ASSUME TypeOK, TypeOK', WorkerInv, QueueInv, DispatchInv, ConsumerInv,
         ConsumerNext \/ ConsumerFails \/ Damage
  PROVE  WorkerInv' /\ QueueInv' /\ DispatchInv' /\ ConsumerInv'
<1>a. /\ next \in Nat /\ nextDispatch \in Nat /\ NGames \in Nat /\ Games = 0 .. NGames - 1
      /\ pending \subseteq Games /\ committedAtResume \subseteq Games /\ claimed \subseteq Games
      /\ damaged \subseteq pending /\ gapQueue \in Seq(Games) /\ None \notin Nat
      /\ next <= nextDispatch /\ game \in [Workers -> Games \cup {None}]
      /\ unsynced \subseteq Games
  BY SMTT(40), SelfPlayAssumption DEF TypeOK, Games, ConsumerInv
<1>b. Queued \subseteq Games
  BY <1>a, ElementOfSeq, LenProperties DEF Queued, ToSet
<1>c. UNCHANGED <<nextDispatch, worker, game, committedAtResume, unsynced>>
  BY DEF ConsumerNext, ConsumerFails, ConsumerExits, SkipCommitted, Probe, Wait, Damage,
         RejectDamaged, Commit, WriteCheckpoint, Unlink, ConsumerGoes, workers, dispatcher
<1>d. \A v \in Workers : game[v] # None => game[v] \in Games
  BY <1>a
<1>e. Playing' = Playing
  BY <1>c DEF Playing
<1>1. CASE ConsumerExits \/ Probe \/ Wait \/ Commit \/ ConsumerFails
  <2>1. UNCHANGED <<pending, damaged, gapQueue, claimed, next>>
    BY <1>1 DEF ConsumerExits, Probe, Wait, Commit, ConsumerFails
  <2>2. Queued' = Queued
    BY <2>1 DEF Queued
  <2>3. /\ cpc' = "garbage" => next \in damaged
        /\ cpc' \in {"missing", "garbage", "found"} => next \notin committedAtResume
        /\ cpc' \in {"found", "committed"} => next \in pending
        /\ cpc' # "saved"
    BY <1>1 DEF ConsumerExits, Probe, Wait, Commit, ConsumerFails, ConsumerGoes, ConsumerInv
  <2>4. WorkerInv' /\ QueueInv'
    BY <1>c, <1>e, <2>1, <2>2 DEF WorkerInv, QueueInv, OnceEach
  <2>5. DispatchInv'
    BY <1>c, <1>e, <2>1, <2>2 DEF DispatchInv
  <2>6. ConsumerInv'
    BY <1>c, <2>1, <2>3 DEF ConsumerInv
  <2> QED BY <2>4, <2>5, <2>6
<1>2. CASE SkipCommitted \/ WriteCheckpoint
  <2>1. UNCHANGED <<pending, damaged, gapQueue, claimed>> /\ next' = next + 1
        /\ cpc' \in {"top", "saved"} /\ next \in pending \cup committedAtResume
    BY <1>2 DEF SkipCommitted, WriteCheckpoint, ConsumerGoes, ConsumerInv
  <2>2. Queued' = Queued
    BY <2>1 DEF Queued
  <2>3. next < nextDispatch
    BY <2>1 DEF DispatchInv
  <2>4. \A x \in Games : x >= next /\ x # next => x >= next'
    BY <1>a, <2>1
  <2>5. \A x \in Games : x >= next' => x >= next
    BY <1>a, <2>1
  <2>6. WorkerInv'
    BY <1>c, <1>d, <1>e, <2>1, <2>4 DEF WorkerInv, HasGame
  <2>7. QueueInv'
    BY <1>b, <1>c, <2>1, <2>2, <2>4 DEF QueueInv, OnceEach
  <2>8. DispatchInv'
    BY <1>c, <1>e, <2>1, <2>2, <2>5 DEF DispatchInv
  <2>9. ConsumerInv'
    <3>1. next' <= nextDispatch /\ next' > 0
      BY <1>a, <2>1, <2>3
    <3> QED BY <1>c, <2>1, <3>1 DEF ConsumerInv
  <2> QED BY <2>6, <2>7, <2>8, <2>9
<1>3. CASE RejectDamaged
  <2>1. /\ next \notin committedAtResume /\ next \in pending \cup unsynced /\ next \in Games
        /\ next < nextDispatch
        /\ next \notin unsynced => next \notin claimed /\ next \notin Queued
    <3>1. next \in damaged \cup unsynced /\ next \notin committedAtResume
      BY <1>3 DEF RejectDamaged, ConsumerGoes, ConsumerInv
    <3>2. next \in pending \cup unsynced /\ next \in Games /\ next < nextDispatch
      BY <1>a, <3>1 DEF DispatchInv
    <3> QED BY <1>a, <3>1, <3>2 DEF DispatchInv, QueueInv
  <2>2. /\ pending' = pending \ {next} /\ damaged' = damaged \ {next}
        /\ claimed' = claimed \ {next} /\ gapQueue' = Append(gapQueue, next) /\ next' = next
        /\ cpc' \in {"top", "failed"}
    BY <1>3 DEF RejectDamaged, release_unclaimed, ConsumerGoes
  <2>3. Queued' = Queued \cup {next} /\ OnceEach(gapQueue, unsynced)'
    <3>1. OnceEach(gapQueue, unsynced) /\ (next \in unsynced \/ next \notin ToSet(gapQueue))
      BY <2>1 DEF QueueInv, Queued
    <3>2. ToSet(Append(gapQueue, next)) = ToSet(gapQueue) \cup {next}
          /\ OnceEach(Append(gapQueue, next), unsynced)
      BY <1>a, <2>1, <3>1, QueueAppend
    <3> QED BY <1>c, <2>2, <3>2 DEF Queued, OnceEach
  <2>4. WorkerInv'
    <3>1. \A v \in Workers : game[v] # None => game[v] # next \/ next \in unsynced
      BY <2>1 DEF WorkerInv
    <3> QED BY <1>c, <1>e, <2>2, <3>1 DEF WorkerInv, HasGame
  <2>5. QueueInv'
    BY <1>a, <1>c, <2>1, <2>2, <2>3 DEF QueueInv
  <2>6. DispatchInv'
    BY <1>c, <1>e, <2>1, <2>2, <2>3 DEF DispatchInv
  <2>7. ConsumerInv'
    BY <1>c, <2>2 DEF ConsumerInv
  <2> QED BY <2>4, <2>5, <2>6, <2>7
<1>4. CASE Unlink
  <2>1. /\ pending' = pending \ {next - 1} /\ damaged' = damaged \ {next - 1}
        /\ cpc' = "top" /\ UNCHANGED <<gapQueue, claimed, next>> /\ next > 0
    BY <1>4 DEF Unlink, ConsumerGoes, ConsumerInv
  <2>2. Queued' = Queued
    BY <2>1 DEF Queued
  <2>3. \A x \in Games : x = next - 1 => x < next /\ ~(x >= next)
    BY <1>a
  <2>4. WorkerInv'
    BY <1>c, <1>d, <1>e, <2>1, <2>3 DEF WorkerInv, HasGame
  <2>5. QueueInv'
    BY <1>c, <2>1, <2>2 DEF QueueInv, OnceEach
  <2>6. DispatchInv'
    BY <1>c, <1>e, <2>1, <2>2, <2>3 DEF DispatchInv
  <2>7. ConsumerInv'
    BY <1>c, <2>1 DEF ConsumerInv
  <2> QED BY <2>4, <2>5, <2>6, <2>7
<1>5. CASE Damage
  <2>1. UNCHANGED <<pending, gapQueue, claimed, next, cpc>>
    BY <1>5 DEF Damage, dispatcher
  <2>2. Queued' = Queued
    BY <2>1 DEF Queued
  <2>3. damaged \subseteq damaged' /\ damaged' \cap claimed \subseteq unsynced
    BY <1>5 DEF Damage, DispatchInv
  <2>4. WorkerInv' /\ QueueInv'
    BY <1>c, <1>e, <2>1, <2>2 DEF WorkerInv, QueueInv, OnceEach
  <2>5. DispatchInv'
    BY <1>c, <1>e, <2>1, <2>2, <2>3 DEF DispatchInv
  <2>6. ConsumerInv'
    BY <1>c, <2>1, <2>3 DEF ConsumerInv
  <2> QED BY <2>4, <2>5, <2>6
<1> QED BY <1>1, <1>2, <1>3, <1>4, <1>5 DEF ConsumerNext

\* A resume hands out what is not there.
LEMMA ResumeUp ==
  ASSUME TypeOK, Resume
  PROVE  WorkerInv' /\ QueueInv' /\ DispatchInv' /\ ConsumerInv'
<1>1. /\ pending' = LiveFiles /\ damaged' = {} /\ next' = Cursor
      /\ nextDispatch' = Upper /\ gapQueue' = GapList /\ claimed' = {}
      /\ committedAtResume' = Ids(Blocks) /\ cpc' = "top"
      /\ worker' = [w \in Workers |-> "top"] /\ game' = [w \in Workers |-> None]
      /\ unsynced' = {}
  BY DEF Resume
<1> DEFINE ids == Ids(Blocks)
           cursor == Cursor
           upper == Upper
           files == LiveFiles
<1>2. /\ cursor \in 0 .. NGames /\ upper \in 0 .. NGames /\ cursor <= upper
      /\ files \subseteq Games /\ files \cap ids = {}
      /\ \A g \in ids \cup files : g < upper
  BY ResumesAt
<1>3. ids \subseteq Games
  BY LaneTypes
<1>4. /\ ToSet(GapList) = (cursor .. upper - 1) \ (ids \cup files)
      /\ \A i, j \in DOMAIN GapList : GapList[i] = GapList[j] => i = j
      /\ GapList \in Seq(Games)
  BY GapsAre
<1>5. Queued' = (cursor .. upper - 1) \ (ids \cup files)
  BY <1>1, <1>4 DEF Queued
<1>6. NGames \in Nat /\ Games = 0 .. NGames - 1
  BY GamesFinite DEF Games
<1>7. /\ pending' = files /\ next' = cursor /\ nextDispatch' = upper
      /\ committedAtResume' = ids
  BY <1>1
<1>8. OnceEach(gapQueue, unsynced)'
  <2>1. DOMAIN GapList = 1 .. Len(GapList)
    BY <1>4, LenProperties
  <2> QED BY <1>1, <1>4, <2>1 DEF OnceEach
<1> HIDE DEF ids, cursor, upper, files
<1>9. WorkerInv'
  BY <1>1 DEF WorkerInv, HasGame
<1>10. QueueInv'
  <2>1. \A g \in Queued' : g >= cursor
    BY <1>2, <1>5
  <2> QED BY <1>1, <1>5, <1>7, <1>8, <2>1 DEF QueueInv
<1>11. DispatchInv'
  <2>1. \A g \in Queued' : g < upper
    BY <1>2, <1>5
  <2>2. \A g \in Games : g >= cursor /\ g < upper => g \in ids \cup files \cup Queued'
    BY <1>2, <1>5, <1>6
  <2> QED BY <1>1, <1>2, <1>7, <2>1, <2>2 DEF DispatchInv
<1>12. ConsumerInv'
  BY <1>1, <1>2, <1>7 DEF ConsumerInv
<1> QED BY <1>9, <1>10, <1>11, <1>12

LEMMA UpStep ==
  ASSUME TypeOK, TypeOK', UpInv, [Next]_vars
  PROVE  UpInv'
<1>1. CASE (\E t \in Targets : Start(t)) \/ DropBoundary \/ ForgetCheckpoint
           \/ (\E cap \in Caps : CutLane(cap)) \/ Truncate \/ Join \/ Kill
  <2>1. phase' # "up"
    BY <1>1 DEF Start, DropBoundary, ForgetCheckpoint, CutLane, Truncate, AppendPartial,
           RemoveCheckpoint, Join, Return, Fail, Kill
  <2> QED BY <2>1 DEF UpInv
<1>2. CASE Resume
  BY <1>2, ResumeUp DEF UpInv
<1>3. CASE Interrupt \/ UNCHANGED vars
  <2>1. UNCHANGED <<phase, pending, damaged, nextDispatch, gapQueue, claimed, worker, game,
                    cpc, next, committedAtResume, unsynced>>
    BY <1>3 DEF Interrupt, vars, disk, dispatcher, workers, history
  <2>2. Queued' = Queued
    BY <2>1 DEF Queued
  <2>3. WorkerInv' = WorkerInv /\ QueueInv' = QueueInv
    BY <2>1, <2>2 DEF WorkerInv, QueueInv, Playing, OnceEach
  <2>4. DispatchInv' = DispatchInv /\ ConsumerInv' = ConsumerInv
    BY <2>1, <2>2 DEF DispatchInv, ConsumerInv, Playing
  <2> QED BY <2>1, <2>3, <2>4 DEF UpInv
<1>4. ASSUME NEW w \in Workers, WorkerNext(w) \/ WriteFails(w) PROVE UpInv'
  <2>1. phase = "up"
    BY <1>4 DEF WorkerNext, WriteFails, Claim, Leave, Play, DropGame, WritePending,
           NotifyCompleted, Break, WorkerGoes
  <2> QED BY <1>4, <2>1, WorkerUp DEF UpInv
<1>5. CASE ConsumerNext \/ ConsumerFails
  <2>1. phase = "up"
    BY <1>5 DEF ConsumerNext, ConsumerFails, ConsumerExits, SkipCommitted, Probe, Wait,
           RejectDamaged, Commit, WriteCheckpoint, Unlink, ConsumerGoes
  <2> QED BY <1>5, <2>1, ConsumerUp DEF UpInv
<1>6. CASE Damage
  <2>1. phase' = phase
    BY <1>6 DEF Damage
  <2> QED BY <1>6, <2>1, ConsumerUp DEF UpInv
<1> QED BY <1>1, <1>2, <1>3, <1>4, <1>5, <1>6 DEF Next, Boot, Fault, Idle

-----------------------------------------------------------------------------
\* The lane.
LEMMA HeadIs ==
  ASSUME NEW l \in Seq(ItemType)
  PROVE  (l # <<>> => Head(l) # Torn) <=> (l = <<>> \/ BlocksOf(l) # <<>>)
<1> DEFINE B == BlocksOf(l)
<1>1. B \in Seq(BlockType) /\ Len(B) <= Len(l) /\ (\A i \in 1 .. Len(B) : B[i] = l[i])
      /\ (Len(B) < Len(l) => l[Len(B) + 1] = Torn)
  BY ValidBlocks DEF IsValid
<1>2. Len(l) \in Nat /\ (l = <<>> <=> Len(l) = 0)
  BY EmptySeq, LenProperties
<1> HIDE DEF B
<1>3. Len(B) \in Nat /\ (B = <<>> <=> Len(B) = 0) /\ \A i \in 1 .. Len(B) : B[i] \in BlockType
  BY <1>1, LaneSets
<1>4. l # <<>> => Head(l) = l[1]
  BY HeadTailProperties
<1>5. ASSUME B = <<>>, l # <<>> PROVE l[1] = Torn
  <2>1. Len(B) < Len(l) /\ Len(B) + 1 = 1
    BY <1>2, <1>3, <1>5
  <2> QED BY <1>1, <2>1
<1>6. ASSUME B # <<>> PROVE l[1] # Torn
  <2>1. 1 \in 1 .. Len(B)
    BY <1>3, <1>6
  <2> QED BY <1>1, <1>3, <2>1, SelfPlayAssumption
<1> QED BY <1>4, <1>5, <1>6 DEF B

LEMMA HeadBoth ==
  ASSUME TypeOK, TypeOK'
  PROVE  /\ HeadIsWhole <=> lane = <<>> \/ Blocks # <<>>
         /\ HeadIsWhole' <=> lane' = <<>> \/ Blocks' # <<>>
         /\ Blocks \in Seq(BlockType) /\ Blocks' \in Seq(BlockType)
         /\ target \in Nat /\ target' \in Nat
<1>1. lane \in Seq(ItemType) /\ lane' \in Seq(ItemType)
  BY DEF TypeOK, ItemType
<1>2. Blocks = BlocksOf(lane) /\ Blocks' = BlocksOf(lane')
  BY BlocksAre
<1>3. HeadIsWhole <=> lane = <<>> \/ Blocks # <<>>
  BY <1>1, <1>2, HeadIs DEF HeadIsWhole
<1>4. HeadIsWhole' <=> lane' = <<>> \/ Blocks' # <<>>
  BY <1>1, <1>2, HeadIs DEF HeadIsWhole
<1>5. Blocks \in Seq(BlockType) /\ Blocks' \in Seq(BlockType)
  BY <1>1, <1>2, ValidBlocks DEF IsValid
<1>6. target \in Nat /\ target' \in Nat
  BY SelfPlayAssumption DEF TypeOK
<1> QED BY <1>3, <1>4, <1>5, <1>6

\* A lane that ends cut.
LEMMA EndsCutIs ==
  ASSUME TypeOK
  PROVE  EndsCut <=> Blocks # <<>> /\ Blocks[Len(Blocks)].fens # All(Blocks, Len(Blocks))
<1> DEFINE B == Blocks
           n == Len(B)
<1>1. B \in Seq(BlockType) /\ n \in Nat /\ (B = <<>> <=> n = 0)
  BY LaneTypes, LaneSets
<1>2. ASSUME B # <<>> PROVE FensOf(Front(B)) = Seen(B, n) /\ Last(B) = B[n]
  <2>1. n - 1 \in 0 .. n /\ n - 1 + 1 = n
    BY <1>1, <1>2
  <2>2. Front(B) = SubSeq(B, 1, n - 1)
    BY DEF Front
  <2>3. FensOf(SubSeq(B, 1, n - 1)) = Seen(B, n - 1 + 1)
    BY <1>1, <2>1, CutSets
  <2> QED BY <2>1, <2>2, <2>3 DEF Last
<1> QED BY <1>2 DEF EndsCut, All

\* No block ends above the positions of the lane.
LEMMA CountAbove ==
  ASSUME NEW B \in Seq(BlockType), Contiguous(B), NEW i \in 1 .. Len(B)
  PROVE  End(B[i]) <= Count(B) /\ Count(SubSeq(B, 1, i - 1)) = B[i].start
         /\ B[i].start <= End(B[i])
<1>1. Len(B) \in Nat /\ Len(B) \in 1 .. Len(B) /\ Count(B) = End(B[Len(B)])
  BY LaneSets
<1>2. \A j \in 1 .. Len(B) : End(B[j]) \in Nat /\ B[j].start \in Nat /\ B[j].start <= End(B[j])
  <2> SUFFICES ASSUME NEW j \in 1 .. Len(B)
               PROVE  End(B[j]) \in Nat /\ B[j].start \in Nat /\ B[j].start <= End(B[j])
    OBVIOUS
  <2>1. B[j].start \in Nat /\ Len(B[j].fens) \in Nat
    BY LaneSets, BlockFields
  <2> QED BY <2>1 DEF End
<1>3. End(B[i]) <= Count(B)
  <2>1. CASE i = Len(B)
    BY <1>1, <1>2, <2>1
  <2>2. CASE i # Len(B)
    <3>1. i < Len(B)
      BY <1>1, <2>2
    <3>2. End(B[i]) <= B[Len(B)].start
      BY <1>1, <3>1 DEF Contiguous
    <3> QED BY <1>1, <1>2, <3>2
  <2> QED BY <2>1, <2>2
<1>4. Count(SubSeq(B, 1, i - 1)) = B[i].start
  <2>1. i - 1 \in 0 .. Len(B)
    BY <1>1
  <2>2. Count(SubSeq(B, 1, i - 1)) = IF i - 1 = 0 THEN 0 ELSE End(B[i - 1])
    BY <2>1, CutSets
  <2>3. CASE i = 1
    <3>1. B # <<>>
      BY <1>1, LaneSets
    <3> QED BY <2>2, <2>3, <3>1 DEF Contiguous
  <2>4. CASE i # 1
    <3>1. i \in 2 .. Len(B)
      BY <1>1, <2>4
    <3> QED BY <2>2, <3>1 DEF Contiguous
  <2> QED BY <2>3, <2>4
<1> QED BY <1>2, <1>3, <1>4

LEMMA CutCount ==
  ASSUME NEW B \in Seq(BlockType), Contiguous(B), NEW k \in 0 .. Len(B)
  PROVE  Count(SubSeq(B, 1, k)) <= Count(B)
<1>1. Count(SubSeq(B, 1, k)) = IF k = 0 THEN 0 ELSE End(B[k])
  BY CutSets
<1>2. Count(B) \in Nat
  BY LaneSets
<1>3. CASE k = 0
  BY <1>1, <1>2, <1>3
<1>4. CASE k # 0
  <2>1. k \in 1 .. Len(B)
    BY <1>4
  <2> QED BY <1>1, <1>4, <2>1, CountAbove
<1> QED BY <1>3, <1>4

\* A game that the lane is past, and that it does not hold, adds nothing.
LEMMA PassedAddsNothing ==
  ASSUME NEW B \in Seq(BlockType), Grown(B), NEW g \in Games, g \notin Ids(B),
         NEW h \in Ids(B), g < h
  PROVE  \E i \in 1 .. Len(B) :
           /\ Survivors(g, Seen(B, i)) = <<>>
           /\ \A j \in 1 .. Len(B) : B[j].game < g <=> j < i
<1> DEFINE n == Len(B)
           S == {i \in 1 .. n : g < B[i].game}
<1>1. /\ n \in Nat /\ Ids(B) = {B[i].game : i \in 1 .. n}
      /\ \A i \in 1 .. n : B[i].game \in Games
  BY LaneSets, BlockFields
<1>2. Games \subseteq Nat
  BY GamesFinite
<1> HIDE DEF n
<1>3. S # {} /\ S \in SUBSET (1 .. n)
  BY <1>1
<1>4. IsFiniteSet(S) /\ S \in SUBSET Int
  <2>1. IsFiniteSet(1 .. n) /\ 1 .. n \subseteq Int
    BY <1>1, FS_Interval
  <2> HIDE DEF S
  <2> QED BY <1>3, <2>1, FS_Subset
<1>5. PICK i \in S : \A j \in S : i <= j
  <2> HIDE DEF S
  <2> QED BY <1>3, <1>4, Extremes
<1>6. i \in 1 .. n /\ g < B[i].game
  BY <1>5
<1>7. \A j \in 1 .. n : B[j].game # g
  BY <1>1
<1>8. ASSUME NEW j \in 1 .. n PROVE B[j].game < g <=> j < i
  <2>1. B[j].game \in Nat /\ g \in Nat
    BY <1>1, <1>2
  <2>2. CASE j < i
    <3>1. j \notin S
      BY <1>1, <1>5, <1>6, <2>2
    <3>2. ~(g < B[j].game)
      BY <3>1
    <3> QED BY <1>7, <2>1, <2>2, <3>2
  <2>3. CASE j = i
    <3>1. ~(B[j].game < g)
      BY <1>6, <2>1, <2>3
    <3> QED BY <1>6, <2>3, <3>1
  <2>4. CASE i < j
    <3>1. B[i].game < B[j].game
      BY <1>6, <2>4 DEF Grown, n
    <3>2. B[i].game \in Nat
      BY <1>1, <1>2, <1>6
    <3>3. ~(B[j].game < g) /\ ~(j < i)
      BY <1>1, <1>6, <2>1, <2>4, <3>1, <3>2
    <3> QED BY <3>3
  <2> QED BY <1>6, <2>2, <2>3, <2>4
<1>9. i > 1 => B[i - 1].game < g
  <2> SUFFICES ASSUME i > 1 PROVE B[i - 1].game < g
    OBVIOUS
  <2>1. i - 1 \in 1 .. n /\ i - 1 < i
    BY <1>1, <1>6
  <2> QED BY <1>8, <2>1
<1>10. Survivors(g, Seen(B, i)) = <<>>
  BY <1>6, <1>9 DEF Grown, n
<1> QED BY <1>6, <1>8, <1>10 DEF n

\* What is settled stays settled when the lane grows.
LEMMA SettledAppend ==
  ASSUME NEW B \in Seq(BlockType), NEW b \in BlockType, NEW g \in Games,
         b.start = Count(B), Settled(B, g), target \in Nat
  PROVE  Settled(Append(B, b), g)
<1> DEFINE C == Append(B, b)
<1>1. /\ Ids(C) = Ids(B) \cup {b.game} /\ FensOf(C) = FensOf(B) \cup ToSet(b.fens)
      /\ Count(C) = End(b) /\ C \in Seq(BlockType)
  BY AppendedLane
<1>2. FensOf(B) \subseteq Fens /\ FensOf(C) \subseteq Fens /\ Count(B) \in Nat
  BY <1>1, LaneSets
<1> HIDE DEF C
<1>3. CASE \E h \in Ids(B) : g <= h
  BY <1>1, <1>3 DEF Settled, C
<1>4. CASE Survivors(g, FensOf(B)) = <<>>
  <2>1. g \in 0 .. NGames
    BY GamesFinite DEF Games
  <2>2. Survivors(g, FensOf(C)) = <<>>
    BY <1>1, <1>2, <1>4, <2>1, SurvivorsAre
  <2> QED BY <2>2 DEF Settled, C
<1>5. CASE Count(B) >= target
  <2>1. Len(b.fens) \in Nat
    BY BlockFields
  <2>2. Count(C) >= target
    BY <1>1, <1>2, <1>5, <2>1 DEF End
  <2> QED BY <2>2 DEF Settled, C
<1> QED BY <1>3, <1>4, <1>5 DEF Settled

LEMMA SameLane ==
  ASSUME Blocks' = Blocks, target' = target
  PROVE  /\ EndsWell(Blocks)' <=> EndsWell(Blocks)
         /\ \A g \in Games : Settled(Blocks, g)' <=> Settled(Blocks, g)
BY DEF EndsWell, Settled

\* A step that leaves the lane, and what was read of it, alone.
LEMMA LaneFrame ==
  ASSUME TypeOK, TypeOK', LaneInv,
         UNCHANGED <<lane, checkpoint, manifest, phase, target, rest, next,
                     committedAtResume, fen_set, committed, blind>>,
         \/ cpc' = cpc \/ cpc' = "failed"
         \/ /\ cpc \in {"top", "missing", "garbage", "saved"}
            /\ cpc' \in {"top", "missing", "garbage", "found", "done"}
  PROVE  LaneInv'
<1>1. Blocks' = Blocks /\ (HeadIsWhole' <=> HeadIsWhole)
  <2>1. Blocks' = Blocks
    BY BlocksAre
  <2> QED BY <2>1, HeadBoth
<1>2. ContigInv'
  BY <1>1 DEF ContigInv, LaneInv
<1>3. CommitterInv'
  BY <1>1 DEF CommitterInv, LaneInv
<1>4. Sound' <=> Sound
  BY <1>1 DEF Sound
<1>5. GrownInv'
  <2>1. DropsCutGame' <=> DropsCutGame
    BY <1>1 DEF DropsCutGame
  <2> QED BY <1>1, <1>4, <2>1, SameLane DEF GrownInv, LaneInv
<1>6. SettledInv'
  <2>1. CheckpointCounts' <=> CheckpointCounts
    BY DEF CheckpointCounts, ExtendPending
  <2>2. cpc' = "committed" => cpc = "committed"
    OBVIOUS
  <2> SUFFICES ASSUME Sound'
               PROVE  /\ CheckpointCounts /\ checkpoint # None =>
                           \A g \in Games : g < checkpoint => Settled(Blocks, g)'
                      /\ phase = "up" =>
                           /\ \A g \in Games : g < next => Settled(Blocks, g)'
                           /\ cpc' = "committed" => Settled(Blocks, next)'
    BY <2>1 DEF SettledInv
  <2>3. /\ CheckpointCounts /\ checkpoint # None =>
             \A g \in Games : g < checkpoint => Settled(Blocks, g)
        /\ phase = "up" =>
             /\ \A g \in Games : g < next => Settled(Blocks, g)
             /\ cpc = "committed" => Settled(Blocks, next)
    BY <1>4 DEF SettledInv, LaneInv
  <2>4. Settled(Blocks, next)' <=> Settled(Blocks, next)
    BY <1>1 DEF Settled
  <2> QED BY <1>1, <2>2, <2>3, <2>4, SameLane
<1> QED BY <1>2, <1>3, <1>5, <1>6 DEF LaneInv

LEMMA LaneFrames ==
  ASSUME TypeOK, TypeOK', LaneInv,
         \/ \E w \in Workers : WorkerNext(w) \/ WriteFails(w)
         \/ ConsumerExits \/ Probe \/ Wait \/ RejectDamaged \/ Unlink
         \/ Interrupt \/ Damage \/ UNCHANGED vars
  PROVE  LaneInv'
<1>1. ASSUME NEW w \in Workers, WorkerNext(w) \/ WriteFails(w) PROVE LaneInv'
  <2>1. UNCHANGED <<lane, checkpoint, manifest, phase, target, rest, next, cpc,
                    committedAtResume, fen_set, committed, blind>>
    BY <1>1 DEF WorkerNext, WriteFails, Claim, Leave, Play, DropGame, WritePending,
           NotifyCompleted, Break, WorkerGoes, command, committer
  <2> QED BY <2>1, LaneFrame
<1>2. CASE ConsumerExits \/ Probe \/ Wait \/ RejectDamaged \/ Unlink
  <2>1. UNCHANGED <<lane, checkpoint, manifest, phase, target, rest, next,
                    committedAtResume, fen_set, committed, blind>>
    BY <1>2 DEF ConsumerExits, Probe, Wait, RejectDamaged, Unlink, ConsumerGoes, command, committer
  <2>2. /\ cpc \in {"top", "missing", "garbage", "saved"}
        /\ cpc' \in {"top", "missing", "garbage", "found", "failed", "done"}
    BY <1>2 DEF ConsumerExits, Probe, Wait, RejectDamaged, Unlink, ConsumerGoes
  <2> QED BY <2>1, <2>2, LaneFrame
<1>3. CASE Interrupt \/ Damage \/ UNCHANGED vars
  <2>1. UNCHANGED <<lane, checkpoint, manifest, phase, target, rest, next, cpc,
                    committedAtResume, fen_set, committed, blind>>
    BY <1>3 DEF Interrupt, Damage, vars, disk, command, committer, history
  <2> QED BY <2>1, LaneFrame
<1> QED BY <1>1, <1>2, <1>3

\* The start of a command.
LEMMA LaneStart ==
  ASSUME TypeOK, TypeOK', PhaseInv, LaneInv, NEW t \in Targets, Start(t)
  PROVE  LaneInv'
<1>1. /\ phase \in Ended /\ target' = t /\ manifest' = manifest /\ checkpoint' = checkpoint
      /\ lane' = lane /\ rest' = rest
      /\ t = target \/ (phase \in {"returned", "truncated"} /\ t > target)
  BY DEF Start, disk
<1> DEFINE extends == manifest.target # None /\ t > manifest.target
<1>2. /\ phase' = IF extends THEN "extending" ELSE "resuming"
      /\ blind' = (blind \/ (EndsCut /\ Count(Blocks) < t /\ ~(extends /\ DropsCutGame)))
  BY DEF Start
<1>3. Blocks' = Blocks /\ target \in Nat /\ t \in Nat /\ Blocks \in Seq(BlockType)
      /\ (HeadIsWhole' <=> HeadIsWhole)
  <2>1. Blocks' = Blocks
    BY <1>1, BlocksAre
  <2> QED BY <1>1, <2>1, HeadBoth
<1>4. rest = None
  BY <1>1 DEF PhaseInv, Ended
<1>5. ContigInv'
  BY <1>1, <1>3, <1>4 DEF ContigInv, LaneInv
<1>6. CommitterInv'
  BY <1>2 DEF CommitterInv
<1>7. Count(Blocks) \in Nat
  BY LaneTypes
<1>8. GrownInv'
  <2> SUFFICES ASSUME Sound' PROVE GrownInv'
    BY DEF GrownInv
  <2>1. Sound /\ ~(EndsCut /\ Count(Blocks) < t /\ ~(extends /\ DropsCutGame))
    BY <1>2, <1>3 DEF Sound
  <2>2. Grown(Blocks) /\ Count(Blocks) <= target
    BY <2>1 DEF GrownInv, LaneInv
  <2>3. Count(Blocks) <= t
    BY <1>1, <1>3, <1>7, <2>2
  <2>4. EndsWell(Blocks)' \/ (extends /\ DropsCutGame)
    <3>1. CASE ~EndsCut
      BY <1>3, <3>1, EndsCutIs DEF EndsWell
    <3>2. CASE ~(Count(Blocks) < t)
      BY <1>1, <1>3, <1>7, <3>2 DEF EndsWell
    <3> QED BY <2>1, <3>1, <3>2
  <2>5. DropsCutGame' <=> DropsCutGame
    BY <1>1, <1>3 DEF DropsCutGame
  <2>6. phase' = "resuming" => EndsWell(Blocks)'
    BY <1>2, <2>4
  <2>7. phase' = "extending" => EndsWell(Blocks)' \/ DropsCutGame'
    BY <2>4, <2>5
  <2> QED BY <1>1, <1>2, <1>3, <1>4, <2>2, <2>3, <2>6, <2>7 DEF GrownInv
<1>9. SettledInv'
  <2> SUFFICES ASSUME Sound', CheckpointCounts', checkpoint # None, NEW g \in Games, g < checkpoint
               PROVE  Settled(Blocks, g)'
    BY <1>1, <1>2 DEF SettledInv
  <2>1. Sound
    BY <1>2, <1>3 DEF Sound
  <2>2. ~extends
    BY <1>2 DEF CheckpointCounts
  <2>3. t = target
    <3>1. phase # "truncated"
      BY DEF PhaseInv
    <3>2. ASSUME phase = "returned", t > target PROVE FALSE
      <4>1. manifest.target = target
        BY <3>2 DEF PhaseInv
      <4>2. target # None
        BY <1>3, SelfPlayAssumption
      <4> QED BY <2>2, <3>2, <4>1, <4>2
    <3> QED BY <1>1, <3>1, <3>2
  <2>4. CheckpointCounts
    <3>1. phase \in {"down", "failed", "returned"}
      BY <1>1 DEF PhaseInv, Ended
    <3>2. ~ExtendPending
      BY <2>2, <2>3, <1>3 DEF ExtendPending, TypeOK
    <3> QED BY <3>1, <3>2 DEF CheckpointCounts
  <2>5. Settled(Blocks, g)
    BY <2>1, <2>4 DEF SettledInv, LaneInv
  <2> QED BY <1>1, <1>3, <2>3, <2>5, SameLane
<1> QED BY <1>5, <1>6, <1>8, <1>9 DEF LaneInv

\* An extend drops the block that was cut off at the old target.
LEMMA LaneDropBoundary ==
  ASSUME TypeOK, TypeOK', PhaseInv, LaneInv, DropBoundary
  PROVE  LaneInv'
<1>1. /\ phase = "extending" /\ phase' = "forgetting" /\ target' = target /\ blind' = blind
      /\ lane' = IF manifest.offset = None THEN lane ELSE TruncatedAt(manifest.offset)
      /\ rest' = rest
  BY DEF DropBoundary, command, history
<1>2. rest = None
  BY <1>1 DEF PhaseInv
<1>3. /\ lane \in Seq(ItemType) /\ Blocks \in Seq(BlockType) /\ Blocks = BlocksOf(lane)
      /\ Blocks' = BlocksOf(lane') /\ Len(Blocks) <= Len(lane)
  BY LaneTypes, BlocksAre DEF IsValid
<1>4. Len(lane) \in Nat /\ Len(Blocks) \in Nat
  BY <1>3, LaneSets, LenProperties
<1>5. \/ Blocks' = Blocks /\ ~DropsCutGame
      \/ \E k \in 0 .. Len(Blocks) - 1 : Blocks' = SubSeq(Blocks, 1, k)
  <2>1. CASE manifest.offset = None
    BY <1>1, <1>3, <2>1 DEF DropsCutGame
  <2>2. CASE manifest.offset # None /\ manifest.offset < Len(lane)
    <3>1. PICK k \in Nat : k = manifest.offset
      BY <2>2 DEF TypeOK
    <3>2. lane' = SubSeq(lane, 1, k) /\ k \in 0 .. Len(lane)
      BY <1>1, <1>4, <2>2, <3>1 DEF TruncatedAt
    <3>3. Blocks' = IF k <= Len(Blocks) THEN SubSeq(Blocks, 1, k) ELSE Blocks
      BY <1>3, <3>2, BlocksOfCut
    <3>4. CASE k < Len(Blocks)
      <4>1. k \in 0 .. Len(Blocks) - 1
        BY <1>4, <3>4
      <4> QED BY <3>2, <3>3, <3>4, <4>1
    <3>5. CASE ~(k < Len(Blocks))
      <4>1. Blocks' = Blocks
        <5>1. CASE k = Len(Blocks)
          <6>1. k \in 0 .. Len(Blocks)
            BY <1>4, <5>1
          <6>2. SubSeq(Blocks, 1, k) = Blocks
            <7>1. /\ SubSeq(Blocks, 1, k) \in Seq(BlockType) /\ Len(SubSeq(Blocks, 1, k)) = k
                  /\ \A i \in 1 .. k : SubSeq(Blocks, 1, k)[i] = Blocks[i]
              BY <1>3, <6>1, CutSeq
            <7> QED BY <1>3, <5>1, <7>1, SeqEqual
          <6> QED BY <3>3, <5>1, <6>1, <6>2
        <5>2. CASE k > Len(Blocks)
          BY <1>4, <3>1, <3>3, <5>2
        <5> QED BY <1>4, <3>1, <3>5, <5>1, <5>2
      <4>2. ~DropsCutGame
        BY <1>4, <3>1, <3>5 DEF DropsCutGame
      <4> QED BY <4>1, <4>2
    <3> QED BY <3>4, <3>5
  <2>3. CASE manifest.offset # None /\ ~(manifest.offset < Len(lane))
    <3>1. lane' = lane \/ lane' = Append(lane, Torn)
      BY <1>1, <2>3 DEF TruncatedAt
    <3>2. Blocks' = Blocks
      BY <1>3, <3>1, BlocksOfTorn
    <3>3. ~DropsCutGame
      <4>1. manifest.offset \in Nat
        BY <2>3 DEF TypeOK
      <4> QED BY <1>3, <1>4, <2>3, <4>1 DEF DropsCutGame
    <3> QED BY <3>1, <3>2, <3>3
  <2> QED BY <2>1, <2>2, <2>3
<1>6. PICK k \in 0 .. Len(Blocks) :
        /\ Blocks' = SubSeq(Blocks, 1, k)
        /\ k < Len(Blocks) \/ (k = Len(Blocks) /\ Blocks' = Blocks /\ ~DropsCutGame)
  <2>1. Blocks = SubSeq(Blocks, 1, Len(Blocks)) /\ Len(Blocks) \in 0 .. Len(Blocks)
    <3>1. Len(Blocks) \in 0 .. Len(Blocks)
      BY <1>4
    <3>2. /\ SubSeq(Blocks, 1, Len(Blocks)) \in Seq(BlockType)
          /\ Len(SubSeq(Blocks, 1, Len(Blocks))) = Len(Blocks)
          /\ \A i \in 1 .. Len(Blocks) : SubSeq(Blocks, 1, Len(Blocks))[i] = Blocks[i]
      BY <1>3, <3>1, CutSeq
    <3> QED BY <1>3, <3>1, <3>2, SeqEqual
  <2>2. CASE Blocks' = Blocks /\ ~DropsCutGame
    BY <2>1, <2>2
  <2>3. CASE \E k \in 0 .. Len(Blocks) - 1 : Blocks' = SubSeq(Blocks, 1, k)
    <3>1. PICK k \in 0 .. Len(Blocks) - 1 : Blocks' = SubSeq(Blocks, 1, k)
      BY <2>3
    <3>2. k \in 0 .. Len(Blocks) /\ k < Len(Blocks)
      BY <1>4
    <3> QED BY <3>1, <3>2
  <2> QED BY <1>5, <2>2, <2>3
<1>7. Blocks' = <<>> \/ (HeadIsWhole' => HeadIsWhole)
  BY <1>6, HeadBoth, CutSets, LaneSets
<1>8. ContigInv'
  <2>1. Contiguous(Blocks')
    BY <1>3, <1>6, ContiguousCut DEF ContigInv, LaneInv
  <2> QED BY <1>1, <1>2, <2>1 DEF ContigInv
<1>9. CommitterInv'
  BY <1>1 DEF CommitterInv
<1>10. GrownInv'
  <2> SUFFICES ASSUME Sound' PROVE GrownInv'
    BY DEF GrownInv
  <2>1. Grown(Blocks') /\ Count(Blocks') <= target /\ EndsWell(Blocks)'
    <3>1. CASE Blocks' = <<>>
      <4>1. <<>> \in Seq(BlockType) /\ Len(<<>>) = 0
        OBVIOUS
      <4>2. Grown(<<>>)
        BY <4>1 DEF Grown
      <4>3. Count(<<>>) <= target
        BY HeadBoth DEF Count
      <4> QED BY <3>1, <4>2, <4>3 DEF EndsWell
    <3>2. CASE Blocks' # <<>>
      <4>1. Sound
        BY <1>1, <1>7, <3>2 DEF Sound
      <4>2. Grown(Blocks) /\ Count(Blocks) <= target /\ (EndsWell(Blocks) \/ DropsCutGame)
        BY <1>1, <4>1 DEF GrownInv, LaneInv
      <4>3. Grown(Blocks')
        BY <1>3, <1>6, <4>2, GrownCut
      <4>4. Count(Blocks') <= target
        <5>1. Contiguous(Blocks)
          BY DEF ContigInv, LaneInv
        <5>2. Count(Blocks') <= Count(Blocks)
          BY <1>3, <1>6, <5>1, CutCount
        <5>3. Count(Blocks') \in Nat /\ Count(Blocks) \in Nat /\ target \in Nat
          BY HeadBoth, LaneSets
        <5> QED BY <4>2, <5>2, <5>3
      <4>5. EndsWell(Blocks)'
        <5>1. CASE k < Len(Blocks)
          <6>1. Len(Blocks') = k /\ Blocks'[k].fens = All(Blocks', k)
            BY <1>3, <1>6, <3>2, <4>2, <5>1, GrownCut
          <6> QED BY <6>1 DEF EndsWell
        <5>2. CASE Blocks' = Blocks /\ ~DropsCutGame
          BY <1>1, <4>2, <5>2, SameLane
        <5> QED BY <1>6, <5>1, <5>2
      <4> QED BY <4>3, <4>4, <4>5
    <3> QED BY <3>1, <3>2
  <2> QED BY <1>1, <1>2, <2>1 DEF GrownInv
<1>11. SettledInv'
  BY <1>1 DEF SettledInv, CheckpointCounts
<1> QED BY <1>8, <1>9, <1>10, <1>11 DEF LaneInv

LEMMA LaneResume ==
  ASSUME TypeOK, TypeOK', PhaseInv, LaneInv, Resume
  PROVE  LaneInv'
<1>1. /\ phase = "resuming" /\ phase' = "up" /\ cpc' = "top" /\ next' = Cursor
      /\ lane' = TruncatedToValid /\ committedAtResume' = Ids(Blocks)
      /\ fen_set' = FensOf(Blocks) /\ committed' = Count(Blocks)
      /\ UNCHANGED <<checkpoint, manifest, target, rest, blind>>
  BY DEF Resume, command
<1>2. rest = None
  BY <1>1 DEF PhaseInv
<1>3. lane \in Seq(ItemType) /\ Blocks \in Seq(BlockType) /\ Blocks = BlocksOf(lane)
  BY LaneTypes
<1>4. Blocks' = Blocks
  BY <1>1, <1>3, BlocksAre, BlocksOfBlocks DEF TruncatedToValid
<1>5. HeadIsWhole' => HeadIsWhole
  BY <1>1, <1>4, HeadBoth DEF TruncatedToValid
<1>6. HeadIsWhole' => lane' = Blocks
  BY <1>1, <1>4, HeadBoth DEF TruncatedToValid
<1>7. ContigInv'
  BY <1>1, <1>2, <1>4 DEF ContigInv, LaneInv
<1>8. CommitterInv'
  BY <1>1, <1>4, <1>6 DEF CommitterInv
<1>9. Sound' => Sound
  BY <1>1, <1>5 DEF Sound
<1>10. GrownInv'
  <2>1. Sound => Grown(Blocks) /\ Count(Blocks) <= target /\ EndsWell(Blocks)
    BY <1>1 DEF GrownInv, LaneInv
  <2> QED BY <1>1, <1>2, <1>4, <1>9, <2>1, SameLane DEF GrownInv
<1>11. SettledInv'
  <2> SUFFICES ASSUME Sound
               PROVE  /\ checkpoint # None =>
                           \A g \in Games : g < checkpoint => Settled(Blocks, g)'
                      /\ \A g \in Games : g < Cursor => Settled(Blocks, g)'
    BY <1>1, <1>9 DEF SettledInv
  <2>1. CheckpointCounts
    BY <1>1 DEF CheckpointCounts, ExtendPending
  <2>2. checkpoint # None => \A g \in Games : g < checkpoint => Settled(Blocks, g)'
    BY <1>1, <1>4, <2>1, SameLane DEF SettledInv, LaneInv
  <2>3. ASSUME NEW g \in Games, g < Cursor PROVE Settled(Blocks, g)'
    <3>1. CASE checkpoint # None
      BY <2>2, <2>3, <3>1, ResumesAt
    <3>2. CASE checkpoint = None
      <4>1. Cursor \in Nat /\ g \in Nat /\ 0 .. Cursor - 1 \subseteq Ids(Blocks)
        BY <3>2, ResumesAt, GamesFinite
      <4>2. g \in Ids(Blocks)
        BY <2>3, <4>1
      <4>3. Settled(Blocks, g)
        BY <4>1, <4>2 DEF Settled
      <4> QED BY <1>1, <1>4, <4>3, SameLane
    <3> QED BY <3>1, <3>2
  <2> QED BY <2>2, <2>3
<1> QED BY <1>7, <1>8, <1>10, <1>11 DEF LaneInv

\* The checkpoint is dropped, and a run ends.
LEMMA LaneForget ==
  ASSUME TypeOK, TypeOK', PhaseInv, LaneInv,
         ForgetCheckpoint \/ RemoveCheckpoint \/ Join
  PROVE  LaneInv'
<1>1. UNCHANGED <<lane, target, rest, blind>>
  BY DEF ForgetCheckpoint, RemoveCheckpoint, Join, Return, Fail, command, disk, history
<1>2. \/ phase = "forgetting" /\ phase' = "resuming" /\ checkpoint' = None
      \/ phase = "unchecking" /\ phase' = "truncated"
      \/ phase = "up" /\ phase' \in {"returned", "failed"} /\ checkpoint' = checkpoint
  BY DEF ForgetCheckpoint, RemoveCheckpoint, Join, Joined, Return, Fail,
         CheckpointOnExtend, disk
<1>3. Blocks' = Blocks /\ (Sound' <=> Sound)
  <2>1. Blocks' = Blocks
    BY <1>1, BlocksAre
  <2> QED BY <1>1, <2>1, HeadBoth DEF Sound
<1>4. rest = None
  BY <1>2 DEF PhaseInv
<1>5. ContigInv'
  BY <1>1, <1>3, <1>4 DEF ContigInv, LaneInv
<1>6. CommitterInv'
  BY <1>2 DEF CommitterInv
<1>7. GrownInv'
  BY <1>1, <1>2, <1>3, <1>4, SameLane DEF GrownInv, LaneInv
<1>8. SettledInv'
  <2>1. CASE phase # "up"
    BY <1>2, <2>1 DEF SettledInv, CheckpointCounts
  <2>2. CASE phase = "up"
    <3>1. CheckpointCounts
      BY <2>2 DEF CheckpointCounts, ExtendPending
    <3>2. Sound /\ checkpoint # None => \A g \in Games : g < checkpoint => Settled(Blocks, g)
      BY <3>1 DEF SettledInv, LaneInv
    <3> QED BY <1>1, <1>2, <1>3, <2>2, <3>2, SameLane DEF SettledInv
  <2> QED BY <2>1, <2>2
<1> QED BY <1>5, <1>6, <1>7, <1>8 DEF LaneInv

\* A truncate.
LEMMA LaneCut ==
  ASSUME TypeOK, TypeOK', PhaseInv, LaneInv, NEW cap \in Caps, CutLane(cap)
  PROVE  LaneInv'
<1> DEFINE n == Len(Blocks)
<1>1. /\ cap \in Nat /\ cap # 0 /\ target \in Nat /\ Blocks \in Seq(BlockType) /\ n \in Nat
      /\ Blocks' \in Seq(BlockType)
  BY SelfPlayAssumption, HeadBoth, LaneSets
<1>2. Contiguous(Blocks)
  BY DEF ContigInv, LaneInv
<1>3. PICK k \in 0 .. n : /\ k = Fitting(cap)
                          /\ \A i \in 1 .. n : i <= k <=> End(Blocks[i]) <= cap
  BY <1>1, <1>2, FittingIs
<1>4. /\ phase' = "truncating" /\ blind' = blind /\ checkpoint' = checkpoint
      /\ target' = IF target <= cap THEN target ELSE cap
      /\ lane' = IF k < n THEN SubSeq(Blocks, 1, k) ELSE lane
      /\ rest' = IF k < n /\ Blocks[k + 1].start < cap
                 THEN [Blocks[k + 1] EXCEPT !.fens = SubSeq(@, 1, cap - Blocks[k + 1].start)]
                 ELSE None
  BY <1>1, <1>3, MinMaxOfTwo DEF CutLane
<1>5. Blocks' = SubSeq(Blocks, 1, k) /\ (k < n => lane' = Blocks') /\ (k < n => HeadIsWhole)
      /\ (k = n => lane' = lane /\ Blocks' = Blocks)
  <2>1. CASE k < n
    <3>1. SubSeq(Blocks, 1, k) \in Seq(BlockType)
      BY <1>1, CutSets
    <3>2. Blocks # <<>>
      BY <1>1, <2>1, LaneSets
    <3>3. lane' = SubSeq(Blocks, 1, k)
      BY <1>4, <2>1
    <3>4. Blocks' = SubSeq(Blocks, 1, k)
      BY <3>1, <3>3, BlocksAre, BlocksOfBlocks
    <3>5. HeadIsWhole /\ k # n
      BY <1>1, <2>1, <3>2, HeadBoth
    <3> QED BY <3>3, <3>4, <3>5
  <2>2. CASE k = n
    <3>1. Blocks' = Blocks /\ lane' = lane
      BY <1>4, <2>2, BlocksAre
    <3>2. /\ SubSeq(Blocks, 1, n) \in Seq(BlockType) /\ Len(SubSeq(Blocks, 1, n)) = n
          /\ \A i \in 1 .. n : SubSeq(Blocks, 1, n)[i] = Blocks[i]
      BY <1>1, <2>2, CutSeq
    <3>3. SubSeq(Blocks, 1, n) = Blocks
      BY <1>1, <3>2, SeqEqual
    <3> QED BY <2>2, <3>1, <3>3
  <2> QED BY <1>1, <2>1, <2>2
<1>6. Sound' => Sound
  <2>1. k = n => (HeadIsWhole' <=> HeadIsWhole)
    BY <1>5, HeadBoth
  <2> QED BY <1>1, <1>4, <1>5, <2>1 DEF Sound
<1>7. Count(Blocks') <= cap /\ Count(Blocks') <= Count(Blocks)
      /\ Count(Blocks') \in Nat /\ Count(Blocks) \in Nat
  <2>1. Count(Blocks') = IF k = 0 THEN 0 ELSE End(Blocks[k])
    BY <1>1, <1>5, CutSets
  <2>2. k # 0 => k \in 1 .. n /\ k <= k
    BY <1>1
  <2>3. Count(Blocks') <= cap
    BY <1>1, <1>3, <2>1, <2>2
  <2>4. Count(Blocks') <= Count(Blocks)
    BY <1>1, <1>2, <1>5, CutCount
  <2> QED BY <1>1, <2>3, <2>4, LaneSets
<1>8. ASSUME rest' # None
      PROVE  /\ k < n /\ rest' \in BlockType /\ rest'.start = Count(Blocks')
             /\ rest'.game = Blocks[k + 1].game /\ k + 1 \in 1 .. n
             /\ Len(rest'.fens) > 0 /\ Prefix(rest'.fens, Blocks[k + 1].fens)
             /\ End(rest') = cap /\ cap < Count(Blocks)
  <2>1. k < n /\ k + 1 \in 1 .. n
    BY <1>1, <1>4, <1>8
  <2>2. PICK b \in BlockType : b = Blocks[k + 1]
    BY <1>1, <2>1, LaneSets
  <2>3. b.start < cap /\ rest' = [b EXCEPT !.fens = SubSeq(@, 1, cap - b.start)]
    BY <1>4, <1>8, <2>2
  <2>4. b.game \in Games /\ b.start \in Nat /\ b.fens \in Seq(Fens) /\ Len(b.fens) \in Nat
    BY BlockFields
  <2>5. ~(End(b) <= cap)
    BY <1>1, <1>3, <2>1, <2>2
  <2>6. cap - b.start \in 0 .. Len(b.fens) /\ cap - b.start > 0
    BY <1>1, <2>3, <2>4, <2>5 DEF End
  <2>7. PICK m \in 0 .. Len(b.fens) : m = cap - b.start
    BY <2>6
  <2>8. /\ SubSeq(b.fens, 1, m) \in Seq(Fens) /\ Len(SubSeq(b.fens, 1, m)) = m
        /\ \A i \in 1 .. m : SubSeq(b.fens, 1, m)[i] = b.fens[i]
    BY <2>4, CutSeq
  <2>9. /\ rest'.start = b.start /\ rest'.game = b.game
        /\ rest'.fens = SubSeq(b.fens, 1, m)
    BY <2>3, <2>7 DEF BlockType
  <2>10. rest' \in BlockType
    BY <1>8 DEF TypeOK
  <2>11. Prefix(rest'.fens, b.fens) /\ Len(rest'.fens) > 0 /\ End(rest') = cap
    <3>1. m \in Nat /\ m > 0 /\ m <= Len(b.fens) /\ b.start + m = cap
      BY <1>1, <2>4, <2>6, <2>7
    <3>2. Len(rest'.fens) = m /\ \A i \in 1 .. m : rest'.fens[i] = b.fens[i]
      BY <2>8, <2>9
    <3> QED BY <2>9, <3>1, <3>2 DEF Prefix, End
  <2>12. b.start = Count(Blocks')
    <3>1. Count(SubSeq(Blocks, 1, k + 1 - 1)) = Blocks[k + 1].start
      BY <1>1, <1>2, <2>1, CountAbove
    <3>2. k + 1 - 1 = k
      BY <1>1
    <3> QED BY <1>5, <2>2, <3>1, <3>2
  <2>13. cap < Count(Blocks)
    <3>1. End(b) <= Count(Blocks)
      BY <1>1, <1>2, <2>1, <2>2, CountAbove
    <3>2. End(b) \in Nat
      BY BlockFields
    <3> QED BY <1>1, <1>7, <2>5, <3>1, <3>2
  <2> QED BY <2>1, <2>2, <2>9, <2>10, <2>11, <2>12, <2>13
<1>9. ContigInv'
  <2>1. Contiguous(Blocks')
    BY <1>1, <1>2, <1>5, ContiguousCut
  <2>2. rest' # None => lane' = Blocks' /\ Contiguous(Append(Blocks', rest'))
    BY <1>1, <1>5, <1>8, <2>1, ContiguousAppend
  <2> QED BY <2>1, <2>2 DEF ContigInv
<1>10. CommitterInv' /\ SettledInv'
  BY <1>4 DEF CommitterInv, SettledInv, CheckpointCounts
<1>11. GrownInv'
  <2> SUFFICES ASSUME Sound' PROVE GrownInv'
    BY DEF GrownInv
  <2>1. Grown(Blocks) /\ Count(Blocks) <= target
    BY <1>6 DEF GrownInv, LaneInv
  <2>2. /\ Grown(Blocks')
        /\ k < n => Blocks' = <<>> \/ (Len(Blocks') = k /\ Blocks'[k].fens = All(Blocks', k))
    BY <1>1, <1>5, <2>1, GrownCut
  <2>3. Count(Blocks') <= target'
    BY <1>1, <1>4, <1>7, <2>1
  <2>4. ASSUME rest' # None PROVE Grown(Append(Blocks', rest')) /\ End(rest') <= target'
    <3>1. target' = cap
      BY <1>1, <1>4, <1>7, <1>8, <2>1, <2>4
    <3>2. End(rest') <= target'
      BY <1>1, <1>8, <2>4, <3>1
    <3>3. PICK g \in Games : g = rest'.game
      BY <1>8, <2>4, BlockFields
    <3>4. /\ Ids(Blocks') = {Blocks[i].game : i \in 1 .. k}
          /\ FensOf(Blocks') = Seen(Blocks, k + 1)
      BY <1>1, <1>5, CutSets
    <3>5. ASSUME NEW i \in 1 .. k PROVE i \in 1 .. n /\ i < k + 1
      BY <1>1
    <3>6. \A h \in Ids(Blocks') : h < g
      <4> SUFFICES ASSUME NEW i \in 1 .. k PROVE Blocks[i].game < g
        BY <3>4
      <4>1. Blocks[i].game < Blocks[k + 1].game
        BY <1>8, <2>1, <2>4, <3>5 DEF Grown
      <4> QED BY <1>8, <2>4, <3>3, <4>1
    <3>7. Prefix(rest'.fens, Survivors(g, FensOf(Blocks')))
      <4>1. Prefix(Blocks[k + 1].fens, Survivors(g, FensOf(Blocks')))
        BY <1>8, <2>1, <2>4, <3>3, <3>4 DEF Grown, All
      <4>2. Prefix(rest'.fens, Blocks[k + 1].fens)
        BY <1>8, <2>4
      <4>3. Len(rest'.fens) \in Nat /\ Len(Blocks[k + 1].fens) \in Nat
        BY <1>1, <1>8, <2>4, LaneSets, BlockFields
      <4>4. Len(Survivors(g, FensOf(Blocks'))) \in Nat
        <5>1. g \in 0 .. NGames /\ FensOf(Blocks') \subseteq Fens
          BY <1>1, GamesFinite, LaneSets DEF Games
        <5> QED BY <5>1, SurvivorsAre
      <4>5. \A i \in 1 .. Len(rest'.fens) : i \in 1 .. Len(Blocks[k + 1].fens)
        BY <4>2, <4>3 DEF Prefix
      <4> QED BY <4>1, <4>2, <4>3, <4>4, <4>5 DEF Prefix
    <3>8. ASSUME NEW x \in Games, x < g, \A h \in Ids(Blocks') : h < x
          PROVE  Survivors(x, FensOf(Blocks')) = <<>>
      <4>1. k + 1 > 1 => Blocks[k + 1 - 1].game < x
        <5> SUFFICES ASSUME k + 1 > 1 PROVE Blocks[k + 1 - 1].game < x
          OBVIOUS
        <5>1. k \in 1 .. k /\ k + 1 - 1 = k
          BY <1>1
        <5> QED BY <3>4, <3>8, <5>1
      <4>2. x < Blocks[k + 1].game
        BY <1>8, <2>4, <3>3, <3>8
      <4> QED BY <1>8, <2>1, <2>4, <3>4, <4>1, <4>2 DEF Grown
    <3>9. Blocks' = <<>> \/ Blocks'[Len(Blocks')].fens = All(Blocks', Len(Blocks'))
      BY <1>8, <2>2, <2>4
    <3> QED BY <1>1, <1>8, <2>2, <2>4, <3>2, <3>3, <3>6, <3>7, <3>8, <3>9, GrownAppend
  <2> QED BY <1>4, <2>2, <2>3, <2>4 DEF GrownInv
<1> QED BY <1>9, <1>10, <1>11 DEF LaneInv

LEMMA LaneAppendPartial ==
  ASSUME TypeOK, TypeOK', PhaseInv, LaneInv, AppendPartial
  PROVE  LaneInv'
<1>1. /\ phase' = "unchecking" /\ rest' = None /\ target' = target /\ blind' = blind
      /\ lane' = IF rest = None THEN lane ELSE Append(lane, rest)
  BY DEF AppendPartial, history
<1>2. CommitterInv' /\ SettledInv'
  BY <1>1 DEF CommitterInv, SettledInv, CheckpointCounts
<1>3. CASE rest = None
  <2>1. Blocks' = Blocks /\ (HeadIsWhole' <=> HeadIsWhole)
    <3>1. Blocks' = Blocks
      BY <1>1, <1>3, BlocksAre
    <3> QED BY <1>1, <1>3, <3>1, HeadBoth
  <2>2. ContigInv'
    BY <1>1, <2>1 DEF ContigInv, LaneInv
  <2>3. GrownInv'
    BY <1>1, <2>1 DEF GrownInv, Sound, LaneInv
  <2> QED BY <1>2, <2>2, <2>3 DEF LaneInv
<1>4. CASE rest # None
  <2>1. /\ rest \in BlockType /\ lane = Blocks /\ Contiguous(Append(Blocks, rest))
    BY <1>4 DEF TypeOK, ContigInv, LaneInv
  <2>2. Blocks \in Seq(BlockType)
    BY LaneTypes
  <2>3. Append(Blocks, rest) \in Seq(BlockType) /\ Count(Append(Blocks, rest)) = End(rest)
    BY <2>1, <2>2, AppendedLane
  <2>4. Blocks' = Append(Blocks, rest)
    BY <1>1, <1>4, <2>1, <2>3, BlocksAre, BlocksOfBlocks
  <2>5. HeadIsWhole
    BY <2>1, HeadBoth
  <2>6. ContigInv'
    BY <1>1, <2>1, <2>4 DEF ContigInv
  <2>7. Sound' => Sound
    BY <1>1, <2>5 DEF Sound
  <2>8. GrownInv'
    BY <1>1, <1>4, <2>3, <2>4, <2>7 DEF GrownInv, LaneInv
  <2> QED BY <1>2, <2>6, <2>8 DEF LaneInv
<1> QED BY <1>3, <1>4

\* The consumer goes on to the next game.
LEMMA LaneAdvance ==
  ASSUME TypeOK, TypeOK', LaneInv, SkipCommitted \/ WriteCheckpoint
  PROVE  LaneInv'
<1>1. /\ UNCHANGED <<lane, manifest, phase, target, rest, committedAtResume, fen_set,
                     committed, blind>>
      /\ phase = "up" /\ next' = next + 1 /\ next \in Nat
      /\ \/ cpc = "top" /\ cpc' = "top" /\ next \in committedAtResume /\ checkpoint' = checkpoint
         \/ cpc = "committed" /\ cpc' = "saved" /\ checkpoint' = next + 1
  BY DEF SkipCommitted, WriteCheckpoint, ConsumerGoes, command, committer, TypeOK
<1>2. Blocks' = Blocks /\ (HeadIsWhole' <=> HeadIsWhole)
  <2>1. Blocks' = Blocks
    BY <1>1, BlocksAre
  <2> QED BY <1>1, <2>1, HeadBoth
<1>3. Sound' <=> Sound
  BY <1>1, <1>2 DEF Sound
<1>4. ContigInv'
  BY <1>1, <1>2 DEF ContigInv, LaneInv
<1>5. CommitterInv'
  <2> SUFFICES ASSUME HeadIsWhole PROVE CommitterInv'
    BY <1>2 DEF CommitterInv
  <2>1. /\ lane = Blocks /\ committed = Count(Blocks) /\ fen_set = FensOf(Blocks)
        /\ committedAtResume \subseteq Ids(Blocks)
        /\ Ids(Blocks) \subseteq committedAtResume \cup 0 .. next
    <3>1. 0 .. next - 1 \subseteq 0 .. next
      BY <1>1
    <3> QED BY <1>1, <3>1 DEF CommitterInv, LaneInv
  <2>2. next' - 1 = next
    BY <1>1
  <2> QED BY <1>1, <1>2, <2>1, <2>2 DEF CommitterInv
<1>6. GrownInv'
  BY <1>1, <1>2, <1>3, SameLane DEF GrownInv, LaneInv
<1>7. SettledInv'
  <2> SUFFICES ASSUME Sound
               PROVE  /\ checkpoint' # None =>
                           \A g \in Games : g < checkpoint' => Settled(Blocks, g)
                      /\ \A g \in Games : g < next' => Settled(Blocks, g)
    BY <1>1, <1>2, <1>3, SameLane DEF SettledInv
  <2>1. CheckpointCounts
    BY <1>1 DEF CheckpointCounts, ExtendPending
  <2>2. /\ checkpoint # None => \A g \in Games : g < checkpoint => Settled(Blocks, g)
        /\ \A g \in Games : g < next => Settled(Blocks, g)
        /\ cpc = "committed" => Settled(Blocks, next)
    BY <1>1, <2>1 DEF SettledInv, LaneInv
  <2>3. next \in Games => Settled(Blocks, next)
    <3>1. CASE next \in committedAtResume
      <4>1. next \in Ids(Blocks) \/ cpc = "committed"
        BY <1>1, <3>1 DEF CommitterInv, LaneInv, Sound
      <4> QED BY <1>1, <2>2, <4>1 DEF Settled
    <3> QED BY <1>1, <2>2, <3>1
  <2>4. \A g \in Games : g < next + 1 => g < next \/ g = next
    BY <1>1, GamesFinite
  <2> QED BY <1>1, <2>2, <2>3, <2>4
<1> QED BY <1>4, <1>5, <1>6, <1>7 DEF LaneInv

\* What is cut off is no block.
LEMMA SameBlocks ==
  ASSUME TypeOK, TypeOK', lane' \in Cut
  PROVE  Blocks' = Blocks /\ (HeadIsWhole' => HeadIsWhole)
<1>1. lane \in Seq(ItemType) /\ (lane' = lane \/ lane' = Append(lane, Torn))
  BY LaneTypes DEF Cut
<1>2. Blocks' = Blocks
  BY <1>1, BlocksAre, BlocksOfTorn
<1>3. lane = <<>> \/ lane' # <<>>
  <2>1. Len(Append(lane, Torn)) = Len(lane) + 1 /\ Len(lane) \in Nat
    BY <1>1, AppendProperties
  <2> QED BY <1>1, <2>1, EmptySeq
<1> QED BY <1>2, <1>3, HeadBoth

LEMMA LaneConsumerFails ==
  ASSUME TypeOK, TypeOK', PhaseInv, LaneInv, ConsumerFails
  PROVE  LaneInv'
<1>1. /\ UNCHANGED <<checkpoint, manifest, phase, target, rest, next, blind>>
      /\ phase = "up" /\ cpc' = "failed" /\ lane' \in Cut
  BY DEF ConsumerFails, ConsumerGoes, command, Cut
<1>2. Blocks' = Blocks /\ (Sound' => Sound)
  BY <1>1, SameBlocks DEF Sound
<1>3. rest = None
  BY <1>1 DEF PhaseInv
<1>4. ContigInv'
  BY <1>1, <1>2, <1>3 DEF ContigInv, LaneInv
<1>5. CommitterInv'
  BY <1>1 DEF CommitterInv
<1>6. GrownInv'
  BY <1>1, <1>2, <1>3, SameLane DEF GrownInv, LaneInv
<1>7. SettledInv'
  <2>1. CheckpointCounts
    BY <1>1 DEF CheckpointCounts, ExtendPending
  <2> QED BY <1>1, <1>2, <2>1, SameLane DEF SettledInv, LaneInv
<1> QED BY <1>4, <1>5, <1>6, <1>7 DEF LaneInv

\* A kill.  A truncate that is cut short leaves the checkpoint that it was to
\* remove, and the next run goes by it.
LEMMA LaneKill ==
  ASSUME TypeOK, TypeOK', PhaseInv, LaneInv, Kill
  PROVE  LaneInv'
<1>1. /\ phase \notin Ended /\ phase' = "down" /\ rest' = None
      /\ blind' = (blind \/ (phase \in {"truncating", "unchecking"} /\ checkpoint # None))
      /\ UNCHANGED <<checkpoint, manifest, target>> /\ lane' \in Cut
  BY DEF Kill, Cut
<1>2. Blocks' = Blocks /\ (HeadIsWhole' => HeadIsWhole)
  BY <1>1, SameBlocks
<1>3. Sound' => Sound
  BY <1>1, <1>2 DEF Sound
<1>4. ContigInv'
  BY <1>1, <1>2 DEF ContigInv, LaneInv
<1>5. CommitterInv'
  BY <1>1 DEF CommitterInv
<1>6. GrownInv'
  BY <1>1, <1>2, <1>3 DEF GrownInv, LaneInv
<1>7. SettledInv'
  <2> SUFFICES ASSUME Sound', CheckpointCounts', checkpoint # None
               PROVE  \A g \in Games : g < checkpoint => Settled(Blocks, g)
    BY <1>1, <1>2, SameLane DEF SettledInv
  <2>1. ~(manifest.target # None /\ manifest.target < target)
    BY <1>1 DEF CheckpointCounts, ExtendPending
  <2>2. phase \notin {"extending", "forgetting"}
    BY <2>1 DEF PhaseInv
  <2>3. phase \notin {"truncating", "unchecking"}
    BY <1>1 DEF Sound
  <2>4. phase \in {"resuming", "up"}
    BY <1>1, <2>2, <2>3 DEF TypeOK
  <2>5. CheckpointCounts
    BY <2>4 DEF CheckpointCounts, ExtendPending
  <2> QED BY <1>3, <2>5 DEF SettledInv, LaneInv
<1> QED BY <1>4, <1>5, <1>6, <1>7 DEF LaneInv

\* A game is committed.
LEMMA LaneCommits ==
  ASSUME TypeOK, TypeOK', PhaseInv, ConsumerInv, LaneInv, Commit
  PROVE  LaneInv'
<1> DEFINE s == Survivors(next, fen_set)
           kept == Truncated(s, committed)
           b == [game |-> next, start |-> committed, fens |-> kept]
<1>1. /\ UNCHANGED <<checkpoint, manifest, phase, target, rest, next, committedAtResume, blind>>
      /\ phase = "up" /\ cpc = "found" /\ cpc' = "committed"
  BY DEF Commit, ConsumerGoes, command
<1>2. \/ kept = <<>> /\ UNCHANGED <<lane, fen_set, committed>>
      \/ /\ kept # <<>> /\ lane' = Append(lane, b)
         /\ fen_set' = fen_set \cup ToSet(kept) /\ committed' = committed + Len(kept)
  BY DEF Commit, committer
<1>3. /\ next \in Games /\ next \in 0 .. NGames /\ next \in Nat /\ next \in pending
      /\ next \notin committedAtResume
  BY <1>1, GamesFinite DEF ConsumerInv, TypeOK
<1>4. /\ committed \in Nat /\ target \in Nat /\ fen_set \subseteq Fens
      /\ Blocks \in Seq(BlockType) /\ Count(Blocks) \in Nat /\ FensOf(Blocks) \subseteq Fens
      /\ Ids(Blocks) \subseteq Games
  BY HeadBoth, LaneTypes DEF TypeOK
<1>5. s \in Seq(Fens)
  BY <1>3, <1>4, SurvivorsAre
<1>6. rest = None
  BY <1>1 DEF PhaseInv
<1>7. /\ kept \in Seq(Fens) /\ Prefix(kept, s) /\ Len(kept) \in Nat
      /\ kept = <<>> <=> s = <<>> \/ committed >= target
      /\ kept # <<>> <=> Len(kept) > 0
      /\ kept # <<>> => committed + Len(kept) <= target
      /\ kept = s \/ committed + Len(kept) >= target
  <2> HIDE DEF s
  <2> QED BY <1>4, <1>5, TruncatedIs
<1>8. b \in BlockType
  BY <1>3, <1>4, <1>7 DEF BlockType
<1>9. b.game = next /\ b.start = committed /\ b.fens = kept
  OBVIOUS
<1> HIDE DEF kept, b
<1>10. HeadIsWhole =>
         /\ lane = Blocks /\ committed = Count(Blocks) /\ fen_set = FensOf(Blocks)
         /\ committedAtResume \subseteq Ids(Blocks)
         /\ Ids(Blocks) \subseteq committedAtResume \cup 0 .. next - 1
  BY <1>1 DEF CommitterInv, LaneInv
<1>11. Sound => /\ Grown(Blocks) /\ Count(Blocks) <= target /\ EndsWell(Blocks)
                /\ \A g \in Games : g < next => Settled(Blocks, g)
                /\ checkpoint # None => \A g \in Games : g < checkpoint => Settled(Blocks, g)
  <2>1. CheckpointCounts
    BY <1>1 DEF CheckpointCounts, ExtendPending
  <2> QED BY <1>1, <2>1 DEF GrownInv, SettledInv, LaneInv
<1>12. Contiguous(Blocks)
  BY DEF ContigInv, LaneInv
<1>13. CASE kept = <<>>
  <2>1. UNCHANGED <<lane, fen_set, committed>>
    BY <1>2, <1>13
  <2>2. Blocks' = Blocks /\ (HeadIsWhole' <=> HeadIsWhole)
    <3>1. Blocks' = Blocks
      BY <2>1, BlocksAre
    <3> QED BY <2>1, <3>1, HeadBoth
  <2>3. ContigInv'
    BY <1>1, <1>6, <1>12, <2>2 DEF ContigInv
  <2>4. CommitterInv'
    <3> SUFFICES ASSUME HeadIsWhole PROVE CommitterInv'
      BY <2>2 DEF CommitterInv
    <3>1. Ids(Blocks) \subseteq committedAtResume \cup 0 .. next
      <4>1. 0 .. next - 1 \subseteq 0 .. next
        BY <1>3
      <4> QED BY <1>10, <4>1
    <3> QED BY <1>1, <1>10, <2>1, <2>2, <3>1 DEF CommitterInv
  <2>5. Sound' <=> Sound
    BY <1>1, <2>2 DEF Sound
  <2>6. GrownInv'
    BY <1>1, <1>6, <1>11, <2>2, <2>5, SameLane DEF GrownInv
  <2>7. Sound => Settled(Blocks, next)
    BY <1>7, <1>10, <1>13 DEF Sound, Settled, s
  <2>8. SettledInv'
    <3>1. Settled(Blocks, next)' <=> Settled(Blocks, next)
      BY <1>1, <2>2 DEF Settled
    <3> QED BY <1>1, <1>11, <2>2, <2>5, <2>7, <3>1, SameLane DEF SettledInv
  <2> QED BY <2>3, <2>4, <2>6, <2>8 DEF LaneInv
<1>14. CASE kept # <<>> /\ ~HeadIsWhole
  <2>1. lane' = Append(lane, b) /\ lane # <<>> /\ Blocks = <<>>
    BY <1>2, <1>14, HeadBoth
  <2>2. lane \in Seq(ItemType) /\ b \in ItemType /\ IsValid(lane, <<>>)
    BY <1>8, <2>1, LaneTypes DEF ItemType
  <2>3. /\ lane' \in Seq(ItemType) /\ Len(lane') = Len(lane) + 1 /\ Len(lane) \in Nat
        /\ \A i \in 1 .. Len(lane) : lane'[i] = lane[i]
    BY <2>1, <2>2, AppendProperties
  <2>4. Len(lane) > 0 /\ lane[1] = Torn
    <3>1. Len(lane) > 0
      BY <2>1, <2>3, EmptySeq
    <3> QED BY <2>2, <3>1 DEF IsValid
  <2>5. IsValid(lane', <<>>)
    <3>1. 1 \in 1 .. Len(lane) /\ 0 < Len(lane')
      BY <2>3, <2>4
    <3> QED BY <2>3, <2>4, <3>1 DEF IsValid
  <2>6. Blocks' = <<>>
    BY <2>3, <2>5, BlocksAre, ValidUnique
  <2>7. ~HeadIsWhole'
    BY <2>3, <2>4, <2>6, HeadBoth, EmptySeq
  <2>8. ContigInv'
    BY <1>1, <1>6, <1>12, <2>1, <2>6 DEF ContigInv
  <2> QED BY <2>7, <2>8 DEF LaneInv, CommitterInv, GrownInv, SettledInv, Sound
<1>15. CASE kept # <<>> /\ HeadIsWhole
  <2>1. /\ lane = Blocks /\ committed = Count(Blocks) /\ fen_set = FensOf(Blocks)
        /\ lane' = Append(Blocks, b) /\ fen_set' = fen_set \cup ToSet(kept)
        /\ committed' = committed + Len(kept)
    BY <1>2, <1>10, <1>15
  <2>2. /\ Append(Blocks, b) \in Seq(BlockType) /\ Len(Append(Blocks, b)) = Len(Blocks) + 1
        /\ Append(Blocks, b)[Len(Blocks) + 1] = b
        /\ Ids(Append(Blocks, b)) = Ids(Blocks) \cup {next}
        /\ FensOf(Append(Blocks, b)) = FensOf(Blocks) \cup ToSet(kept)
        /\ Count(Append(Blocks, b)) = End(b)
        /\ \A i \in 1 .. Len(Blocks) + 1 : Seen(Append(Blocks, b), i) = Seen(Blocks, i)
    BY <1>4, <1>8, <1>9, AppendedLane
  <2>3. Blocks' = Append(Blocks, b)
    BY <2>1, <2>2, BlocksAre, BlocksOfBlocks
  <2>4. End(b) = committed + Len(kept)
    BY <1>9 DEF End
  <2>5. ContigInv'
    <3>1. Contiguous(Append(Blocks, b))
      BY <1>4, <1>8, <1>9, <1>12, <2>1, ContiguousAppend
    <3> QED BY <1>1, <1>6, <2>3, <3>1 DEF ContigInv
  <2>6. CommitterInv'
    <3>1. Ids(Blocks') \subseteq committedAtResume \cup 0 .. next
      <4>1. 0 .. next - 1 \subseteq 0 .. next /\ next \in 0 .. next
        BY <1>3
      <4> QED BY <1>10, <1>15, <2>2, <2>3, <4>1
    <3>2. committedAtResume \subseteq Ids(Blocks')
      BY <1>10, <1>15, <2>2, <2>3
    <3>3. committed' = Count(Blocks') /\ fen_set' = FensOf(Blocks') /\ lane' = Blocks'
      BY <2>1, <2>2, <2>3, <2>4
    <3> QED BY <1>1, <3>1, <3>2, <3>3 DEF CommitterInv
  <2>7. Sound' => Sound
    BY <1>1, <1>15 DEF Sound
  <2>8. ASSUME Sound PROVE \A h \in Ids(Blocks) : h < next
    <3> SUFFICES ASSUME NEW h \in Ids(Blocks), ~(h < next) PROVE FALSE
      OBVIOUS
    <3>1. next \notin Ids(Blocks)
      BY <1>3, <1>10, <1>15
    <3>2. h \in Nat /\ h # next
      BY <1>4, <3>1, GamesFinite
    <3>3. next < h
      BY <1>3, <3>2
    <3>4. PICK i \in 1 .. Len(Blocks) : Survivors(next, Seen(Blocks, i)) = <<>>
      BY <1>3, <1>4, <1>11, <2>8, <3>1, <3>3, PassedAddsNothing
    <3>5. Seen(Blocks, i) \subseteq Fens /\ Seen(Blocks, i) \subseteq FensOf(Blocks)
      <4>1. Len(Blocks) \in Nat
        BY <1>4, LaneSets
      <4>2. i \in 1 .. Len(Blocks) + 1
        BY <4>1
      <4> QED BY <1>4, <4>2, LaneSets
    <3>6. Survivors(next, FensOf(Blocks)) = <<>>
      BY <1>3, <1>4, <3>4, <3>5, SurvivorsAre
    <3> QED BY <1>7, <1>15, <2>1, <3>6 DEF s
  <2>9. ~(Count(Blocks) >= target)
    BY <1>7, <1>15, <2>1
  <2>10. GrownInv'
    <3> SUFFICES ASSUME Sound PROVE GrownInv'
      BY <2>7 DEF GrownInv
    <3>1. Grown(Append(Blocks, b))
      <4>1. Blocks = <<>> \/ Blocks[Len(Blocks)].fens = All(Blocks, Len(Blocks))
        BY <1>11, <2>9 DEF EndsWell
      <4>2. Len(b.fens) > 0 /\ Prefix(b.fens, Survivors(b.game, FensOf(Blocks)))
        BY <1>7, <1>9, <1>15, <2>1 DEF s
      <4>3. ASSUME NEW g \in Games, g < b.game, \A h \in Ids(Blocks) : h < g
            PROVE  Survivors(g, FensOf(Blocks)) = <<>>
        <5>1. Settled(Blocks, g)
          BY <1>9, <1>11, <4>3
        <5>2. \A h \in Ids(Blocks) : ~(g <= h)
          <6>1. g \in Nat /\ \A h \in Ids(Blocks) : h \in Nat
            BY <1>4, GamesFinite
          <6> QED BY <4>3, <6>1
        <5> QED BY <2>9, <5>1, <5>2 DEF Settled
      <4> QED BY <1>4, <1>8, <1>9, <1>11, <2>8, <4>1, <4>2, <4>3, GrownAppend
    <3>2. Count(Blocks') <= target'
      BY <1>1, <1>7, <1>15, <2>2, <2>3, <2>4
    <3>3. EndsWell(Blocks)'
      <4>1. Len(Blocks) \in Nat
        BY <1>4, LaneSets
      <4>2. Len(Blocks') = Len(Blocks) + 1 /\ Blocks'[Len(Blocks')] = b
        BY <2>2, <2>3
      <4>3. All(Blocks', Len(Blocks')) = Survivors(next, FensOf(Blocks))
        <5>1. Len(Blocks) + 1 \in 1 .. Len(Blocks) + 1
          BY <4>1
        <5>2. Seen(Blocks', Len(Blocks')) = Seen(Blocks, Len(Blocks) + 1)
          BY <2>2, <2>3, <4>2, <5>1
        <5>3. Seen(Blocks, Len(Blocks) + 1) = FensOf(Blocks)
          BY <1>4, LaneSets
        <5> QED BY <1>9, <4>2, <5>2, <5>3 DEF All
      <4>4. kept = s => Blocks'[Len(Blocks')].fens = All(Blocks', Len(Blocks'))
        BY <1>9, <2>1, <4>2, <4>3 DEF s
      <4>5. kept # s => Count(Blocks') >= target'
        BY <1>1, <1>7, <2>2, <2>3, <2>4
      <4> QED BY <4>4, <4>5 DEF EndsWell
    <3> QED BY <1>1, <1>6, <2>3, <3>1, <3>2, <3>3 DEF GrownInv
  <2>11. SettledInv'
    <3> SUFFICES ASSUME Sound
                 PROVE  /\ checkpoint # None =>
                             \A g \in Games : g < checkpoint => Settled(Blocks, g)'
                        /\ \A g \in Games : g < next => Settled(Blocks, g)'
                        /\ Settled(Blocks, next)'
      BY <1>1, <2>7 DEF SettledInv
    <3>1. ASSUME NEW g \in Games, Settled(Blocks, g) PROVE Settled(Blocks, g)'
      <4>1. Settled(Append(Blocks, b), g)
        BY <1>4, <1>8, <1>9, <2>1, <3>1, SettledAppend
      <4> QED BY <1>1, <2>3, <4>1 DEF Settled
    <3>2. Settled(Blocks, next)'
      <4>1. next \in Ids(Blocks') /\ next <= next
        BY <1>3, <2>2, <2>3
      <4> QED BY <1>1, <4>1 DEF Settled
    <3> QED BY <1>11, <3>1, <3>2
  <2> QED BY <2>5, <2>6, <2>10, <2>11 DEF LaneInv
<1> QED BY <1>13, <1>14, <1>15

LEMMA LaneStep ==
  ASSUME TypeOK, TypeOK', PhaseInv, UpInv, LaneInv, [Next]_vars
  PROVE  LaneInv'
<1>1. CASE Commit
  <2>1. ConsumerInv
    BY <1>1 DEF Commit, ConsumerGoes, UpInv
  <2> QED BY <1>1, <2>1, LaneCommits
<1>2. CASE ~Commit
  BY <1>2, LaneFrames, LaneStart, LaneDropBoundary, LaneResume, LaneForget, LaneCut,
     LaneAppendPartial, LaneAdvance, LaneConsumerFails, LaneKill
  DEF Next, Boot, Truncate, ConsumerNext, Fault, Idle
<1> QED BY <1>1, <1>2

-----------------------------------------------------------------------------
LEMMA InitInv == Init => IInv
<1> SUFFICES ASSUME Init PROVE IInv
  OBVIOUS
<1>1. TypeOK /\ PhaseInv /\ UpInv
  BY InitTypes, InitPhase
<1>2. lane = <<>> /\ rest = None /\ phase = "down" /\ checkpoint = None
  BY DEF Init
<1>3. Blocks = <<>>
  <2>1. <<>> \in Seq(BlockType)
    OBVIOUS
  <2> QED BY <1>2, <2>1, BlocksAre, BlocksOfBlocks
<1>4. <<>> \in Seq(BlockType) /\ Len(<<>>) = 0
  OBVIOUS
<1>5. ContigInv
  BY <1>2, <1>3, <1>4 DEF ContigInv, Contiguous
<1>6. CommitterInv /\ SettledInv
  BY <1>2 DEF CommitterInv, SettledInv
<1>7. GrownInv
  <2>1. Grown(<<>>)
    BY <1>4 DEF Grown
  <2>2. target \in Nat
    BY <1>1, SelfPlayAssumption DEF TypeOK
  <2>3. Count(<<>>) <= target
    BY <2>2 DEF Count
  <2> QED BY <1>2, <1>3, <2>1, <2>3 DEF GrownInv
<1> QED BY <1>1, <1>5, <1>6, <1>7 DEF IInv, LaneInv

LEMMA InvStep == IInv /\ [Next]_vars => IInv'
<1> SUFFICES ASSUME IInv, [Next]_vars PROVE IInv'
  OBVIOUS
<1>1. TypeOK /\ PhaseInv /\ UpInv /\ LaneInv
  BY DEF IInv
<1>2. TypeOK'
  <2>1. Contiguous(Blocks)
    BY <1>1 DEF LaneInv, ContigInv
  <2>2. phase = "up" => WorkerInv /\ ConsumerInv
    BY <1>1 DEF UpInv
  <2>3. CASE UNCHANGED vars
    BY <1>1, <2>3 DEF TypeOK, vars, disk, dispatcher, workers, committer, history, command
  <2>4. CASE ~UNCHANGED vars
    BY <1>1, <2>1, <2>2, <2>4, CommandTypes, WorkerTypes, ConsumerTypes DEF Next, Fault, Idle
  <2> QED BY <2>3, <2>4
<1>3. PhaseInv' /\ UpInv' /\ LaneInv'
  BY <1>1, <1>2, PhaseStep, UpStep, LaneStep
<1> QED BY <1>2, <1>3 DEF IInv

LEMMA Invariance == Spec => []IInv
BY InitInv, InvStep, PTL DEF Spec

\* Every variable keeps its type, whatever the commands, the schedule, the
\* failures and the kills (all of corpus/selfplay.rs and its parts).
THEOREM TypeCorrect == Spec => []TypeOK
<1>1. IInv => TypeOK
  BY DEF IInv
<1> QED BY <1>1, Invariance, PTL

\* While the campaign runs, each game from the cursor on has a place, and none
\* is played twice unless its write failed after its rename:
\* Dispatcher::claim_next, release_unclaimed, write_pending and the gap list of
\* resume lose no game and hand none out that is there.
THEOREM PlacesCorrect == Spec => []EachGameHasOnePlace
<1>1. IInv => EachGameHasOnePlace
  <2> SUFFICES ASSUME TypeOK, WorkerInv, QueueInv, DispatchInv, phase = "up"
               PROVE  EachGameHasOnePlace
    BY DEF IInv, UpInv, EachGameHasOnePlace
  <2>1. /\ game \in [Workers -> Games \cup {None}] /\ None \notin Games /\ gapQueue \in Seq(Games)
        /\ worker \in [Workers -> {"top", "claimed", "played", "written", "leaving",
                                   "gone", "broken"}]
        /\ claimed \subseteq Games /\ next \in Nat /\ nextDispatch \in Nat
    BY SelfPlayAssumption DEF TypeOK, Games
  <2>2. \A w \in Workers : game[w] # None => w \in Alive
    BY DEF WorkerInv, HasGame, Alive, Dead
  <2>3. claimed \ unsynced = Held \ unsynced
    <3>1. ASSUME NEW g \in claimed \ unsynced PROVE g \in Held
      <4>1. PICK w \in Workers : game[w] = g
        BY DEF DispatchInv
      <4>2. g # None
        BY <2>1
      <4> QED BY <2>2, <4>1, <4>2 DEF Held
    <3>2. ASSUME NEW g \in Held \ unsynced PROVE g \in claimed
      BY <3>2 DEF Held, Alive, WorkerInv
    <3> QED BY <3>1, <3>2
  <2>4. ASSUME NEW g \in Games, g >= next
        PROVE  \/ g \in committedAtResume \cup pending \cup Queued \cup {game[w] : w \in Playing}
               \/ g >= nextDispatch
    <3>1. g \in Nat
      BY GamesFinite
    <3>2. g < nextDispatch \/ g >= nextDispatch
      BY <2>1, <3>1
    <3> QED BY <2>4, <3>2 DEF DispatchInv
  <2>5. Queued \cap Held \subseteq unsynced
    BY <2>3 DEF QueueInv
  <2>6. \A v, w \in Alive : game[v] = game[w] /\ game[v] \notin {None} \cup unsynced => v = w
    BY DEF WorkerInv, Alive
  <2>7. \A i, j \in DOMAIN gapQueue :
          gapQueue[i] = gapQueue[j] /\ gapQueue[i] \notin unsynced => i = j
    <3>1. DOMAIN gapQueue = 1 .. Len(gapQueue)
      BY <2>1, LenProperties
    <3> QED BY <3>1 DEF QueueInv, OnceEach
  <2>8. ASSUME NEW g \in (Queued \cup {game[w] : w \in Playing}) \ unsynced
        PROVE  g >= next /\ g \notin committedAtResume \cup pending
    <3>1. CASE g \in Queued
      BY <2>8, <3>1 DEF QueueInv
    <3>2. ASSUME NEW w \in Playing, g = game[w] PROVE g >= next /\ g \notin committedAtResume \cup pending
      <4>1. w \in Workers /\ worker[w] \in HasGame
        BY DEF Playing, HasGame
      <4> QED BY <2>8, <3>2, <4>1 DEF WorkerInv
    <3> QED BY <2>8, <3>1, <3>2
  <2> QED BY <2>3, <2>4, <2>5, <2>6, <2>7, <2>8 DEF EachGameHasOnePlace
<1> QED BY <1>1, Invariance, PTL

\* What a game adds to a lane.
LEMMA AddsIs ==
  ASSUME TypeOK, NEW g \in Games, NEW B \in Seq(BlockType), NEW limit \in Nat,
         limit = IF phase = "truncated" THEN Count(Blocks) ELSE target
  PROVE  /\ Survivors(g, FensOf(B)) = <<>> \/ Count(B) >= limit => Adds(g, B) = <<>>
         /\ \A f \in Seq(Fens) :
              /\ Prefix(f, Survivors(g, FensOf(B))) /\ Count(B) + Len(f) <= limit
              /\ f = Survivors(g, FensOf(B)) \/ Count(B) + Len(f) >= limit
              => Adds(g, B) = f
<1> DEFINE u == Survivors(g, FensOf(B))
           m == Min({Len(u), Max({limit - Count(B), 0})})
<1>1. /\ u \in Seq(Fens) /\ Len(u) \in Nat /\ Count(B) \in Nat
      /\ u = <<>> <=> Len(u) = 0
  <2>1. g \in 0 .. NGames /\ FensOf(B) \subseteq Fens
    BY GamesFinite, LaneSets DEF Games
  <2> QED BY <2>1, SurvivorsAre, LaneSets
<1>2. Adds(g, B) = SubSeq(u, 1, m)
  BY DEF Adds
<1> HIDE DEF u
<1>3. m = IF limit <= Count(B) THEN 0 ELSE IF Len(u) <= limit - Count(B) THEN Len(u)
          ELSE limit - Count(B)
  <2>1. Max({limit - Count(B), 0}) = IF limit - Count(B) <= 0 THEN 0 ELSE limit - Count(B)
    <3>1. limit - Count(B) \in Int /\ 0 \in Int
      BY <1>1
    <3> QED BY <3>1, MinMaxOfTwo
  <2>2. PICK x \in Int : x = Max({limit - Count(B), 0})
    BY <1>1, <2>1
  <2>3. Min({Len(u), x}) = IF Len(u) <= x THEN Len(u) ELSE x
    BY <1>1, MinMaxOfTwo
  <2>4. m = IF Len(u) <= x THEN Len(u) ELSE x
    BY <2>2, <2>3
  <2> HIDE DEF m
  <2> QED BY <1>1, <2>1, <2>2, <2>4
<1> HIDE DEF m
<1>4. m \in 0 .. Len(u)
  BY <1>1, <1>3
<1>5. /\ SubSeq(u, 1, m) \in Seq(Fens) /\ Len(SubSeq(u, 1, m)) = m
      /\ \A i \in 1 .. m : SubSeq(u, 1, m)[i] = u[i]
  BY <1>1, <1>4, CutSeq
<1>6. u = <<>> \/ Count(B) >= limit => Adds(g, B) = <<>>
  <2> SUFFICES ASSUME u = <<>> \/ Count(B) >= limit PROVE m = 0
    BY <1>2, <1>5, EmptySeq
  <2> QED BY <1>1, <1>3, <1>4
<1>7. ASSUME NEW f \in Seq(Fens), Prefix(f, u), Count(B) + Len(f) <= limit,
             f = u \/ Count(B) + Len(f) >= limit
      PROVE  Adds(g, B) = f
  <2>1. Len(f) \in Nat /\ Len(f) <= Len(u) /\ \A i \in 1 .. Len(f) : f[i] = u[i]
    BY <1>7, LenProperties DEF Prefix
  <2>2. m = Len(f)
    <3>1. Len(f) = Len(u) \/ Count(B) + Len(f) >= limit
      BY <1>7
    <3> QED BY <1>1, <1>3, <1>7, <2>1, <3>1
  <2> QED BY <1>2, <1>5, <2>1, <2>2, SeqEqual
<1> QED BY <1>6, <1>7 DEF u

\* While a campaign is up, and after it returned, failed or was truncated, each
\* block of lane.bin holds what its game adds to those before it, and a game
\* that the lane or the checkpoint has passed over adds nothing (commit_game,
\* resume, extend and truncate).  Not claimed of a lane whose first block is
\* torn, nor after a run that was blind, nor of the manifest.
THEOREM LaneCorrect == Spec => []LaneIsCanonical
<1>1. IInv => LaneIsCanonical
  <2> SUFFICES ASSUME IInv, phase \in {"up", "returned", "failed", "truncated"}, Sound
               PROVE  /\ \A i \in DOMAIN Blocks :
                           LET before == SubSeq(Blocks, 1, i - 1)
                           IN  /\ \A j \in 1 .. i - 1 : Blocks[j].game < Blocks[i].game
                               /\ Blocks[i].start = Count(before)
                               /\ Blocks[i].fens = Adds(Blocks[i].game, before)
                      /\ \A g \in Games \ Ids(Blocks) : Passed(g) => Adds(g, Before(g)) = <<>>
    BY DEF LaneIsCanonical, Sound
  <2>1. TypeOK /\ PhaseInv /\ LaneInv
    BY DEF IInv
  <2> DEFINE B == Blocks
             n == Len(B)
             limit == IF phase = "truncated" THEN Count(B) ELSE target
  <2>2. /\ B \in Seq(BlockType) /\ n \in Nat /\ DOMAIN B = 1 .. n /\ Count(B) \in Nat
        /\ Ids(B) = {B[i].game : i \in 1 .. n} /\ target \in Nat
        /\ \A i \in 1 .. n : B[i] \in BlockType
    BY <2>1, SelfPlayAssumption, LaneTypes, LaneSets, LenProperties DEF TypeOK
  <2>3. Contiguous(B) /\ Grown(B) /\ Count(B) <= limit /\ limit \in Nat
    BY <2>1, <2>2 DEF LaneInv, ContigInv, GrownInv
  <2>4. B = <<>> \/ B[n].fens = All(B, n) \/ Count(B) >= limit
    <3>1. CASE phase = "truncated"
      BY <2>2, <3>1
    <3>2. CASE phase # "truncated"
      BY <2>1, <3>2 DEF LaneInv, GrownInv, EndsWell
    <3> QED BY <3>1, <3>2
  <2>5. ASSUME NEW g \in Games, NEW C \in Seq(BlockType)
        PROVE  /\ Survivors(g, FensOf(C)) = <<>> \/ Count(C) >= limit => Adds(g, C) = <<>>
               /\ \A f \in Seq(Fens) :
                    /\ Prefix(f, Survivors(g, FensOf(C))) /\ Count(C) + Len(f) <= limit
                    /\ f = Survivors(g, FensOf(C)) \/ Count(C) + Len(f) >= limit
                    => Adds(g, C) = f
    BY <2>1, <2>3, AddsIs
  <2> HIDE DEF B, n, limit
  <2>6. ASSUME NEW i \in 1 .. n
        PROVE  /\ \A j \in 1 .. i - 1 : B[j].game < B[i].game
               /\ B[i].start = Count(SubSeq(B, 1, i - 1))
               /\ B[i].fens = Adds(B[i].game, SubSeq(B, 1, i - 1))
    <3>1. i - 1 \in 0 .. n /\ i - 1 + 1 = i /\ i \in Nat
      BY <2>2
    <3>2. \A j \in 1 .. i - 1 : B[j].game < B[i].game
      <4> SUFFICES ASSUME NEW j \in 1 .. i - 1 PROVE B[j].game < B[i].game
        OBVIOUS
      <4>1. j \in 1 .. n /\ j < i
        BY <2>2
      <4> QED BY <2>3, <4>1 DEF Grown, n
    <3>3. /\ B[i].start = Count(SubSeq(B, 1, i - 1)) /\ End(B[i]) <= Count(B)
      BY <2>2, <2>3, CountAbove DEF n
    <3>4. SubSeq(B, 1, i - 1) \in Seq(BlockType) /\ FensOf(SubSeq(B, 1, i - 1)) = Seen(B, i)
      BY <2>2, <3>1, CutSets DEF n
    <3>5. /\ B[i].game \in Games /\ B[i].fens \in Seq(Fens) /\ B[i].start \in Nat
          /\ Len(B[i].fens) \in Nat
      BY <2>2, BlockFields
    <3>6. Prefix(B[i].fens, All(B, i))
      BY <2>3 DEF Grown, n
    <3>7. B[i].start + Len(B[i].fens) <= limit
      BY <2>2, <2>3, <3>3, <3>5 DEF End
    <3>8. B[i].fens = All(B, i) \/ B[i].start + Len(B[i].fens) >= limit
      <4>1. CASE i < n
        <5>1. i \in 1 .. n - 1
          BY <2>2, <4>1
        <5> QED BY <2>3, <5>1 DEF Grown, n
      <4>2. CASE i = n
        <5>1. B # <<>>
          BY <2>2, <4>2, EmptySeq DEF n
        <5>2. Count(B) = B[i].start + Len(B[i].fens)
          BY <2>2, <4>2, LaneSets DEF End, n
        <5> QED BY <2>4, <4>2, <5>1, <5>2
      <4> QED BY <2>2, <4>1, <4>2
    <3>9. B[i].fens = Adds(B[i].game, SubSeq(B, 1, i - 1))
      BY <2>5, <3>3, <3>4, <3>5, <3>6, <3>7, <3>8 DEF All
    <3> QED BY <3>2, <3>3, <3>9
  <2>7. ASSUME NEW g \in Games \ Ids(B), Passed(g) PROVE Adds(g, Before(g)) = <<>>
    <3> DEFINE S == {j \in 1 .. n : B[j].game < g}
    <3>1. Before(g) = SubSeq(B, 1, Cardinality(S))
      BY <2>2 DEF Before, B
    <3>2. CASE \E h \in Ids(B) : g < h
      <4>1. PICK i \in 1 .. n : /\ Survivors(g, Seen(B, i)) = <<>>
                                /\ \A j \in 1 .. n : B[j].game < g <=> j < i
        BY <2>2, <2>3, <3>2, PassedAddsNothing DEF n
      <4>2. i - 1 \in 0 .. n /\ i - 1 + 1 = i /\ \A j \in 1 .. n : j < i <=> j \in 1 .. i - 1
        BY <2>2
      <4>3. S = 1 .. i - 1
        <5>1. 1 .. i - 1 \subseteq 1 .. n
          BY <2>2
        <5> QED BY <4>1, <4>2, <5>1
      <4>4. Cardinality(S) = i - 1
        <5>1. Cardinality(1 .. i - 1) = i - 1
          BY <4>2, FS_Interval
        <5> QED BY <4>3, <5>1
      <4>5. /\ SubSeq(B, 1, i - 1) \in Seq(BlockType)
            /\ FensOf(SubSeq(B, 1, i - 1)) = Seen(B, i)
        BY <2>2, <4>2, CutSets DEF n
      <4> QED BY <2>5, <3>1, <4>1, <4>4, <4>5
    <3>3. CASE ~\E h \in Ids(B) : g < h
      <4>1. checkpoint # None /\ g < checkpoint
        BY <2>7, <3>3 DEF Passed, B
      <4>2. ASSUME NEW j \in 1 .. n PROVE B[j].game < g
        <5>1. B[j].game \in Ids(B) /\ B[j].game \in Nat /\ g \in Nat
          BY <2>2, BlockFields, GamesFinite
        <5> QED BY <3>3, <5>1
      <4>3. S = 1 .. n
        BY <4>2
      <4>4. Cardinality(S) = n
        <5>1. Cardinality(1 .. n) = n
          BY <2>2, FS_Interval
        <5> QED BY <4>3, <5>1
      <4>5. SubSeq(B, 1, n) = B
        <5>1. n \in 0 .. n
          BY <2>2
        <5>2. /\ SubSeq(B, 1, n) \in Seq(BlockType) /\ Len(SubSeq(B, 1, n)) = n
              /\ \A i \in 1 .. n : SubSeq(B, 1, n)[i] = B[i]
          BY <2>2, <5>1, CutSeq DEF n
        <5> QED BY <2>2, <5>2, SeqEqual DEF n
      <4>6. phase # "truncated"
        BY <2>1, <4>1 DEF PhaseInv
      <4>7. CheckpointCounts
        BY <4>6 DEF CheckpointCounts, ExtendPending
      <4>8. Settled(B, g)
        BY <2>1, <4>1, <4>7 DEF LaneInv, SettledInv, B
      <4>9. \A h \in Ids(B) : ~(g <= h)
        <5>1. \A h \in Ids(B) : h \in Nat /\ h # g /\ ~(g < h)
          BY <2>2, <2>7, <3>3, BlockFields, GamesFinite
        <5> QED BY <5>1, GamesFinite
      <4>10. limit = target
        BY <4>6 DEF limit
      <4> QED BY <2>2, <2>5, <3>1, <4>4, <4>5, <4>8, <4>9, <4>10 DEF Settled
    <3> QED BY <3>2, <3>3
  <2> QED BY <2>2, <2>6, <2>7 DEF B, n
<1> QED BY <1>1, Invariance, PTL
=============================================================================
