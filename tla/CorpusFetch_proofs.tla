-------------------------- MODULE CorpusFetch_proofs --------------------------
(***************************************************************************)
(* The lane of a fetch is what one undisturbed fetch would have written,   *)
(* and a fetch that says that the dump is drained has drained it.          *)
(*                                                                         *)
(* As in SelfPlay_proofs, a block may be appended only because the games   *)
(* that were passed over add nothing (SettledInv), the positions of a      *)
(* block are a beginning of what its game adds, all of it but for the last *)
(* (Grown), and the last is whole unless the target is reached (EndsWell). *)
(* Here nothing on the disk says how far a run has got: an attempt reads   *)
(* the dump from byte 0, and the games it settles are those it has parsed, *)
(* as the ids in the lane pass over those below them.  That a fetch which  *)
(* ends with Eos has parsed them all (DrainInv) rests on what may set      *)
(* eof_reason and failure (AttInv).                                        *)
(***************************************************************************)
EXTENDS CorpusFetch, FiniteSetTheorems, FunctionTheorems, SequenceTheorems, TLAPS

-----------------------------------------------------------------------------
\* What an attempt knows.
Unread == {"down", "failed", "returned", "extending", "resuming"}
OnWire ==
  \/ pc = "downloading"
  \/ codec = "zst" /\ pc = "preflight"
  \/ codec = "zst" /\ pc = "parsing" /\ att.fed = att.got
AttInv ==
  /\ pc \in Unread => call = NewCall
  /\ ~Attempting => att = NewAttempt
  /\ pc = "downloading" => codec = "zip"
  /\ pc \in {"downloading", "preflight"} => att.fed = 0 /\ ~PastEof
  /\ att.fed <= att.got
  /\ att.lost => OnWire /\ ~PastEof
  /\ pc # "classifying" =>
       att.failure = None /\ att.noprogress_resumes <= max_noprogress_resumes
  /\ att.eof_reason = "InnerEof" => att.got = NRaw
  /\ att.eof_reason = "Target" => target_reached

\* The lane as a sequence of blocks B.
Admits(id, seen) == Survivors(recs(id), id, seen)
End(b) == b.start + Len(b.fens)
FensBefore(B, i) == UNION {ToSet(B[j].fens) : j \in 1 .. i - 1}
All(B, i) == Admits(B[i].game, FensBefore(B, i))
Prefix(s, u) == Len(s) <= Len(u) /\ \A k \in 1 .. Len(s) : s[k] = u[k]
Contiguous(B) ==
  /\ B # <<>> => B[1].start = 0
  /\ \A i \in 2 .. Len(B) : B[i].start = End(B[i - 1])
  /\ \A i, j \in 1 .. Len(B) : i < j => End(B[i]) <= B[j].start
Grown(B) ==
  /\ \A i \in 1 .. Len(B) : Len(B[i].fens) > 0 /\ Prefix(B[i].fens, All(B, i))
  /\ \A i \in 1 .. Len(B) - 1 : B[i].fens = All(B, i)
  /\ \A i, j \in 1 .. Len(B) : i < j => B[i].game < B[j].game
  /\ \A i \in 1 .. Len(B), g \in Ids :
       g < B[i].game /\ (i > 1 => B[i - 1].game < g) => Admits(g, FensBefore(B, i)) = <<>>
\* The last block was not cut short, or the target is reached.
EndsWell(B) == B = <<>> \/ B[Len(B)].fens = All(B, Len(B)) \/ Count(B) >= target
\* The game is in the lane or below one that is, or there is no use in it.
Settled(B, id) ==
  \/ \E h \in IdsOf(B) : id <= h
  \/ Admits(id, FensOf(B)) = <<>>
  \/ Count(B) >= target
AllSettled == \A id \in Ids : Settled(Blocks, id)

\* The offset of the cut-off block lies in the lane.
CutInv ==
  /\ manifest.offset # None => manifest.offset <= Len(lane)
  /\ call.boundary # None => call.boundary <= Len(lane)
\* What the committer holds in memory is what is on the disk.
CommitterInv ==
  (pc \notin Unread /\ lane = Blocks) =>
    /\ call.committed = Count(Blocks)
    /\ {call.resume_skip_through, call.max_appended_game_id} \subseteq IdsOf(Blocks) \cup {0}
    /\ \A h \in IdsOf(Blocks) :
         h <= call.resume_skip_through \/ h <= call.max_appended_game_id
    /\ ~call.commit_abort => call.fen_set = FensOf(Blocks)
GrownInv ==
  (~blind /\ ~gapped) =>
    /\ Grown(Blocks) /\ Count(Blocks) <= target
    /\ pc \notin {"down", "extending", "resuming"} => EndsWell(Blocks)
SettledInv ==
  (pc \in {"parsing", "classifying"} /\ lane = Blocks /\ ~call.commit_abort) =>
    \A r \in Parsable : r < att.fed => Settled(Blocks, GameId(r))
DrainInv ==
  lane = Blocks =>
    /\ (pc = "classifying" /\ ~Halted /\ bad = None /\ Drained(att)) => AllSettled
    /\ pc \in {"leaving", "returned"} =>
         /\ terminated = "Eos" /\ bad = None => AllSettled
         /\ terminated = "EarlyTarget" => Count(Blocks) >= target
LaneInv == Contiguous(Blocks) /\ CutInv /\ CommitterInv /\ GrownInv /\ SettledInv
IInv == TypeOK /\ AttInv /\ LaneInv /\ DrainInv

\* The rank of an element of a finite set of integers is the number of those
\* that are not above it.
Rank(S, x) == Cardinality({y \in S : y <= x})

LEMMA Ranks ==
  ASSUME NEW S \in SUBSET Int, IsFiniteSet(S)
  PROVE  /\ Cardinality(S) \in Nat
         /\ \A x \in S : Rank(S, x) \in 1 .. Cardinality(S)
         /\ \A x, y \in S : x < y => Rank(S, x) < Rank(S, y)
         /\ \A i \in 1 .. Cardinality(S) : \E x \in S : Rank(S, x) = i
<1> DEFINE n == Cardinality(S)
           Upto(x) == {y \in S : y <= x}
           rank == [x \in S |-> Cardinality(Upto(x))]
<1>0. n \in Nat
  BY FS_CardinalityType
<1>1. \A x \in S : IsFiniteSet(Upto(x)) /\ rank[x] \in 1 .. n
  <2> SUFFICES ASSUME NEW x \in S
               PROVE  IsFiniteSet(Upto(x)) /\ Cardinality(Upto(x)) \in 1 .. n
    OBVIOUS
  <2>1. Upto(x) \in SUBSET S /\ x \in Upto(x)
    OBVIOUS
  <2>2. IsFiniteSet(Upto(x)) /\ Cardinality(Upto(x)) <= n
    BY <2>1, FS_Subset
  <2>3. Cardinality(Upto(x)) \in Nat /\ Cardinality(Upto(x)) # 0
    BY <2>1, <2>2, FS_CardinalityType, FS_EmptySet
  <2>4. n \in Nat
    BY FS_CardinalityType
  <2> HIDE DEF Upto, n
  <2> QED BY <2>2, <2>3, <2>4
<1>2. \A x, y \in S : x < y => rank[x] < rank[y]
  <2> SUFFICES ASSUME NEW x \in S, NEW y \in S, x < y
               PROVE  Cardinality(Upto(x)) < Cardinality(Upto(y))
    OBVIOUS
  <2>1. Upto(x) \in SUBSET Upto(y) /\ Upto(x) # Upto(y)
    <3>1. x \in Int /\ y \in Int /\ S \subseteq Int
      OBVIOUS
    <3>2. \A z \in S : z <= x => z <= y
      BY <3>1
    <3>3. y \in Upto(y) /\ y \notin Upto(x)
      BY <3>1
    <3> QED BY <3>2, <3>3
  <2>2. Cardinality(Upto(x)) <= Cardinality(Upto(y)) /\ Cardinality(Upto(x)) # Cardinality(Upto(y))
    BY <1>1, <2>1, FS_Subset
  <2>3. Cardinality(Upto(x)) \in Int /\ Cardinality(Upto(y)) \in Int
    BY <1>1
  <2> HIDE DEF Upto
  <2> QED BY <2>2, <2>3
<1>3. rank \in Injection(S, 1 .. n)
  <2>1. rank \in [S -> 1 .. n]
    BY <1>1
  <2>2. \A x, y \in S : rank[x] = rank[y] => x = y
    <3> SUFFICES ASSUME NEW x \in S, NEW y \in S, rank[x] = rank[y], x # y PROVE FALSE
      OBVIOUS
    <3>1. x \in Int /\ y \in Int /\ rank[x] \in Int
      BY <1>1
    <3> HIDE DEF rank
    <3> QED BY <1>2, <3>1
  <2> HIDE DEF rank
  <2> QED BY <2>1, <2>2 DEF Injection, IsInjective
<1>4. rank \in Surjection(S, 1 .. n)
  <2>1. n \in Nat
    BY FS_CardinalityType
  <2>2. IsFiniteSet(1 .. n) /\ Cardinality(1 .. n) = n
    BY <2>1, FS_Interval
  <2> HIDE DEF rank
  <2> QED BY <1>3, <2>2, FS_Injection
<1>5. \A i \in 1 .. n : \E x \in S : rank[x] = i
  <2> HIDE DEF rank, n
  <2> QED BY <1>4 DEF Surjection
<1>6. \A x \in S : Rank(S, x) = rank[x]
  BY DEF Rank
<1> HIDE DEF rank
<1> QED BY <1>0, <1>1, <1>2, <1>5, <1>6

\* A finite set of integers in ascending order.
LEMMA Ranked ==
  ASSUME NEW S \in SUBSET Int, IsFiniteSet(S)
  PROVE  \E q \in [1 .. Cardinality(S) -> S] :
           /\ \A i, j \in 1 .. Cardinality(S) : i < j => q[i] < q[j]
           /\ \A x \in S : \E i \in 1 .. Cardinality(S) : q[i] = x
<1> DEFINE n == Cardinality(S)
           rank == [x \in S |-> Rank(S, x)]
<1>0. n \in Nat
  BY Ranks
<1>1. \A x \in S : rank[x] \in 1 .. n
  BY Ranks
<1>2. \A x, y \in S : x < y => rank[x] < rank[y]
  BY Ranks
<1>3. \A x, y \in S : rank[x] = rank[y] => x = y
  <2> SUFFICES ASSUME NEW x \in S, NEW y \in S, rank[x] = rank[y], x # y PROVE FALSE
    OBVIOUS
  <2>1. x \in Int /\ y \in Int /\ rank[x] \in Int
    BY <1>1
  <2> HIDE DEF rank
  <2> QED BY <1>2, <2>1
<1>5. \A i \in 1 .. n : \E x \in S : rank[x] = i
  BY Ranks
<1> DEFINE q == [i \in 1 .. n |-> CHOOSE x \in S : rank[x] = i]
<1>6. \A i \in 1 .. n : q[i] \in S /\ rank[q[i]] = i
  <2> HIDE DEF rank, n
  <2> QED BY <1>5
<1>7. \A i, j \in 1 .. n : i < j => q[i] < q[j]
  <2> SUFFICES ASSUME NEW i \in 1 .. n, NEW j \in 1 .. n, i < j PROVE q[i] < q[j]
    OBVIOUS
  <2>1. q[i] \in S /\ q[j] \in S /\ rank[q[i]] = i /\ rank[q[j]] = j
    BY <1>6
  <2> HIDE DEF q, rank, n
  <2>2. q[j] < q[i] => rank[q[j]] < rank[q[i]]
    BY <1>2, <2>1
  <2>3. i # j /\ ~(j < i)
    BY <1>0
  <2>4. q[i] # q[j]
    BY <2>1, <2>3
  <2>5. q[i] \in Int /\ q[j] \in Int
    BY <2>1
  <2> QED BY <2>1, <2>2, <2>3, <2>4, <2>5
<1>8. \A x \in S : \E i \in 1 .. n : q[i] = x
  <2> SUFFICES ASSUME NEW x \in S PROVE q[rank[x]] = x
    BY <1>1
  <2>1. rank[x] \in 1 .. n
    BY <1>1
  <2> HIDE DEF q, rank, n
  <2>2. q[rank[x]] \in S /\ rank[q[rank[x]]] = rank[x]
    BY <1>6, <2>1
  <2> QED BY <1>3, <2>2
<1>9. q \in [1 .. n -> S]
  <2> HIDE DEF rank, n
  <2> QED BY <1>6
<1> HIDE DEF q
<1> QED BY <1>7, <1>8, <1>9

\* A finite set of integers has a least and a greatest element.
LEMMA Extremes ==
  ASSUME NEW S \in SUBSET Int, IsFiniteSet(S), S # {}
  PROVE  /\ Min(S) \in S /\ \A x \in S : Min(S) <= x
         /\ Max(S) \in S /\ \A x \in S : Max(S) >= x
<1> DEFINE n == Cardinality(S)
<1>1. PICK q \in [1 .. n -> S] : /\ \A i, j \in 1 .. n : i < j => q[i] < q[j]
                                 /\ \A x \in S : \E i \in 1 .. n : q[i] = x
  BY Ranked
<1>2. n \in Nat /\ n # 0
  BY FS_CardinalityType, FS_EmptySet
<1> HIDE DEF n
<1>3. 1 \in 1 .. n /\ n \in 1 .. n
  BY <1>2
<1>4. \A x \in S : q[1] <= x /\ x <= q[n]
  <2> SUFFICES ASSUME NEW i \in 1 .. n PROVE q[1] <= q[i] /\ q[i] <= q[n]
    BY <1>1
  <2>1. q[1] \in Int /\ q[i] \in Int /\ q[n] \in Int
    BY <1>1, <1>3
  <2>2. (1 < i => q[1] < q[i]) /\ (i < n => q[i] < q[n])
    BY <1>1, <1>3
  <2>3. (i = 1 \/ 1 < i) /\ (i = n \/ i < n)
    BY <1>2
  <2> QED BY <2>1, <2>2, <2>3
<1>5. q[1] \in S /\ q[n] \in S
  BY <1>1, <1>3
<1>6. \E x \in S : \A y \in S : x =< y
  BY <1>4, <1>5
<1>7. \E x \in S : \A y \in S : x >= y
  BY <1>4, <1>5
<1> QED BY <1>6, <1>7 DEF Min, Max

-----------------------------------------------------------------------------
\* The blocks of a file are those before the first that is cut off.
ItemType == BlockType \cup {Torn}
BlocksOf(l) ==
  LET first == SelectInSeq(l, LAMBDA b : b = Torn)
  IN  IF first = 0 THEN l ELSE SubSeq(l, 1, first - 1)
IsValid(l, B) ==
  /\ B \in Seq(BlockType) /\ Len(B) <= Len(l)
  /\ \A i \in 1 .. Len(B) : B[i] = l[i]
  /\ Len(B) < Len(l) => l[Len(B) + 1] = Torn

LEMMA ValidBlocks ==
  ASSUME NEW l \in Seq(ItemType)
  PROVE  IsValid(l, BlocksOf(l))
<1> DEFINE I == {i \in 1 .. Len(l) : l[i] = Torn}
           first == SelectInSeq(l, LAMBDA b : b = Torn)
<1>1. Len(l) \in Nat /\ \A i \in 1 .. Len(l) : l[i] \in ItemType
  BY ElementOfSeq
<1>2. first = IF I # {} THEN Min(I) ELSE 0
  BY DEF SelectInSeq
<1>3. BlocksOf(l) = IF first = 0 THEN l ELSE SubSeq(l, 1, first - 1)
  BY DEF BlocksOf
<1> HIDE DEF first
<1>4. CASE I = {}
  <2>1. BlocksOf(l) = l
    BY <1>2, <1>3, <1>4
  <2>2. \A i \in 1 .. Len(l) : l[i] \in BlockType
    BY <1>1, <1>4 DEF ItemType
  <2>3. l \in Seq(BlockType)
    BY <1>1, <2>2
  <2> QED BY <1>1, <2>1, <2>3 DEF IsValid
<1>5. CASE I # {}
  <2>1. I \in SUBSET Int /\ IsFiniteSet(I)
    <3>1. I \in SUBSET (1 .. Len(l)) /\ IsFiniteSet(1 .. Len(l))
      BY <1>1, FS_Interval
    <3>2. 1 .. Len(l) \subseteq Int
      BY <1>1
    <3> HIDE DEF I
    <3> QED BY <3>1, <3>2, FS_Subset
  <2>2. Min(I) \in I /\ \A i \in I : Min(I) <= i
    BY <1>5, <2>1, Extremes
  <2>3. first = Min(I)
    BY <1>2, <1>5
  <2>4. first \in 1 .. Len(l) /\ l[first] = Torn
    BY <2>2, <2>3
  <2>5. \A i \in 1 .. first - 1 : i \in 1 .. Len(l) /\ l[i] # Torn
    <3> SUFFICES ASSUME NEW i \in 1 .. first - 1 PROVE i \in 1 .. Len(l) /\ l[i] # Torn
      OBVIOUS
    <3>1. i \in 1 .. Len(l) /\ i < first
      BY <1>1, <2>4
    <3>2. i \in I => first <= i
      BY <2>2, <2>3
    <3> QED BY <2>4, <3>1, <3>2
  <2>6. BlocksOf(l) = SubSeq(l, 1, first - 1)
    BY <1>3, <2>4
  <2>7. \A i \in 1 .. first - 1 : l[i] \in BlockType
    BY <1>1, <2>5 DEF ItemType
  <2> DEFINE B == SubSeq(l, 1, first - 1)
  <2>8. /\ B \in Seq(BlockType) /\ Len(B) = first - 1
        /\ \A i \in 1 .. first - 1 : B[i] = l[i]
    <3>1. 1 \in Int /\ first - 1 \in Int
      BY <2>4
    <3>2. /\ B \in Seq(BlockType) /\ Len(B) = IF 1 <= first - 1 THEN first - 1 - 1 + 1 ELSE 0
          /\ \A i \in 1 .. first - 1 - 1 + 1 : B[i] = l[1 + i - 1]
      BY <2>7, <3>1, SubSeqProperties
    <3> HIDE DEF B
    <3> QED BY <2>4, <3>2
  <2> HIDE DEF B, I
  <2> QED BY <1>1, <2>4, <2>6, <2>8 DEF IsValid, B
<1> QED BY <1>4, <1>5

LEMMA ValidUnique ==
  ASSUME NEW l \in Seq(ItemType), NEW B, IsValid(l, B)
  PROVE  BlocksOf(l) = B
<1> DEFINE C == BlocksOf(l)
<1>1. IsValid(l, C)
  BY ValidBlocks
<1> HIDE DEF C
<1>2. Len(B) \in Nat /\ Len(C) \in Nat /\ B \in Seq(BlockType) /\ C \in Seq(BlockType)
  BY <1>1 DEF IsValid
<1>3. ASSUME NEW D, NEW E, IsValid(l, D), IsValid(l, E) PROVE ~(Len(D) < Len(E))
  <2> SUFFICES ASSUME Len(D) < Len(E) PROVE FALSE
    OBVIOUS
  <2>1. Len(D) \in Nat /\ Len(E) \in Nat /\ Len(l) \in Nat /\ Len(E) <= Len(l)
    BY <1>3 DEF IsValid
  <2>2. l[Len(D) + 1] = Torn
    BY <1>3, <2>1 DEF IsValid
  <2>3. Len(D) + 1 \in 1 .. Len(E)
    BY <2>1
  <2>4. l[Len(D) + 1] = E[Len(D) + 1] /\ E[Len(D) + 1] \in BlockType
    BY <1>3, <2>3, ElementOfSeq DEF IsValid
  <2> QED BY <2>2, <2>4, CorpusFetchAssumption
<1>4. Len(B) = Len(C)
  BY <1>1, <1>2, <1>3
<1>5. \A i \in 1 .. Len(B) : B[i] = C[i]
  BY <1>1, <1>4 DEF IsValid
<1> QED BY <1>2, <1>4, <1>5, SeqEqual DEF C

LEMMA BlocksAre == Blocks = BlocksOf(lane) /\ Blocks' = BlocksOf(lane')
BY DEF Blocks, FirstTorn, BlocksOf, SelectInSeq

\* Appending what is cut off, and cutting the file.
LEMMA BlocksOfTorn ==
  ASSUME NEW l \in Seq(ItemType)
  PROVE  Append(l, Torn) \in Seq(ItemType) /\ BlocksOf(Append(l, Torn)) = BlocksOf(l)
<1>1. /\ Append(l, Torn) \in Seq(ItemType) /\ Len(Append(l, Torn)) = Len(l) + 1
      /\ \A i \in 1 .. Len(l) : Append(l, Torn)[i] = l[i]
      /\ Append(l, Torn)[Len(l) + 1] = Torn /\ Len(l) \in Nat
  BY AppendProperties DEF ItemType
<1>2. IsValid(l, BlocksOf(l))
  BY ValidBlocks
<1>3. IsValid(Append(l, Torn), BlocksOf(l))
  <2> DEFINE B == BlocksOf(l)
  <2> HIDE DEF B
  <2>1. B \in Seq(BlockType) /\ Len(B) \in Nat /\ Len(B) <= Len(l)
    BY <1>2 DEF IsValid, B
  <2>2. \A i \in 1 .. Len(B) : B[i] = l[i] /\ i \in 1 .. Len(l)
    BY <1>1, <1>2, <2>1 DEF IsValid, B
  <2>3. Append(l, Torn)[Len(B) + 1] = Torn
    <3>1. CASE Len(B) = Len(l)
      BY <1>1, <3>1
    <3>2. CASE Len(B) < Len(l)
      <4>1. Len(B) + 1 \in 1 .. Len(l) /\ l[Len(B) + 1] = Torn
        BY <1>1, <1>2, <2>1, <3>2 DEF IsValid, B
      <4> QED BY <1>1, <4>1
    <3> QED BY <1>1, <2>1, <3>1, <3>2
  <2> QED BY <1>1, <2>1, <2>2, <2>3 DEF IsValid, B
<1> QED BY <1>1, <1>3, ValidUnique

LEMMA BlocksOfBlocks ==
  ASSUME NEW l \in Seq(BlockType)
  PROVE  l \in Seq(ItemType) /\ BlocksOf(l) = l
<1>1. l \in Seq(ItemType)
  BY SeqMonotonic DEF ItemType
<1>2. IsValid(l, l)
  BY DEF IsValid
<1> QED BY <1>1, <1>2, ValidUnique

LEMMA CutSeq ==
  ASSUME NEW S, NEW s \in Seq(S), NEW k \in 0 .. Len(s)
  PROVE  /\ SubSeq(s, 1, k) \in Seq(S) /\ Len(SubSeq(s, 1, k)) = k
         /\ \A i \in 1 .. k : SubSeq(s, 1, k)[i] = s[i]
<1>1. Len(s) \in Nat /\ 1 \in Int /\ k \in Int /\ k <= Len(s)
  OBVIOUS
<1>2. \A i \in 1 .. k : i \in 1 .. Len(s)
  BY <1>1
<1>3. \A i \in 1 .. k : s[i] \in S
  BY <1>2, ElementOfSeq
<1>4. /\ SubSeq(s, 1, k) \in Seq(S)
      /\ Len(SubSeq(s, 1, k)) = IF 1 <= k THEN k - 1 + 1 ELSE 0
      /\ \A i \in 1 .. k - 1 + 1 : SubSeq(s, 1, k)[i] = s[1 + i - 1]
  BY <1>1, <1>3, SubSeqProperties
<1> QED BY <1>1, <1>4

LEMMA BlocksOfCut ==
  ASSUME NEW l \in Seq(ItemType), NEW k \in 0 .. Len(l)
  PROVE  /\ SubSeq(l, 1, k) \in Seq(ItemType)
         /\ BlocksOf(SubSeq(l, 1, k)) =
              IF k <= Len(BlocksOf(l)) THEN SubSeq(BlocksOf(l), 1, k) ELSE BlocksOf(l)
<1> DEFINE B == BlocksOf(l)
           s == SubSeq(l, 1, k)
<1>1. s \in Seq(ItemType) /\ Len(s) = k /\ \A i \in 1 .. k : s[i] = l[i]
  BY CutSeq
<1>2. IsValid(l, B)
  BY ValidBlocks
<1>3. Len(B) \in Nat /\ Len(l) \in Nat /\ B \in Seq(BlockType) /\ Len(B) <= Len(l)
  BY <1>2 DEF IsValid
<1> HIDE DEF B, s
<1>4. CASE k <= Len(B)
  <2>1. k \in 0 .. Len(B)
    BY <1>3, <1>4
  <2>2. /\ SubSeq(B, 1, k) \in Seq(BlockType) /\ Len(SubSeq(B, 1, k)) = k
        /\ \A i \in 1 .. k : SubSeq(B, 1, k)[i] = B[i]
    BY <1>3, <2>1, CutSeq
  <2>3. \A i \in 1 .. k : B[i] = l[i]
    BY <1>2, <2>1 DEF IsValid
  <2>4. IsValid(s, SubSeq(B, 1, k))
    BY <1>1, <2>2, <2>3 DEF IsValid
  <2> QED BY <1>1, <1>4, <2>4, ValidUnique DEF B, s
<1>5. CASE ~(k <= Len(B))
  <2>1. Len(B) < k /\ Len(B) + 1 \in 1 .. k
    BY <1>3, <1>5
  <2>2. l[Len(B) + 1] = Torn
    BY <1>2, <1>3, <2>1 DEF IsValid
  <2>3. \A i \in 1 .. Len(B) : B[i] = l[i] /\ i \in 1 .. k
    BY <1>2, <1>3, <2>1 DEF IsValid
  <2>4. IsValid(s, B)
    BY SMTT(40), <1>1, <1>3, <2>1, <2>2, <2>3 DEF IsValid
  <2> QED BY <1>1, <1>5, <2>4, ValidUnique DEF B, s
<1> QED BY <1>4, <1>5

\* What a sequence of blocks holds.
LEMMA BlockFields ==
  ASSUME NEW b \in BlockType
  PROVE  /\ b.game \in Ids /\ b.start \in Nat /\ b.fens \in Seq(Fens)
         /\ Len(b.fens) \in Nat /\ ToSet(b.fens) \subseteq Fens /\ End(b) \in Nat
<1>1. b.game \in Ids /\ b.start \in Nat /\ b.fens \in Seq(Fens)
  BY DEF BlockType
<1>2. Len(b.fens) \in Nat /\ \A i \in DOMAIN b.fens : b.fens[i] \in Fens
  BY <1>1, LenProperties, ElementOfSeq
<1> QED BY <1>1, <1>2 DEF ToSet, End

LEMMA IdsFinite ==
  /\ Cardinality(Parsable) \in Nat /\ Ids \subseteq Nat /\ IsFiniteSet(Ids)
  /\ Ids \in SUBSET Int /\ 0 \notin Ids
  /\ NRaw \in Nat /\ NRaw # 0 /\ Parsable \subseteq 1 .. NRaw
  /\ IsFiniteSet(Parsable) /\ Parsable \in SUBSET Int
<1>1. NRaw \in Nat /\ NRaw # 0 /\ Parsable \subseteq 1 .. NRaw
  BY CorpusFetchAssumption
<1>2. IsFiniteSet(1 .. NRaw) /\ 1 .. NRaw \subseteq Int
  BY <1>1, FS_Interval
<1>3. IsFiniteSet(Parsable) /\ Parsable \in SUBSET Int
  BY <1>1, <1>2, FS_Subset
<1>4. Cardinality(Parsable) \in Nat
  BY <1>3, FS_CardinalityType
<1>5. IsFiniteSet(Ids)
  BY <1>4, FS_Interval DEF Ids
<1> QED BY <1>1, <1>3, <1>4, <1>5 DEF Ids

\* stream_pgn numbers the games in the order of the dump, without a gap.
LEMMA GameIds ==
  /\ \A raw \in Parsable : GameId(raw) \in Ids
  /\ \A r, raw \in Parsable : r < raw => GameId(r) < GameId(raw)
  /\ \A id \in Ids : \E raw \in Parsable : GameId(raw) = id
<1>1. \A raw : GameId(raw) = Rank(Parsable, raw)
  BY DEF GameId, Rank
<1>2. IsFiniteSet(Parsable) /\ Parsable \in SUBSET Int
  BY IdsFinite
<1> QED BY <1>1, <1>2, Ranks DEF Ids

LEMMA LaneSets ==
  ASSUME NEW B \in Seq(BlockType)
  PROVE  /\ Len(B) \in Nat /\ \A i \in 1 .. Len(B) : B[i] \in BlockType
         /\ B = <<>> <=> Len(B) = 0
         /\ IdsOf(B) = {B[i].game : i \in 1 .. Len(B)}
         /\ IdsOf(B) \subseteq Ids /\ IsFiniteSet(IdsOf(B))
         /\ FensOf(B) = FensBefore(B, Len(B) + 1) /\ FensOf(B) \subseteq Fens
         /\ \A i \in 1 .. Len(B) + 1 : FensBefore(B, i) \subseteq Fens /\ FensBefore(B, i) \subseteq FensOf(B)
         /\ Count(B) \in Nat
         /\ Count(B) = IF Len(B) = 0 THEN 0 ELSE End(B[Len(B)])
<1>1. Len(B) \in Nat /\ DOMAIN B = 1 .. Len(B) /\ \A i \in 1 .. Len(B) : B[i] \in BlockType
  BY ElementOfSeq, LenProperties
<1>2. B = <<>> <=> Len(B) = 0
  BY EmptySeq
<1>3. ToSet(B) = {B[i] : i \in 1 .. Len(B)}
  BY <1>1 DEF ToSet
<1>4. IdsOf(B) = {B[i].game : i \in 1 .. Len(B)}
  BY <1>3 DEF IdsOf
<1>5. \A i \in 1 .. Len(B) : /\ B[i].game \in Ids /\ ToSet(B[i].fens) \subseteq Fens
                             /\ End(B[i]) \in Nat
  BY <1>1, BlockFields
<1>6. IdsOf(B) \subseteq Ids
  BY <1>4, <1>5
<1>7. IsFiniteSet(IdsOf(B))
  BY <1>6, IdsFinite, FS_Subset
<1>8. FensOf(B) = UNION {ToSet(B[i].fens) : i \in 1 .. Len(B)}
  BY <1>3 DEF FensOf
<1>9. FensOf(B) = FensBefore(B, Len(B) + 1)
  <2>1. Len(B) + 1 - 1 = Len(B)
    BY <1>1
  <2> QED BY <1>8, <2>1 DEF FensBefore
<1>10. \A i \in 1 .. Len(B) + 1 : FensBefore(B, i) \subseteq FensOf(B)
  <2> SUFFICES ASSUME NEW i \in 1 .. Len(B) + 1, NEW j \in 1 .. i - 1
               PROVE  ToSet(B[j].fens) \subseteq FensOf(B)
    BY DEF FensBefore
  <2>1. j \in 1 .. Len(B)
    BY <1>1
  <2> QED BY <1>8, <2>1
<1>11. FensOf(B) \subseteq Fens
  BY <1>5, <1>8
<1>12. Count(B) = IF Len(B) = 0 THEN 0 ELSE End(B[Len(B)])
  BY <1>2 DEF Count, Last, End
<1>13. Count(B) \in Nat
  <2>1. CASE Len(B) = 0
    BY <1>12, <2>1
  <2>2. CASE Len(B) # 0
    <3>1. Len(B) \in 1 .. Len(B)
      BY <1>1, <2>2
    <3> QED BY <1>5, <1>12, <2>2, <3>1
  <2> QED BY <2>1, <2>2
<1> QED BY <1>1, <1>2, <1>4, <1>6, <1>7, <1>9, <1>10, <1>11, <1>12, <1>13

LEMMA AppendedLane ==
  ASSUME NEW B \in Seq(BlockType), NEW b \in BlockType
  PROVE  /\ Append(B, b) \in Seq(BlockType) /\ Len(Append(B, b)) = Len(B) + 1
         /\ \A i \in 1 .. Len(B) : Append(B, b)[i] = B[i]
         /\ Append(B, b)[Len(B) + 1] = b
         /\ IdsOf(Append(B, b)) = IdsOf(B) \cup {b.game}
         /\ FensOf(Append(B, b)) = FensOf(B) \cup ToSet(b.fens)
         /\ Count(Append(B, b)) = End(b)
         /\ \A i \in 1 .. Len(B) + 1 : FensBefore(Append(B, b), i) = FensBefore(B, i)
<1> DEFINE C == Append(B, b)
<1>1. /\ C \in Seq(BlockType) /\ Len(C) = Len(B) + 1
      /\ \A i \in 1 .. Len(B) : C[i] = B[i]
      /\ C[Len(B) + 1] = b /\ Len(B) \in Nat
  BY AppendProperties
<1> HIDE DEF C
<1>2. \A i \in 1 .. Len(C) : i \in 1 .. Len(B) \/ i = Len(B) + 1
  BY <1>1
<1>3. \A i \in 1 .. Len(B) + 1 : i \in 1 .. Len(C)
  BY <1>1
<1>4. Len(B) + 1 \in 1 .. Len(C) /\ \A i \in 1 .. Len(B) : i \in 1 .. Len(C)
  BY <1>1
<1>5. IdsOf(C) = {C[i].game : i \in 1 .. Len(C)} /\ IdsOf(B) = {B[i].game : i \in 1 .. Len(B)}
  BY <1>1, LaneSets
<1>6. IdsOf(C) = IdsOf(B) \cup {b.game}
  BY <1>1, <1>2, <1>4, <1>5
<1>7. FensOf(C) = FensOf(B) \cup ToSet(b.fens)
  <2>1. /\ FensOf(C) = UNION {ToSet(C[i].fens) : i \in 1 .. Len(C)}
        /\ FensOf(B) = UNION {ToSet(B[i].fens) : i \in 1 .. Len(B)}
    <3>1. Len(C) + 1 - 1 = Len(C) /\ Len(B) + 1 - 1 = Len(B)
      BY <1>1
    <3> QED BY <1>1, <3>1, LaneSets DEF FensBefore
  <2> QED BY <1>1, <1>2, <1>4, <2>1
<1>8. Count(C) = End(b)
  BY <1>1, LaneSets
<1>9. \A i \in 1 .. Len(B) + 1 : FensBefore(C, i) = FensBefore(B, i)
  <2> SUFFICES ASSUME NEW i \in 1 .. Len(B) + 1 PROVE FensBefore(C, i) = FensBefore(B, i)
    OBVIOUS
  <2>1. \A j \in 1 .. i - 1 : C[j] = B[j]
    BY <1>1
  <2> QED BY <2>1 DEF FensBefore
<1> QED BY <1>1, <1>6, <1>7, <1>8, <1>9 DEF C

LEMMA CutSets ==
  ASSUME NEW B \in Seq(BlockType), NEW k \in 0 .. Len(B)
  PROVE  /\ SubSeq(B, 1, k) \in Seq(BlockType) /\ Len(SubSeq(B, 1, k)) = k
         /\ \A i \in 1 .. k : i \in 1 .. Len(B) /\ SubSeq(B, 1, k)[i] = B[i]
         /\ \A i \in 1 .. k + 1 : FensBefore(SubSeq(B, 1, k), i) = FensBefore(B, i)
         /\ FensOf(SubSeq(B, 1, k)) = FensBefore(B, k + 1)
         /\ IdsOf(SubSeq(B, 1, k)) = {B[i].game : i \in 1 .. k}
         /\ Count(SubSeq(B, 1, k)) = IF k = 0 THEN 0 ELSE End(B[k])
<1> DEFINE C == SubSeq(B, 1, k)
<1>1. /\ C \in Seq(BlockType) /\ Len(C) = k
      /\ \A i \in 1 .. k : C[i] = B[i]
  BY CutSeq
<1>2. k \in Nat /\ \A i \in 1 .. k : i \in 1 .. Len(B)
  OBVIOUS
<1> HIDE DEF C
<1>3. \A i \in 1 .. k + 1 : FensBefore(C, i) = FensBefore(B, i)
  <2> SUFFICES ASSUME NEW i \in 1 .. k + 1 PROVE FensBefore(C, i) = FensBefore(B, i)
    OBVIOUS
  <2>1. \A j \in 1 .. i - 1 : C[j] = B[j]
    BY <1>1, <1>2
  <2> QED BY <2>1 DEF FensBefore
<1>4. FensOf(C) = FensBefore(B, k + 1)
  <2>1. k + 1 \in 1 .. k + 1
    BY <1>2
  <2> QED BY <1>1, <1>3, <2>1, LaneSets
<1>5. IdsOf(C) = {B[i].game : i \in 1 .. k}
  BY <1>1, LaneSets
<1>6. Count(C) = IF k = 0 THEN 0 ELSE End(B[k])
  <2>1. k # 0 => k \in 1 .. k
    BY <1>2
  <2> QED BY <1>1, <2>1, LaneSets
<1> QED BY <1>1, <1>2, <1>3, <1>4, <1>5, <1>6 DEF C

LEMMA AllRecords ==
  ASSUME NEW id \in Ids
  PROVE  /\ recs(id) \in Seq(Fens) /\ Len(recs(id)) \in Nat
         /\ SubSeq(recs(id), 1, Len(recs(id))) = recs(id)
         /\ \A n \in 0 .. Len(recs(id)), seen \in SUBSET Fens :
              Survivors(SubSeq(recs(id), 1, n), id, seen) \in Seq(Fens)
         /\ \A seen \in SUBSET Fens : Survivors(recs(id), id, seen) \in Seq(Fens)
<1>1. recs(id) \in Seq(Fens) /\ Len(recs(id)) \in Nat
  BY CorpusFetchAssumption, LenProperties
<1>2. Len(recs(id)) \in 0 .. Len(recs(id))
  BY <1>1
<1>3. SubSeq(recs(id), 1, Len(recs(id))) = recs(id)
  <2> DEFINE r == recs(id)
             t == SubSeq(r, 1, Len(r))
  <2>1. t \in Seq(Fens) /\ Len(t) = Len(r) /\ \A i \in 1 .. Len(r) : t[i] = r[i]
    BY <1>1, <1>2, CutSeq
  <2> HIDE DEF r, t
  <2>2. r \in Seq(Fens)
    BY <1>1 DEF r
  <2>3. t = r
    BY <2>1, <2>2, SeqEqual
  <2> QED BY <2>3 DEF r, t
<1>4. \A n \in 0 .. Len(recs(id)), seen \in SUBSET Fens :
        Survivors(SubSeq(recs(id), 1, n), id, seen) \in Seq(Fens)
  BY CorpusFetchAssumption
<1>5. ASSUME NEW seen \in SUBSET Fens PROVE Survivors(recs(id), id, seen) \in Seq(Fens)
  <2>1. Survivors(SubSeq(recs(id), 1, Len(recs(id))), id, seen) \in Seq(Fens)
    BY <1>2, <1>4
  <2> QED BY <1>3, <2>1
<1> QED BY <1>1, <1>3, <1>4, <1>5

LEMMA SurvivorsAre ==
  ASSUME NEW g \in Ids, NEW seen \in SUBSET Fens
  PROVE  /\ Admits(g, seen) \in Seq(Fens) /\ Len(Admits(g, seen)) \in Nat
         /\ Admits(g, seen) = <<>> <=> Len(Admits(g, seen)) = 0
         /\ ToSet(Admits(g, seen)) \subseteq Fens
         /\ Admits(g, seen) = <<>> =>
              \A more \in SUBSET Fens : seen \subseteq more => Admits(g, more) = <<>>
<1>1. Admits(g, seen) \in Seq(Fens)
  BY AllRecords DEF Admits
<1>2. \A i \in DOMAIN Admits(g, seen) : Admits(g, seen)[i] \in Fens
  BY <1>1, LenProperties, ElementOfSeq
<1>3. ASSUME Admits(g, seen) = <<>>, NEW more \in SUBSET Fens, seen \subseteq more
      PROVE  Admits(g, more) = <<>>
  <2>1. Admits(g, seen \cup more) = <<>>
    BY <1>3, CorpusFetchAssumption DEF Admits
  <2>2. seen \cup more = more
    BY <1>3
  <2> QED BY <2>1, <2>2
<1> QED BY <1>1, <1>2, <1>3, EmptySeq, LenProperties DEF ToSet

\* Contiguous and Grown of a lane with one block more, and of its beginning.
LEMMA ContiguousAppend ==
  ASSUME NEW B \in Seq(BlockType), NEW b \in BlockType,
         Contiguous(B), b.start = Count(B)
  PROVE  Contiguous(Append(B, b))
<1> DEFINE C == Append(B, b)
           n == Len(B)
<1>1. /\ n \in Nat /\ Len(C) = n + 1 /\ C[n + 1] = b
      /\ \A i \in 1 .. n : C[i] = B[i]
  BY AppendedLane, LaneSets
<1>2. b.start = IF n = 0 THEN 0 ELSE End(B[n])
  BY LaneSets
<1>3. \A i \in 1 .. n : End(B[i]) \in Nat /\ B[i].start \in Nat
  BY LaneSets, BlockFields
<1>4. B = <<>> <=> n = 0
  BY LaneSets
<1> HIDE DEF C, n
<1>5. C[1].start = 0
  <2>1. CASE n = 0
    BY <1>1, <1>2, <2>1
  <2>2. CASE n # 0
    <3>1. 1 \in 1 .. n
      BY <1>1, <2>2
    <3> QED BY <1>1, <1>4, <2>2, <3>1 DEF Contiguous
  <2> QED BY <2>1, <2>2
<1>6. \A i \in 2 .. Len(C) : C[i].start = End(C[i - 1])
  <2> SUFFICES ASSUME NEW i \in 2 .. n + 1 PROVE C[i].start = End(C[i - 1])
    BY <1>1
  <2>1. i - 1 \in 1 .. n
    BY <1>1
  <2>2. CASE i = n + 1
    <3>1. i - 1 = n /\ n # 0
      BY <1>1, <2>2
    <3> QED BY <1>1, <1>2, <2>1, <2>2, <3>1
  <2>3. CASE i # n + 1
    <3>1. i \in 2 .. n /\ i \in 1 .. n
      BY <1>1, <2>3
    <3>2. B[i].start = End(B[i - 1])
      BY <3>1 DEF Contiguous, n
    <3> QED BY <1>1, <2>1, <3>1, <3>2
  <2> QED BY <2>2, <2>3
<1>7. \A i, j \in 1 .. Len(C) : i < j => End(C[i]) <= C[j].start
  <2> SUFFICES ASSUME NEW i \in 1 .. n + 1, NEW j \in 1 .. n + 1, i < j
               PROVE  End(C[i]) <= C[j].start
    BY <1>1
  <2>1. i \in 1 .. n /\ C[i] = B[i]
    BY <1>1
  <2>2. CASE j = n + 1
    <3>1. C[j].start = End(B[n])
      BY <1>1, <1>2, <2>1, <2>2
    <3>2. CASE i = n
      BY <1>3, <2>1, <3>1, <3>2
    <3>3. CASE i # n
      <4>1. i < n /\ n \in 1 .. n
        BY <1>1, <2>1, <3>3
      <4>2. End(B[i]) <= B[n].start
        BY <2>1, <4>1 DEF Contiguous, n
      <4>3. B[n].start <= End(B[n])
        <5>1. B[n] \in BlockType
          BY <4>1, LaneSets DEF n
        <5>2. B[n].start \in Nat /\ Len(B[n].fens) \in Nat
          BY <5>1, BlockFields
        <5> QED BY <5>2 DEF End
      <4>4. End(B[i]) \in Nat /\ B[n].start \in Nat /\ End(B[n]) \in Nat
        BY <1>3, <2>1, <4>1
      <4> QED BY <2>1, <3>1, <4>2, <4>3, <4>4
    <3> QED BY <3>2, <3>3
  <2>3. CASE j # n + 1
    <3>1. j \in 1 .. n /\ C[j] = B[j]
      BY <1>1, <2>3
    <3> QED BY <2>1, <3>1 DEF Contiguous, n
  <2> QED BY <2>2, <2>3
<1> QED BY <1>5, <1>6, <1>7 DEF Contiguous, C

LEMMA ContiguousCut ==
  ASSUME NEW B \in Seq(BlockType), Contiguous(B), NEW k \in 0 .. Len(B)
  PROVE  Contiguous(SubSeq(B, 1, k))
<1> DEFINE C == SubSeq(B, 1, k)
<1>1. /\ Len(C) = k /\ C \in Seq(BlockType)
      /\ \A i \in 1 .. k : i \in 1 .. Len(B) /\ C[i] = B[i]
  BY CutSets
<1>2. k \in Nat /\ Len(B) \in Nat /\ k <= Len(B)
  BY LaneSets
<1>3. C # <<>> => k # 0 /\ B # <<>>
  BY <1>1, <1>2, LaneSets
<1> HIDE DEF C
<1>4. C # <<>> => C[1].start = 0
  <2>1. k # 0 => 1 \in 1 .. k
    BY <1>2
  <2> QED BY <1>1, <1>3, <2>1 DEF Contiguous
<1>5. ASSUME NEW i \in 2 .. k PROVE C[i].start = End(C[i - 1])
  <2>1. i \in 2 .. Len(B) /\ i \in 1 .. k /\ i - 1 \in 1 .. k
    BY <1>2
  <2> QED BY <1>1, <2>1 DEF Contiguous
<1>6. \A i, j \in 1 .. k : i < j => End(C[i]) <= C[j].start
  BY <1>1 DEF Contiguous
<1> QED BY <1>1, <1>4, <1>5, <1>6 DEF Contiguous, C

LEMMA GrownAppend ==
  ASSUME NEW B \in Seq(BlockType), NEW b \in BlockType,
         Grown(B), B = <<>> \/ B[Len(B)].fens = All(B, Len(B)),
         \A h \in IdsOf(B) : h < b.game,
         Len(b.fens) > 0, Prefix(b.fens, Admits(b.game, FensOf(B))),
         \A g \in Ids : g < b.game /\ (\A h \in IdsOf(B) : h < g) =>
                            Admits(g, FensOf(B)) = <<>>
  PROVE  Grown(Append(B, b))
<1> DEFINE C == Append(B, b)
           n == Len(B)
<1>1. /\ n \in Nat /\ Len(C) = n + 1 /\ C[n + 1] = b
      /\ \A i \in 1 .. n : C[i] = B[i]
      /\ \A i \in 1 .. n + 1 : FensBefore(C, i) = FensBefore(B, i)
  BY AppendedLane, LaneSets
<1>2. /\ FensOf(B) = FensBefore(B, n + 1)
      /\ IdsOf(B) = {B[i].game : i \in 1 .. n}
      /\ B = <<>> <=> n = 0
      /\ \A i \in 1 .. n : B[i].game \in Ids
  BY LaneSets, BlockFields
<1>3. n + 1 \in 1 .. n + 1 /\ \A i \in 1 .. n : i \in 1 .. n + 1
  BY <1>1
<1> HIDE DEF C, n
<1>4. (\A i \in 1 .. n : All(C, i) = All(B, i)) /\ All(C, n + 1) = Admits(b.game, FensOf(B))
  BY <1>1, <1>2, <1>3 DEF All
<1>5. \A i \in 1 .. n + 1 : i \in 1 .. n \/ i = n + 1
  BY <1>1
<1>6. \A i \in 1 .. n + 1 : Len(C[i].fens) > 0 /\ Prefix(C[i].fens, All(C, i))
  BY <1>1, <1>4, <1>5 DEF Grown, n
<1>7. \A i \in 1 .. n : C[i].fens = All(C, i)
  <2> SUFFICES ASSUME NEW i \in 1 .. n PROVE B[i].fens = All(B, i)
    BY <1>1, <1>4
  <2>1. CASE i = n
    BY <1>1, <1>2, <2>1 DEF n
  <2>2. CASE i # n
    <3>1. i \in 1 .. n - 1
      BY <1>1, <2>2
    <3> QED BY <3>1 DEF Grown, n
  <2> QED BY <2>1, <2>2
<1>8. ASSUME NEW i \in 1 .. n + 1, NEW j \in 1 .. n + 1, i < j PROVE C[i].game < C[j].game
  <2>1. i \in 1 .. n
    BY <1>1, <1>8
  <2>2. CASE j = n + 1
    BY <1>1, <1>2, <2>1, <2>2
  <2>3. CASE j # n + 1
    <3>1. j \in 1 .. n
      BY <1>5, <2>3
    <3> QED BY <1>1, <1>8, <2>1, <3>1 DEF Grown, n
  <2> QED BY <2>2, <2>3
<1>9. ASSUME NEW i \in 1 .. n + 1, NEW g \in Ids,
             g < C[i].game, i > 1 => C[i - 1].game < g
      PROVE  Admits(g, FensBefore(C, i)) = <<>>
  <2>1. CASE i \in 1 .. n
    <3>1. i > 1 => i - 1 \in 1 .. n
      BY <1>1, <2>1
    <3>2. i > 1 => B[i - 1].game < g
      BY <1>1, <1>9, <3>1
    <3>3. g < B[i].game
      BY <1>1, <1>9, <2>1
    <3>4. Admits(g, FensBefore(B, i)) = <<>>
      BY <2>1, <3>2, <3>3 DEF Grown, n
    <3> QED BY <1>1, <1>3, <2>1, <3>4
  <2>2. CASE i = n + 1
    <3>1. \A h \in IdsOf(B) : h < g
      <4> SUFFICES ASSUME NEW k \in 1 .. n PROVE B[k].game < g
        BY <1>2
      <4>1. n \in 1 .. n /\ n + 1 > 1 /\ n + 1 - 1 = n
        BY <1>1
      <4>2. C[n].game = B[n].game
        BY <1>1, <4>1
      <4>3. B[n].game < g
        BY <1>9, <2>2, <4>1, <4>2
      <4>4. CASE k = n
        BY <4>3, <4>4
      <4>5. CASE k # n
        <5>1. k < n
          BY <1>1, <4>5
        <5>2. B[k].game < B[n].game
          BY <4>1, <5>1 DEF Grown, n
        <5>3. B[k].game \in Nat /\ B[n].game \in Nat /\ g \in Nat
          BY <1>2, <4>1, IdsFinite
        <5> QED BY <4>3, <5>2, <5>3
      <4> QED BY <4>4, <4>5
    <3>2. g < b.game
      BY <1>1, <1>9, <2>2
    <3> QED BY <1>1, <1>2, <1>3, <2>2, <3>1, <3>2
  <2> QED BY <1>5, <2>1, <2>2
<1>10. n + 1 - 1 = n
  BY <1>1
<1> QED BY <1>1, <1>6, <1>7, <1>8, <1>9, <1>10 DEF Grown, C

LEMMA GrownCut ==
  ASSUME NEW B \in Seq(BlockType), Grown(B), NEW k \in 0 .. Len(B)
  PROVE  /\ Grown(SubSeq(B, 1, k))
         /\ k < Len(B) => \/ SubSeq(B, 1, k) = <<>>
                          \/ /\ Len(SubSeq(B, 1, k)) = k
                             /\ SubSeq(B, 1, k)[k].fens = All(SubSeq(B, 1, k), k)
<1> DEFINE C == SubSeq(B, 1, k)
<1>1. /\ Len(C) = k /\ C \in Seq(BlockType)
      /\ \A i \in 1 .. k : i \in 1 .. Len(B) /\ C[i] = B[i]
      /\ \A i \in 1 .. k + 1 : FensBefore(C, i) = FensBefore(B, i)
  BY CutSets
<1>2. k \in Nat /\ Len(B) \in Nat /\ k <= Len(B)
  BY LaneSets
<1>3. \A i \in 1 .. k : i \in 1 .. k + 1 /\ (i > 1 => i - 1 \in 1 .. k)
  BY <1>2
<1>4. C = <<>> <=> k = 0
  BY <1>1, LaneSets
<1> HIDE DEF C
<1>5. \A i \in 1 .. k : All(C, i) = All(B, i)
  BY <1>1, <1>3 DEF All
<1>6. \A i \in 1 .. k : Len(C[i].fens) > 0 /\ Prefix(C[i].fens, All(C, i))
  BY <1>1, <1>5 DEF Grown
<1>7. ASSUME NEW i \in 1 .. k, i < Len(B) PROVE C[i].fens = All(C, i)
  <2>1. i \in 1 .. Len(B) - 1
    BY <1>2, <1>7
  <2> QED BY <1>1, <1>5, <2>1 DEF Grown
<1>8. \A i, j \in 1 .. k : i < j => C[i].game < C[j].game
  BY <1>1 DEF Grown
<1>9. ASSUME NEW i \in 1 .. k, NEW g \in Ids,
             g < C[i].game, i > 1 => C[i - 1].game < g
      PROVE  Admits(g, FensBefore(C, i)) = <<>>
  <2>1. i > 1 => B[i - 1].game < g
    BY <1>1, <1>3, <1>9
  <2>2. i \in 1 .. Len(B) /\ g < B[i].game
    BY <1>1, <1>9
  <2>3. Admits(g, FensBefore(B, i)) = <<>>
    BY <2>1, <2>2 DEF Grown
  <2> QED BY <1>1, <1>3, <2>3
<1>10. \A i \in 1 .. k - 1 : C[i].fens = All(C, i)
  <2> SUFFICES ASSUME NEW i \in 1 .. k - 1 PROVE C[i].fens = All(C, i)
    OBVIOUS
  <2>1. i \in 1 .. k /\ i < Len(B)
    BY <1>2
  <2> QED BY <1>7, <2>1
<1>11. Grown(C)
  BY <1>1, <1>6, <1>8, <1>9, <1>10 DEF Grown
<1>12. k < Len(B) => C = <<>> \/ C[k].fens = All(C, k)
  <2>1. k = 0 \/ k \in 1 .. k
    BY <1>2
  <2> QED BY <1>4, <1>7, <2>1
<1> QED BY <1>1, <1>11, <1>12 DEF C

\* What the blocks of the lane are in every state.
LEMMA LaneTypes ==
  ASSUME TypeOK
  PROVE  /\ lane \in Seq(ItemType) /\ Blocks \in Seq(BlockType)
         /\ IsValid(lane, Blocks) /\ Blocks = BlocksOf(lane)
         /\ IdsOf(Blocks) \subseteq Ids /\ IsFiniteSet(IdsOf(Blocks))
         /\ FensOf(Blocks) \subseteq Fens /\ Count(Blocks) \in Nat
<1>1. lane \in Seq(ItemType)
  BY DEF TypeOK, ItemType
<1>2. Blocks = BlocksOf(lane)
  BY BlocksAre
<1>3. IsValid(lane, Blocks)
  BY <1>1, <1>2, ValidBlocks
<1>4. Blocks \in Seq(BlockType)
  BY <1>3 DEF IsValid
<1> QED BY <1>1, <1>2, <1>3, <1>4, LaneSets

\* What is left of the records of a game when there is room for count more.
LEMMA TruncatedIs ==
  ASSUME NEW s \in Seq(Fens), NEW count \in Nat, target \in Nat
  PROVE  /\ Truncated(s, count) \in Seq(Fens) /\ Prefix(Truncated(s, count), s)
         /\ Len(Truncated(s, count)) \in Nat /\ ToSet(Truncated(s, count)) \subseteq Fens
         /\ Truncated(s, count) = <<>> <=> s = <<>> \/ count >= target
         /\ Truncated(s, count) # <<>> <=> Len(Truncated(s, count)) > 0
         /\ Truncated(s, count) # <<>> => count + Len(Truncated(s, count)) <= target
         /\ Truncated(s, count) = s \/ count + Len(Truncated(s, count)) >= target
<1> DEFINE room == IF count < target THEN target - count ELSE 0
           t == Truncated(s, count)
<1>1. t = IF Len(s) > room THEN SubSeq(s, 1, room) ELSE s
  BY DEF Truncated
<1>2. room \in Nat /\ (count < target => room = target - count /\ room > 0)
      /\ (count >= target => room = 0)
  OBVIOUS
<1>3. Len(s) \in Nat /\ (s = <<>> <=> Len(s) = 0)
  BY EmptySeq, LenProperties
<1> HIDE DEF room, t
<1>4. CASE Len(s) > room
  <2>1. room \in 0 .. Len(s)
    BY <1>2, <1>3, <1>4
  <2>2. t \in Seq(Fens) /\ Len(t) = room /\ \A i \in 1 .. room : t[i] = s[i]
    BY <1>1, <1>4, <2>1, CutSeq
  <2>3. Prefix(t, s)
    BY <1>2, <1>3, <1>4, <2>2 DEF Prefix
  <2>4. t = <<>> <=> room = 0
    BY <2>2, EmptySeq
  <2>5. room = 0 <=> count >= target
    BY <1>2
  <2>6. s # <<>>
    BY <1>2, <1>3, <1>4
  <2>7. count + Len(t) >= target /\ (t # <<>> => count + Len(t) <= target)
    BY <1>2, <2>2, <2>4
  <2>8. /\ t = <<>> <=> s = <<>> \/ count >= target
        /\ t # <<>> <=> Len(t) > 0
    BY <1>2, <2>2, <2>4, <2>5, <2>6
  <2>9. ToSet(t) \subseteq Fens
    BY <2>2, ElementOfSeq, LenProperties DEF ToSet
  <2> QED BY <1>2, <2>2, <2>3, <2>7, <2>8, <2>9 DEF t
<1>5. CASE ~(Len(s) > room)
  <2>1. t = s
    BY <1>1, <1>5
  <2>2. Prefix(t, s)
    BY <1>3, <2>1 DEF Prefix
  <2>3. count >= target => Len(s) = 0
    BY <1>2, <1>3, <1>5
  <2>4. Len(s) > 0 => count + Len(s) <= target
    BY <1>2, <1>3, <1>5
  <2>5. ToSet(t) \subseteq Fens
    BY <2>1, ElementOfSeq, LenProperties DEF ToSet
  <2> QED BY <1>3, <2>1, <2>2, <2>3, <2>4, <2>5 DEF t
<1> QED BY <1>4, <1>5

\* A lane that ends cut.
LEMMA EndsCutIs ==
  ASSUME TypeOK
  PROVE  EndsCut <=> Blocks # <<>> /\ Blocks[Len(Blocks)].fens # All(Blocks, Len(Blocks))
<1> DEFINE B == Blocks
           n == Len(B)
<1>1. B \in Seq(BlockType) /\ n \in Nat /\ (B = <<>> <=> n = 0)
  BY LaneTypes, LaneSets
<1>2. ASSUME B # <<>> PROVE FensOf(Front(B)) = FensBefore(B, n) /\ Last(B) = B[n]
  <2>1. n - 1 \in 0 .. n /\ n - 1 + 1 = n
    BY <1>1, <1>2
  <2>2. Front(B) = SubSeq(B, 1, n - 1)
    BY DEF Front
  <2>3. FensOf(SubSeq(B, 1, n - 1)) = FensBefore(B, n - 1 + 1)
    BY <1>1, <2>1, CutSets
  <2> QED BY <2>1, <2>2, <2>3 DEF Last
<1> QED BY <1>2 DEF EndsCut, All, Admits

\* No block ends above the positions of the lane.
LEMMA CountAbove ==
  ASSUME NEW B \in Seq(BlockType), Contiguous(B), NEW i \in 1 .. Len(B)
  PROVE  End(B[i]) <= Count(B) /\ Count(SubSeq(B, 1, i - 1)) = B[i].start
         /\ B[i].start <= End(B[i])
<1>1. Len(B) \in Nat /\ Len(B) \in 1 .. Len(B) /\ Count(B) = End(B[Len(B)])
  BY LaneSets
<1>2. \A j \in 1 .. Len(B) : End(B[j]) \in Nat /\ B[j].start \in Nat /\ B[j].start <= End(B[j])
  <2> SUFFICES ASSUME NEW j \in 1 .. Len(B)
               PROVE  End(B[j]) \in Nat /\ B[j].start \in Nat /\ B[j].start <= End(B[j])
    OBVIOUS
  <2>1. B[j].start \in Nat /\ Len(B[j].fens) \in Nat
    BY LaneSets, BlockFields
  <2> QED BY <2>1 DEF End
<1>3. End(B[i]) <= Count(B)
  <2>1. CASE i = Len(B)
    BY <1>1, <1>2, <2>1
  <2>2. CASE i # Len(B)
    <3>1. i < Len(B)
      BY <1>1, <2>2
    <3>2. End(B[i]) <= B[Len(B)].start
      BY <1>1, <3>1 DEF Contiguous
    <3> QED BY <1>1, <1>2, <3>2
  <2> QED BY <2>1, <2>2
<1>4. Count(SubSeq(B, 1, i - 1)) = B[i].start
  <2>1. i - 1 \in 0 .. Len(B)
    BY <1>1
  <2>2. Count(SubSeq(B, 1, i - 1)) = IF i - 1 = 0 THEN 0 ELSE End(B[i - 1])
    BY <2>1, CutSets
  <2>3. CASE i = 1
    <3>1. B # <<>>
      BY <1>1, LaneSets
    <3> QED BY <2>2, <2>3, <3>1 DEF Contiguous
  <2>4. CASE i # 1
    <3>1. i \in 2 .. Len(B)
      BY <1>1, <2>4
    <3> QED BY <2>2, <3>1 DEF Contiguous
  <2> QED BY <2>3, <2>4
<1> QED BY <1>2, <1>3, <1>4

LEMMA CutCount ==
  ASSUME NEW B \in Seq(BlockType), Contiguous(B), NEW k \in 0 .. Len(B)
  PROVE  Count(SubSeq(B, 1, k)) <= Count(B)
<1>1. Count(SubSeq(B, 1, k)) = IF k = 0 THEN 0 ELSE End(B[k])
  BY CutSets
<1>2. Count(B) \in Nat
  BY LaneSets
<1>3. CASE k = 0
  BY <1>1, <1>2, <1>3
<1>4. CASE k # 0
  <2>1. k \in 1 .. Len(B)
    BY <1>4
  <2> QED BY <1>1, <1>4, <2>1, CountAbove
<1> QED BY <1>3, <1>4

\* A game that the lane is past, and that it does not hold, adds nothing.
LEMMA PassedAddsNothing ==
  ASSUME NEW B \in Seq(BlockType), Grown(B), NEW g \in Ids, g \notin IdsOf(B),
         NEW h \in IdsOf(B), g < h
  PROVE  \E i \in 1 .. Len(B) :
           /\ Admits(g, FensBefore(B, i)) = <<>>
           /\ \A j \in 1 .. Len(B) : B[j].game < g <=> j < i
<1> DEFINE n == Len(B)
           S == {i \in 1 .. n : g < B[i].game}
<1>1. /\ n \in Nat /\ IdsOf(B) = {B[i].game : i \in 1 .. n}
      /\ \A i \in 1 .. n : B[i].game \in Ids
  BY LaneSets, BlockFields
<1>2. Ids \subseteq Nat
  BY IdsFinite
<1> HIDE DEF n
<1>3. S # {} /\ S \in SUBSET (1 .. n)
  BY <1>1
<1>4. IsFiniteSet(S) /\ S \in SUBSET Int
  <2>1. IsFiniteSet(1 .. n) /\ 1 .. n \subseteq Int
    BY <1>1, FS_Interval
  <2> HIDE DEF S
  <2> QED BY <1>3, <2>1, FS_Subset
<1>5. PICK i \in S : \A j \in S : i <= j
  <2> HIDE DEF S
  <2> QED BY <1>3, <1>4, Extremes
<1>6. i \in 1 .. n /\ g < B[i].game
  BY <1>5
<1>7. \A j \in 1 .. n : B[j].game # g
  BY <1>1
<1>8. ASSUME NEW j \in 1 .. n PROVE B[j].game < g <=> j < i
  <2>1. B[j].game \in Nat /\ g \in Nat
    BY <1>1, <1>2
  <2>2. CASE j < i
    <3>1. j \notin S
      BY <1>1, <1>5, <1>6, <2>2
    <3>2. ~(g < B[j].game)
      BY <3>1
    <3> QED BY <1>7, <2>1, <2>2, <3>2
  <2>3. CASE j = i
    <3>1. ~(B[j].game < g)
      BY <1>6, <2>1, <2>3
    <3> QED BY <1>6, <2>3, <3>1
  <2>4. CASE i < j
    <3>1. B[i].game < B[j].game
      BY <1>6, <2>4 DEF Grown, n
    <3>2. B[i].game \in Nat
      BY <1>1, <1>2, <1>6
    <3>3. ~(B[j].game < g) /\ ~(j < i)
      BY <1>1, <1>6, <2>1, <2>4, <3>1, <3>2
    <3> QED BY <3>3
  <2> QED BY <1>6, <2>2, <2>3, <2>4
<1>9. i > 1 => B[i - 1].game < g
  <2> SUFFICES ASSUME i > 1 PROVE B[i - 1].game < g
    OBVIOUS
  <2>1. i - 1 \in 1 .. n /\ i - 1 < i
    BY <1>1, <1>6
  <2> QED BY <1>8, <2>1
<1>10. Admits(g, FensBefore(B, i)) = <<>>
  BY <1>6, <1>9 DEF Grown, n
<1> QED BY <1>6, <1>8, <1>10 DEF n

\* What is settled stays settled when the lane grows.
LEMMA SettledAppend ==
  ASSUME NEW B \in Seq(BlockType), NEW b \in BlockType, NEW g \in Ids,
         b.start = Count(B), Settled(B, g), target \in Nat
  PROVE  Settled(Append(B, b), g)
<1> DEFINE C == Append(B, b)
<1>1. /\ IdsOf(C) = IdsOf(B) \cup {b.game} /\ FensOf(C) = FensOf(B) \cup ToSet(b.fens)
      /\ Count(C) = End(b) /\ C \in Seq(BlockType)
  BY AppendedLane
<1>2. FensOf(B) \subseteq Fens /\ FensOf(C) \subseteq Fens /\ Count(B) \in Nat
  BY <1>1, LaneSets
<1> HIDE DEF C
<1>3. CASE \E h \in IdsOf(B) : g <= h
  BY <1>1, <1>3 DEF Settled, C
<1>4. CASE Admits(g, FensOf(B)) = <<>>
  <2>2. Admits(g, FensOf(C)) = <<>>
    BY <1>1, <1>2, <1>4, SurvivorsAre
  <2> QED BY <2>2 DEF Settled, C
<1>5. CASE Count(B) >= target
  <2>1. Len(b.fens) \in Nat
    BY BlockFields
  <2>2. Count(C) >= target
    BY <1>1, <1>2, <1>5, <2>1 DEF End
  <2> QED BY <2>2 DEF Settled, C
<1> QED BY <1>3, <1>4, <1>5 DEF Settled

\* What a game adds to a lane.
LEMMA AddsIs ==
  ASSUME target \in Nat, NEW g \in Ids, NEW B \in Seq(BlockType)
  PROVE  /\ Admits(g, FensOf(B)) = <<>> \/ Count(B) >= target => Adds(g, B) = <<>>
         /\ \A f \in Seq(Fens) :
              /\ Prefix(f, Admits(g, FensOf(B))) /\ Count(B) + Len(f) <= target
              /\ f = Admits(g, FensOf(B)) \/ Count(B) + Len(f) >= target
              => Adds(g, B) = f
<1> DEFINE u == Admits(g, FensOf(B))
           c == Count(B)
           t == Truncated(u, c)
<1>1. u \in Seq(Fens) /\ Len(u) \in Nat /\ c \in Nat /\ (u = <<>> <=> Len(u) = 0)
  BY LaneSets, SurvivorsAre
<1>2. Adds(g, B) = t
  BY DEF Adds, Admits
<1> HIDE DEF u, c
<1>3. /\ t \in Seq(Fens) /\ Prefix(t, u) /\ Len(t) \in Nat
      /\ t = <<>> <=> u = <<>> \/ c >= target
      /\ t # <<>> <=> Len(t) > 0
      /\ t # <<>> => c + Len(t) <= target
      /\ t = u \/ c + Len(t) >= target
  BY <1>1, TruncatedIs
<1> HIDE DEF t
<1>4. ASSUME NEW f \in Seq(Fens), Prefix(f, u), c + Len(f) <= target,
             f = u \/ c + Len(f) >= target
      PROVE  t = f
  <2>1. /\ Len(f) \in Nat /\ Len(f) <= Len(u) /\ \A i \in 1 .. Len(f) : f[i] = u[i]
        /\ Len(t) <= Len(u) /\ \A i \in 1 .. Len(t) : t[i] = u[i]
    BY <1>3, <1>4, LenProperties DEF Prefix
  <2>2. Len(f) = Len(u) \/ c + Len(f) >= target
    BY <1>4
  <2>3. Len(t) = Len(u) \/ c + Len(t) >= target
    BY <1>3
  <2>4. Len(t) > 0 => c + Len(t) <= target
    BY <1>3
  <2>5. Len(t) = 0 => Len(u) = 0 \/ c >= target
    BY <1>1, <1>3
  <2>6. Len(t) = Len(f)
    BY <1>1, <1>3, <1>4, <2>1, <2>2, <2>3, <2>4, <2>5
  <2> QED BY <1>3, <2>1, <2>6, SeqEqual
<1> QED BY <1>2, <1>3, <1>4 DEF u, c, t
-----------------------------------------------------------------------------
CallType == [resume_skip_through : Ids \cup {0},
             max_appended_game_id : Ids \cup {0}, fen_set : SUBSET Fens,
             committed : Nat, boundary : Nat \cup {None}, commit_abort : BOOLEAN]
AttType == [got : 0 .. NRaw, fed : 0 .. NRaw, lost : BOOLEAN,
            games_since_resume : BOOLEAN,
            noprogress_resumes : 0 .. max_noprogress_resumes + 1,
            eof_reason : {None, "InnerEof", "Target"},
            failure : {None, "Stall", "Transient", "Permanent", "RangeIgnored"}]

LEMMA Basics ==
  ASSUME TypeOK
  PROVE  /\ lane \in Seq(ItemType) /\ call \in CallType /\ att \in AttType
         /\ target \in Nat /\ target # 0 /\ NewCall \in CallType /\ NewAttempt \in AttType
         /\ att.got \in Nat /\ att.fed \in Nat /\ NRaw \in Nat
         /\ call.committed \in Nat /\ call.fen_set \subseteq Fens
<1>1. lane \in Seq(ItemType) /\ call \in CallType /\ att \in AttType
  BY DEF TypeOK, ItemType, CallType, AttType
<1>2. target \in Nat /\ target # 0
  BY CorpusFetchAssumption DEF TypeOK
<1>3. NRaw \in Nat /\ max_noprogress_resumes \in Nat
  BY CorpusFetchAssumption
<1>4. NewCall \in CallType
  BY DEF NewCall, CallType
<1>5. NewAttempt \in AttType
  BY <1>3 DEF NewAttempt, AttType
<1>6. att.got \in Nat /\ att.fed \in Nat
  BY <1>1, <1>3 DEF AttType
<1>7. call.committed \in Nat /\ call.fen_set \subseteq Fens
  BY <1>1 DEF CallType
<1> QED BY <1>1, <1>2, <1>3, <1>4, <1>5, <1>6, <1>7

\* What Ingest does: nothing, or an append that may fail.
Partial(id) == {SubSeq(recs(id), 1, n) : n \in 0 .. Len(recs(id))}
Appended(kept, s) ==
  /\ s \in Seq(Fens) /\ kept \in Seq(Fens) /\ Prefix(kept, s) /\ ToSet(kept) \subseteq Fens
  /\ Len(kept) \in Nat /\ Len(kept) > 0 /\ kept # <<>>
  /\ call.committed + Len(kept) <= target
  /\ kept = s \/ call.committed + Len(kept) >= target

LEMMA IngestIs ==
  ASSUME TypeOK, NEW records, Ingest(att.fed, records),
         att.fed \in Parsable => records \in Partial(GameId(att.fed))
  PROVE  \/ /\ UNCHANGED <<lane, call, gapped, faults>>
            /\ att.fed \in Parsable =>
                 \/ Seen(GameId(att.fed)) \/ target_reached
                 \/ Survivors(records, GameId(att.fed), call.fen_set) = <<>>
         \/ /\ att.fed \in Parsable /\ ~Seen(GameId(att.fed)) /\ ~target_reached
            /\ \E kept, s :
                 /\ s = Survivors(records, GameId(att.fed), call.fen_set) /\ Appended(kept, s)
                 /\ AppendBlock(GameId(att.fed), kept, s) \/ AppendFails(kept)
<1> DEFINE raw == att.fed
           id == GameId(raw)
           s == Survivors(records, id, call.fen_set)
           kept == Kept(raw, records)
<1>1. CASE raw \notin Parsable \/ Seen(id) \/ target_reached
  <2>1. kept = <<>>
    BY <1>1 DEF Kept
  <2> QED BY <1>1, <2>1 DEF Ingest, LaneKept
<1>2. CASE ~(raw \notin Parsable \/ Seen(id) \/ target_reached)
  <2>1. kept = Truncated(s, call.committed) /\ id \in Ids /\ records \in Partial(id)
    BY <1>2, GameIds DEF Kept
  <2>2. s \in Seq(Fens)
    <3>1. PICK n \in 0 .. Len(recs(id)) : records = SubSeq(recs(id), 1, n)
      BY <2>1 DEF Partial
    <3>2. call.fen_set \in SUBSET Fens
      BY Basics
    <3> QED BY <2>1, <3>1, <3>2, AllRecords
  <2>3. call.committed \in Nat /\ target \in Nat
    BY Basics
  <2>4. Ingest(raw, records)
    OBVIOUS
  <2>5. IF kept = <<>> THEN LaneKept /\ UNCHANGED faults
        ELSE AppendBlock(id, kept, s) \/ AppendFails(kept)
    BY <2>4 DEF Ingest
  <2> HIDE DEF s, kept
  <2>6. /\ kept \in Seq(Fens) /\ Prefix(kept, s) /\ ToSet(kept) \subseteq Fens
        /\ Len(kept) \in Nat
        /\ kept = <<>> <=> s = <<>> \/ call.committed >= target
        /\ kept # <<>> <=> Len(kept) > 0
        /\ kept # <<>> => call.committed + Len(kept) <= target
        /\ kept = s \/ call.committed + Len(kept) >= target
    BY <2>1, <2>2, <2>3, TruncatedIs
  <2>7. CASE kept = <<>>
    BY <2>5, <2>6, <2>7 DEF LaneKept, s, target_reached
  <2>8. CASE kept # <<>>
    <3>1. Appended(kept, s)
      BY <2>2, <2>6, <2>8 DEF Appended
    <3>2. AppendBlock(id, kept, s) \/ AppendFails(kept)
      BY <2>5, <2>8
    <3>3. s = Survivors(records, GameId(att.fed), call.fen_set)
      BY DEF s
    <3> HIDE DEF id
    <3> QED BY <1>2, <3>1, <3>2, <3>3 DEF id
  <2> QED BY <2>7, <2>8
<1> QED BY <1>1, <1>2

\* The three actions that hand a game to Ingest.
LEMMA Whole ==
  ASSUME TypeOK, NEW raw
  PROVE  raw \in Parsable => recs(GameId(raw)) \in Partial(GameId(raw))
<1> SUFFICES ASSUME raw \in Parsable PROVE recs(GameId(raw)) \in Partial(GameId(raw))
  OBVIOUS
<1>1. GameId(raw) \in Ids
  BY GameIds
<1> DEFINE id == GameId(raw)
<1> HIDE DEF id
<1>2. Len(recs(id)) \in Nat /\ SubSeq(recs(id), 1, Len(recs(id))) = recs(id)
  BY <1>1, AllRecords DEF id
<1>3. Len(recs(id)) \in 0 .. Len(recs(id))
  BY <1>2
<1>4. recs(id) \in Partial(id)
  BY <1>2, <1>3 DEF Partial
<1> QED BY <1>4 DEF id

\* The ids below which a resume does not look.
LEMMA ResumeSkips ==
  ASSUME NEW B \in Seq(BlockType)
  PROVE  /\ resume_skip_through(B) \in IdsOf(B) \cup {0}
         /\ resume_skip_through(B) \in Ids \cup {0}
         /\ \A h \in IdsOf(B) : h <= resume_skip_through(B)
<1>1. /\ IdsOf(B) \subseteq Ids /\ IsFiniteSet(IdsOf(B))
      /\ IdsOf(B) = {B[i].game : i \in 1 .. Len(B)} /\ Len(B) \in Nat
      /\ B = <<>> <=> Len(B) = 0
  BY LaneSets
<1> DEFINE S == IdsOf(B)
<1> HIDE DEF S
<1>2. CASE B = <<>>
  <2>1. S = {}
    BY <1>1, <1>2 DEF S
  <2> QED BY <1>2, <2>1 DEF resume_skip_through, S
<1>3. CASE B # <<>>
  <2>1. S # {}
    <3>1. 1 \in 1 .. Len(B)
      BY <1>1, <1>3
    <3> QED BY <1>1, <3>1 DEF S
  <2>2. S \in SUBSET Int /\ IsFiniteSet(S)
    BY <1>1, IdsFinite DEF S
  <2>3. Max(S) \in S /\ \A x \in S : Max(S) >= x
    BY <2>1, <2>2, Extremes
  <2>4. resume_skip_through(B) = Max(S)
    BY <1>3 DEF resume_skip_through, S
  <2>5. PICK m \in Int : m = Max(S)
    BY <2>2, <2>3
  <2>6. \A x \in S : x <= m
    <3> SUFFICES ASSUME NEW x \in S PROVE x <= m
      OBVIOUS
    <3>1. m >= x /\ x \in Int
      BY <2>2, <2>3, <2>5
    <3> QED BY <2>5, <3>1
  <2> QED BY <1>1, <2>3, <2>4, <2>5, <2>6 DEF S
<1> QED BY <1>2, <1>3

-----------------------------------------------------------------------------
\* Type correctness.
OtherTypes ==
  /\ codec \in Codecs /\ bad \in BadLines /\ preflight \in Preflights
  /\ manifest \in [target : Nat \cup {None}, offset : Nat \cup {None}]
  /\ pc \in Down \cup {"extending", "resuming", "attempting", "backoff",
                       "downloading", "preflight", "parsing", "classifying",
                       "leaving"}
  /\ target \in Targets /\ stop \in BOOLEAN
  /\ terminated \in {None, "Eos", "EarlyTarget", "Stopped"}
  /\ starts \in 0 .. MaxStarts /\ blind \in BOOLEAN
IngestTypes ==
  /\ lane \in Seq(ItemType) /\ call \in CallType
  /\ faults \in 0 .. MaxAppendFaults /\ gapped \in BOOLEAN

LEMMA TypeParts == TypeOK <=> OtherTypes /\ IngestTypes /\ att \in AttType
BY DEF TypeOK, OtherTypes, IngestTypes, ItemType, CallType, AttType

LEMMA TypePartsPrimed == TypeOK' <=> OtherTypes' /\ IngestTypes' /\ att' \in AttType
<1>1. (TypeOK <=> OtherTypes /\ IngestTypes /\ att \in AttType)'
  BY TypeParts, PTL
<1> QED BY <1>1 DEF AttType

LEMMA InitTypes == Init => TypeOK
<1> SUFFICES ASSUME Init PROVE TypeOK
  OBVIOUS
<1>1. NewCall \in CallType /\ NewAttempt \in AttType
  <2>1. NRaw \in Nat /\ max_noprogress_resumes \in Nat
    BY CorpusFetchAssumption
  <2> QED BY <2>1 DEF NewCall, CallType, NewAttempt, AttType
<1>2. <<>> \in Seq(ItemType)
  OBVIOUS
<1>3. MaxStarts \in Nat /\ MaxAppendFaults \in Nat
  BY CorpusFetchAssumption
<1>4. OtherTypes
  <2>1. manifest \in [target : Nat \cup {None}, offset : Nat \cup {None}]
    BY DEF Init
  <2>2. starts \in 0 .. MaxStarts
    BY <1>3 DEF Init
  <2> QED BY <2>1, <2>2 DEF Init, OtherTypes, Down
<1>5. IngestTypes
  <2>1. faults \in 0 .. MaxAppendFaults
    BY <1>3 DEF Init
  <2>2. lane \in Seq(ItemType)
    BY <1>2 DEF Init
  <2> QED BY <1>1, <2>1, <2>2 DEF Init, IngestTypes
<1> QED BY <1>1, <1>4, <1>5, TypeParts DEF Init

LEMMA IngestType ==
  ASSUME TypeOK, NEW records, Ingest(att.fed, records),
         att.fed \in Parsable => records \in Partial(GameId(att.fed))
  PROVE  IngestTypes'
<1>1. /\ lane \in Seq(ItemType) /\ call \in CallType /\ gapped \in BOOLEAN
      /\ faults \in 0 .. MaxAppendFaults /\ MaxAppendFaults \in Nat
  BY TypeParts, CorpusFetchAssumption DEF IngestTypes
<1>2. CASE UNCHANGED <<lane, call, gapped, faults>>
  BY <1>1, <1>2 DEF IngestTypes
<1>3. ASSUME NEW kept, NEW s, att.fed \in Parsable, Appended(kept, s),
             AppendBlock(GameId(att.fed), kept, s) \/ AppendFails(kept)
      PROVE  IngestTypes'
  <2>1. GameId(att.fed) \in Ids /\ kept \in Seq(Fens) /\ ToSet(kept) \subseteq Fens
    BY <1>3, GameIds DEF Appended
  <2>2. PICK id \in Ids : id = GameId(att.fed)
    BY <2>1
  <2>3. call.committed \in Nat /\ Len(kept) \in Nat /\ call.committed + Len(kept) \in Nat
    BY <1>3, Basics DEF Appended
  <2>4. Len(lane) \in Nat
    BY <1>1, LenProperties
  <2>5. \A b \in ItemType : Append(lane, b) \in Seq(ItemType)
    BY <1>1, AppendProperties
  <2>6. CASE AppendBlock(id, kept, s)
    <3>1. [game |-> id, start |-> call.committed, fens |-> kept] \in ItemType
      BY <2>1, <2>3 DEF BlockType, ItemType
    <3>2. lane' \in Seq(ItemType)
      BY <2>5, <2>6, <3>1 DEF AppendBlock
    <3>3. call' \in CallType
      <4> DEFINE c1 == [call EXCEPT !.fen_set = @ \cup ToSet(kept)]
                 c2 == [c1 EXCEPT !.committed = @ + Len(kept)]
                 c3 == [c2 EXCEPT !.boundary = IF kept # s /\ @ = None THEN Len(lane) ELSE @]
      <4>1. c1 \in CallType /\ c1.committed = call.committed
        BY <1>1, <2>1 DEF CallType
      <4>2. c2 \in CallType
        BY <2>3, <4>1 DEF CallType
      <4>3. c3 \in CallType
        BY <2>4, <4>2 DEF CallType
      <4>4. [c3 EXCEPT !.max_appended_game_id = id] \in CallType
        BY <4>3 DEF CallType
      <4>5. call' = [c3 EXCEPT !.max_appended_game_id = id]
        BY <1>1, <2>6 DEF AppendBlock, CallType
      <4> QED BY <4>4, <4>5
    <3>4. faults' = faults /\ gapped' \in BOOLEAN
      BY <1>1, <2>6 DEF AppendBlock, CallType
    <3> QED BY <1>1, <3>2, <3>3, <3>4 DEF IngestTypes
  <2>7. CASE AppendFails(kept)
    <3>1. lane' \in Seq(ItemType)
      BY <1>1, <2>5, <2>7 DEF AppendFails, ItemType
    <3>2. call' \in CallType
      BY <1>1, <2>1, <2>7 DEF AppendFails, CallType
    <3>3. faults' \in 0 .. MaxAppendFaults /\ gapped' = gapped
      BY <1>1, <2>7 DEF AppendFails
    <3> QED BY <1>1, <3>1, <3>2, <3>3 DEF IngestTypes
  <2> QED BY <1>3, <2>2, <2>6, <2>7
<1> QED BY <1>2, <1>3, IngestIs

\* The steps that hand no game to Ingest.
LEMMA CommandTypes ==
  ASSUME TypeOK, \/ \E t \in Targets : Start(t)
                 \/ DropBoundary \/ Resume \/ Interrupt \/ Kill \/ Idle,
         CutInv
  PROVE  TypeOK'
<1>1. /\ OtherTypes /\ IngestTypes /\ att \in AttType
      /\ lane \in Seq(ItemType) /\ call \in CallType
      /\ NewCall \in CallType /\ NewAttempt \in AttType
  BY TypeParts, Basics
<1>2. SUFFICES OtherTypes' /\ IngestTypes' /\ att' \in AttType
  BY TypePartsPrimed
<1>3. MaxStarts \in Nat
  BY CorpusFetchAssumption
<1>4. ASSUME NEW t \in Targets, Start(t) PROVE OtherTypes' /\ IngestTypes' /\ att' \in AttType
  <2>1. starts' \in 0 .. MaxStarts
    BY <1>1, <1>3, <1>4 DEF Start, OtherTypes
  <2>2. UNCHANGED <<codec, bad, preflight, manifest, stop, blind>> /\ target' = t
    BY <1>4 DEF Start, dump, disk
  <2>3. pc' \in {"extending", "resuming"} /\ terminated' = None
    BY <1>4 DEF Start
  <2>4. OtherTypes'
    BY <1>1, <2>1, <2>2, <2>3 DEF OtherTypes
  <2>5. UNCHANGED <<lane, call, att, faults, gapped>>
    BY <1>4 DEF Start, disk
  <2> QED BY <1>1, <2>4, <2>5 DEF IngestTypes
<1>5. CASE DropBoundary
  <2>1. UNCHANGED <<codec, bad, preflight, manifest, target, stop, terminated, starts, blind>>
        /\ pc' = "resuming"
    BY <1>5 DEF DropBoundary, dump, history
  <2>2. OtherTypes'
    BY <1>1, <2>1 DEF OtherTypes
  <2>3. UNCHANGED <<call, att, faults, gapped>>
    BY <1>5 DEF DropBoundary, history
  <2>4. lane' \in Seq(ItemType)
    <3>1. CASE manifest.offset = None
      BY <1>1, <1>5, <3>1 DEF DropBoundary
    <3>2. CASE manifest.offset # None
      <4>1. manifest.offset \in 0 .. Len(lane)
        <5>1. manifest.offset \in Nat /\ manifest.offset <= Len(lane) /\ Len(lane) \in Nat
          BY <1>1, <3>2, LenProperties DEF CutInv, OtherTypes
        <5> QED BY <5>1
      <4>2. lane' = SubSeq(lane, 1, manifest.offset)
        BY <1>5, <3>2 DEF DropBoundary
      <4> QED BY <1>1, <4>1, <4>2, CutSeq
    <3> QED BY <3>1, <3>2
  <2> QED BY <1>1, <2>2, <2>3, <2>4 DEF IngestTypes
<1>6. CASE Resume
  <2>1. /\ UNCHANGED <<codec, bad, preflight, manifest, target, stop, starts, att, lane, faults, gapped>>
        /\ pc' \in {"leaving", "attempting"} /\ terminated' \in {terminated, "EarlyTarget"}
        /\ blind' \in {blind, blind \/ EndsCut}
    BY <1>6 DEF Resume, dump, disk
  <2>2. OtherTypes'
    <3>1. blind' \in BOOLEAN
      BY <1>1, <2>1 DEF OtherTypes
    <3> QED BY <1>1, <2>1, <3>1 DEF OtherTypes
  <2>3. /\ Blocks \in Seq(BlockType) /\ FensOf(Blocks) \in SUBSET Fens /\ Count(Blocks) \in Nat
        /\ IdsOf(Blocks) \subseteq Ids /\ IsFiniteSet(IdsOf(Blocks))
    BY LaneTypes
  <2>4. resume_skip_through(Blocks) \in Ids \cup {0}
    BY <2>3, ResumeSkips
  <2>5. call' = [NewCall EXCEPT !.resume_skip_through = resume_skip_through(Blocks),
                   !.fen_set = FensOf(Blocks), !.committed = Count(Blocks)]
    BY <1>6 DEF Resume
  <2>6. call' \in CallType
    BY <1>1, <2>3, <2>4, <2>5 DEF CallType
  <2> QED BY <1>1, <2>1, <2>2, <2>6 DEF IngestTypes
<1>7. CASE Interrupt
  <2>1. /\ UNCHANGED <<codec, bad, preflight, manifest, target, pc, terminated, starts, blind>>
        /\ UNCHANGED <<lane, call, att, faults, gapped>> /\ stop' = TRUE
    BY <1>7 DEF Interrupt, dump, disk, history
  <2> QED BY <1>1, <2>1 DEF OtherTypes, IngestTypes
<1>8. CASE Kill
  <2>1. /\ UNCHANGED <<codec, bad, preflight, manifest, target, starts, blind, faults, gapped>>
        /\ pc' = "down" /\ stop' = FALSE /\ terminated' = None
        /\ call' = NewCall /\ att' = NewAttempt
        /\ lane' = lane \/ lane' = Append(lane, Torn)
    BY <1>8 DEF Kill, dump, history
  <2>2. OtherTypes'
    BY <1>1, <2>1 DEF OtherTypes, Down
  <2>3. lane' \in Seq(ItemType)
    BY <1>1, <2>1, BlocksOfTorn
  <2> QED BY <1>1, <2>1, <2>2, <2>3 DEF IngestTypes
<1>9. CASE Idle
  <2>1. UNCHANGED <<codec, bad, preflight, manifest, target, pc, stop, terminated, starts, blind>>
        /\ UNCHANGED <<lane, call, att, faults, gapped>>
    BY <1>9 DEF Idle, vars, dump, disk, history
  <2> QED BY <1>1, <2>1 DEF OtherTypes, IngestTypes
<1> QED BY <1>4, <1>5, <1>6, <1>7, <1>8, <1>9

\* The steps of an attempt that leave the reader alone.
Going == AttemptStopped \/ Open \/ OpenFails \/ WakeUp \/ NotPgn \/ Classify \/ Return
GoingFrom == {"attempting", "backoff", "preflight", "classifying", "leaving"}
LEMMA GoingIs ==
  ASSUME Going
  PROVE  /\ Goes(pc, pc') /\ pc \in GoingFrom
         /\ pc' \in {"leaving", "downloading", "preflight", "backoff", "failed",
                     "attempting", "returned"}
         /\ pc' \in {"downloading", "preflight"} => pc = "attempting"
         /\ pc' = "attempting" => pc = "backoff"
         /\ pc' = "downloading" => codec = "zip"
         /\ \/ manifest' = manifest
            \/ manifest' = [target |-> IF target = Unbounded THEN None ELSE target,
                            offset |-> call.boundary]
         /\ terminated' \in {terminated, "Eos", "EarlyTarget", "Stopped"}
<1>1. CASE AttemptStopped \/ WakeUp \/ NotPgn
  BY <1>1 DEF AttemptStopped, WakeUp, NotPgn, Goes, GoingFrom
<1>2. CASE Open
  BY <1>2 DEF Open, Goes, GoingFrom
<1>3. CASE OpenFails
  BY <1>3 DEF OpenFails, Goes, GoingFrom
<1>4. CASE Return
  BY <1>4 DEF Return, Goes, GoingFrom
<1>5. CASE Classify
  BY <1>5 DEF Classify, Fails, Ends, Goes, GoingFrom
<1> QED BY <1>1, <1>2, <1>3, <1>4, <1>5 DEF Going

LEMMA GoingTypes ==
  ASSUME TypeOK, Going
  PROVE  TypeOK'
<1>1. /\ OtherTypes /\ IngestTypes /\ att \in AttType /\ call \in CallType
      /\ NewCall \in CallType /\ NewAttempt \in AttType /\ target \in Nat
  BY TypeParts, Basics
<1>2. /\ UNCHANGED <<codec, bad, preflight, lane, target, starts, faults, blind, gapped>>
      /\ call' \in {call, NewCall} /\ stop' \in {stop, FALSE} /\ att' \in {att, NewAttempt}
  BY GoingIs DEF Goes, dump, history
<1>3. manifest' \in [target : Nat \cup {None}, offset : Nat \cup {None}]
  <2>1. CASE manifest' = manifest
    BY <1>1, <2>1 DEF OtherTypes
  <2>2. CASE manifest' = [target |-> IF target = Unbounded THEN None ELSE target,
                          offset |-> call.boundary]
    <3>1. call.boundary \in Nat \cup {None}
      BY <1>1 DEF CallType
    <3> QED BY <1>1, <2>2, <3>1
  <2> QED BY <2>1, <2>2, GoingIs
<1>4. pc' \in {"leaving", "downloading", "preflight", "backoff", "failed",
               "attempting", "returned"}
      /\ terminated' \in {terminated, "Eos", "EarlyTarget", "Stopped"}
  BY GoingIs
<1>5. OtherTypes'
  BY <1>1, <1>2, <1>3, <1>4 DEF OtherTypes, Down
<1>6. IngestTypes'
  BY <1>1, <1>2 DEF IngestTypes
<1> QED BY <1>1, <1>2, <1>5, <1>6, TypePartsPrimed

\* The steps of the network.
Networking == Lose \/ Reconnect \/ Receive \/ DownloadEnds
NetworkKeeps ==
  /\ UNCHANGED <<codec, bad, preflight, manifest, target, stop, terminated, starts, faults, blind>>
  /\ UNCHANGED <<lane, call, gapped>>

\* What a step of the network makes of an attempt, as far as it matters here.
LEMMA NetworkIs ==
  ASSUME TypeOK, AttInv, Networking
  PROVE  /\ NetworkKeeps /\ att' \in AttType
         /\ pc \in {"downloading", "preflight", "parsing"}
         /\ pc' \in {"downloading", "preflight", "parsing", "classifying", "backoff"}
         /\ pc' = "downloading" => pc = "downloading"
         /\ pc' = "preflight" => pc \in {"downloading", "preflight"}
         /\ pc' = "parsing" => pc \in {"preflight", "parsing"}
         /\ pc' = "backoff" => att' = NewAttempt
         /\ pc' # "backoff" => att'.fed = att.fed
         /\ pc' \notin {"backoff", "preflight"} => att'.got >= att.got
         /\ pc' = "preflight" => att.fed = 0
         /\ att'.eof_reason = None /\ att'.got \in Nat
         /\ pc' # "classifying" =>
              att'.failure = None /\ att'.noprogress_resumes <= max_noprogress_resumes
         /\ pc' = "classifying" => att'.failure # None
         /\ att'.lost => pc' = pc /\ (att.lost \/ Reads) /\ att'.got = att.got
<1>1. /\ att \in AttType /\ NewAttempt \in AttType /\ NRaw \in Nat /\ att.got \in Nat
      /\ att.fed \in Nat /\ max_noprogress_resumes \in Nat
  BY Basics, CorpusFetchAssumption
<1>2. None \notin {"Stall", "Transient", "Permanent", "RangeIgnored"}
  BY CorpusFetchAssumption
<1>3. ASSUME Reads
      PROVE  /\ pc \in {"downloading", "preflight", "parsing"} /\ att.eof_reason = None
             /\ ~att.lost
             /\ att.failure = None /\ att.noprogress_resumes <= max_noprogress_resumes
  <2>1. pc \in {"downloading", "preflight", "parsing"} /\ att.eof_reason = None /\ ~att.lost
    BY <1>3 DEF Reads, PastEof
  <2> QED BY <2>1 DEF AttInv
<1>4. CASE Lose
  <2>1. Reads /\ NetworkGoes(pc, [att EXCEPT !.lost = TRUE]) /\ LaneKept
    BY <1>4 DEF Lose
  <2>2. NetworkKeeps /\ pc' = pc /\ att' = [att EXCEPT !.lost = TRUE]
    BY <2>1 DEF NetworkGoes, NetworkKeeps, LaneKept, dump
  <2>3. att' \in AttType
    BY <1>1, <2>2 DEF AttType
  <2>4. /\ att'.fed = att.fed /\ att'.got = att.got /\ att'.eof_reason = att.eof_reason
        /\ att'.failure = att.failure /\ att'.noprogress_resumes = att.noprogress_resumes
    BY <1>1, <2>2 DEF AttType
  <2>5. pc' = "preflight" => att.fed = 0
    BY <2>2 DEF AttInv
  <2> QED BY <1>1, <1>3, <2>1, <2>2, <2>3, <2>4, <2>5
<1>5. CASE Reconnect
  <2> DEFINE n == NoProgress(att)
             tried == [att EXCEPT !.lost = FALSE, !.noprogress_resumes = n,
                                  !.games_since_resume = FALSE]
  <2>1. att.lost /\ LaneKept /\ OnWire
    BY <1>5 DEF Reconnect, AttInv
  <2>2. /\ pc \in {"downloading", "preflight", "parsing"} /\ att.eof_reason = None
        /\ att.failure = None /\ att.noprogress_resumes <= max_noprogress_resumes
    <3>1. pc \in {"downloading", "preflight", "parsing"}
      BY <2>1 DEF OnWire
    <3> QED BY <2>1, <3>1 DEF AttInv, PastEof
  <2>3. n \in Nat /\ n <= max_noprogress_resumes + 1
    <3>1. att.noprogress_resumes \in Nat
      BY <1>1 DEF AttType
    <3>2. n \in {0, att.noprogress_resumes + 1}
      BY DEF NoProgress
    <3> QED BY <1>1, <2>2, <3>1, <3>2
  <2> HIDE DEF n
  <2>4. tried \in AttType
    <3>1. n \in 0 .. max_noprogress_resumes + 1
      BY <1>1, <2>3
    <3> QED BY <1>1, <3>1 DEF AttType
  <2>5. /\ tried.fed = att.fed /\ tried.got = att.got /\ tried.eof_reason = None
        /\ tried.failure = None /\ tried.noprogress_resumes = n /\ tried.lost = FALSE
    BY <1>1, <2>2 DEF AttType
  <2> HIDE DEF tried
  <2>6. \/ n <= max_noprogress_resumes /\ NetworkGoes(pc, tried)
        \/ \E e \in {"Stall", "Transient", "Permanent", "RangeIgnored"} :
             NetworkGoes("classifying", [tried EXCEPT !.failure = e])
    <3>1. \A e \in ReconnectErrors : e \in {"Transient", "Permanent", "RangeIgnored"}
      BY DEF ReconnectErrors
    <3>2. IF n > max_noprogress_resumes
          THEN NetworkGoes("classifying", [tried EXCEPT !.failure = "Stall"])
          ELSE \/ NetworkGoes(pc, tried)
               \/ \E e \in ReconnectErrors :
                    NetworkGoes("classifying", [tried EXCEPT !.failure = e])
      BY <1>5 DEF Reconnect, n, tried
    <3>3. n > max_noprogress_resumes \/ n <= max_noprogress_resumes
      BY <1>1, <2>3
    <3> QED BY <3>1, <3>2, <3>3
  <2>7. CASE n <= max_noprogress_resumes /\ NetworkGoes(pc, tried)
    <3>1. NetworkKeeps /\ pc' = pc /\ att' = tried
      BY <2>1, <2>7 DEF NetworkGoes, NetworkKeeps, LaneKept, dump
    <3>2. pc = "preflight" => att.fed = 0
      BY DEF AttInv
    <3> QED BY <1>1, <2>2, <2>4, <2>5, <2>7, <3>1, <3>2
  <2>8. ASSUME NEW e \in {"Stall", "Transient", "Permanent", "RangeIgnored"},
               NetworkGoes("classifying", [tried EXCEPT !.failure = e])
        PROVE  /\ NetworkKeeps /\ att' \in AttType /\ pc' = "classifying"
               /\ att'.fed = att.fed /\ att'.got = att.got /\ att'.eof_reason = None
               /\ att'.failure # None /\ ~att'.lost
    <3>1. NetworkKeeps /\ pc' = "classifying" /\ att' = [tried EXCEPT !.failure = e]
      BY <2>1, <2>8 DEF NetworkGoes, NetworkKeeps, LaneKept, dump
    <3>2. att' \in AttType /\ att'.failure = e
      BY <2>4, <3>1 DEF AttType
    <3>3. /\ att'.fed = tried.fed /\ att'.got = tried.got /\ att'.lost = tried.lost
          /\ att'.eof_reason = tried.eof_reason
      BY <2>4, <3>1 DEF AttType
    <3> QED BY <1>2, <2>5, <3>1, <3>2, <3>3
  <2> QED BY <1>1, <2>2, <2>6, <2>7, <2>8
<1>6. CASE Receive
  <2>1. PICK n \in 1 .. Buffer :
          /\ att.got + n <= NRaw
          /\ NetworkGoes(
               IF pc = "preflight" /\ att.got + n >= preflight THEN "parsing" ELSE pc,
               [att EXCEPT !.got = @ + n,
                           !.games_since_resume = @ \/ pc = "downloading"])
    BY <1>6 DEF Receive
  <2>2. Reads /\ LaneKept
    BY <1>6 DEF Receive
  <2>3. n \in Nat
    BY CorpusFetchAssumption
  <2>4. /\ NetworkKeeps
        /\ pc' = IF pc = "preflight" /\ att.got + n >= preflight THEN "parsing" ELSE pc
        /\ att' = [att EXCEPT !.got = @ + n,
                              !.games_since_resume = @ \/ pc = "downloading"]
    BY <2>1, <2>2 DEF NetworkGoes, NetworkKeeps, LaneKept, dump
  <2>5. att' \in AttType
    <3>1. att.got + n \in 0 .. NRaw
      BY <1>1, <2>1, <2>3
    <3> QED BY <1>1, <2>4, <3>1 DEF AttType
  <2>6. /\ att'.fed = att.fed /\ att'.got = att.got + n /\ att'.eof_reason = att.eof_reason
        /\ att'.failure = att.failure /\ att'.noprogress_resumes = att.noprogress_resumes
        /\ att'.lost = att.lost
    BY <1>1, <2>4 DEF AttType
  <2>7. pc' = "preflight" => att.fed = 0
    BY <2>4 DEF AttInv
  <2>8. att'.got \in Nat /\ att'.got >= att.got
    BY <1>1, <2>3, <2>6
  <2>9. ~att'.lost
    BY <1>3, <2>2, <2>6
  <2> QED BY <1>3, <2>2, <2>4, <2>5, <2>6, <2>7, <2>8, <2>9
<1>7. CASE DownloadEnds
  <2>1. /\ pc = "downloading" /\ Reads /\ LaneKept
        /\ \/ NetworkGoes("preflight", [att EXCEPT !.got = 0, !.eof_reason = None])
           \/ NetworkGoes("backoff", NewAttempt)
    BY <1>7 DEF DownloadEnds
  <2>2. CASE NetworkGoes("preflight", [att EXCEPT !.got = 0, !.eof_reason = None])
    <3>1. NetworkKeeps /\ pc' = "preflight" /\ att' = [att EXCEPT !.got = 0, !.eof_reason = None]
      BY <2>1, <2>2 DEF NetworkGoes, NetworkKeeps, LaneKept, dump
    <3>2. att' \in AttType
      <4>1. 0 \in 0 .. NRaw
        BY <1>1
      <4> QED BY <1>1, <3>1, <4>1 DEF AttType
    <3>3. /\ att'.fed = att.fed /\ att'.got = 0 /\ att'.eof_reason = None /\ att'.lost = att.lost
          /\ att'.failure = att.failure /\ att'.noprogress_resumes = att.noprogress_resumes
      BY <1>1, <3>1 DEF AttType
    <3>4. att.fed = 0
      BY <2>1 DEF AttInv
    <3> QED BY <1>3, <2>1, <3>1, <3>2, <3>3, <3>4
  <2>3. CASE NetworkGoes("backoff", NewAttempt)
    <3>1. NetworkKeeps /\ pc' = "backoff" /\ att' = NewAttempt
      BY <2>1, <2>3 DEF NetworkGoes, NetworkKeeps, LaneKept, dump
    <3>2. /\ NewAttempt.eof_reason = None /\ NewAttempt.failure = None /\ ~NewAttempt.lost
          /\ NewAttempt.got = 0 /\ NewAttempt.noprogress_resumes = 0
      BY DEF NewAttempt
    <3> QED BY <1>1, <2>1, <3>1, <3>2
  <2> QED BY <2>1, <2>2, <2>3
<1> QED BY <1>4, <1>5, <1>6, <1>7 DEF Networking

LEMMA NetworkTypes ==
  ASSUME TypeOK, AttInv, Networking
  PROVE  TypeOK'
<1>1. OtherTypes /\ IngestTypes
  BY TypeParts
<1>2. /\ NetworkKeeps /\ att' \in AttType
      /\ pc' \in {"downloading", "preflight", "parsing", "classifying", "backoff"}
  BY NetworkIs
<1>3. OtherTypes' /\ IngestTypes'
  BY <1>1, <1>2 DEF OtherTypes, IngestTypes, NetworkKeeps
<1> QED BY <1>2, <1>3, TypePartsPrimed

\* The steps of the parser: it hands a game to Ingest when the next begins, or
\* when there is none, or it reads on.
ParserKeeps ==
  /\ UNCHANGED <<codec, bad, preflight, manifest, target, stop, terminated, starts, blind>>
  /\ att' \in AttType /\ att'.lost = att.lost /\ att'.failure = att.failure
  /\ att'.noprogress_resumes = att.noprogress_resumes
LaneAlone == UNCHANGED <<lane, call, gapped, faults>>
NextGame ==
  /\ pc = "parsing" /\ pc' \in {"parsing", "classifying"} /\ att.fed < att.got
  /\ pc' = "classifying" => bad # None
  /\ att'.fed = att.fed + 1 /\ att'.got = att.got /\ att'.eof_reason = att.eof_reason
  /\ ~att.lost
  /\ (att.fed = 0 /\ LaneAlone) \/ Ingest(att.fed, recs(GameId(att.fed)))
NoMoreGames ==
  /\ pc = "parsing" /\ pc' = "classifying" /\ att.fed = att.got /\ ~att.lost
  /\ att'.fed = att.fed /\ att'.got = att.got
  /\ att'.eof_reason = "InnerEof" => att.got = NRaw
  /\ att'.eof_reason = "Target" => target_reached
  /\ \E records :
       /\ Ingest(att.fed, records)
       /\ att.fed \in Parsable => records \in Partial(GameId(att.fed))
       /\ \/ att.got = NRaw /\ records = recs(GameId(att.fed))
          \/ call.commit_abort \/ target_reached
NoGame ==
  /\ LaneAlone /\ att'.fed = att.fed /\ att'.got >= att.got /\ att'.got \in Nat
  /\ pc \in {"preflight", "parsing"} /\ pc' \in {"preflight", "parsing", "classifying"}
  /\ pc' = "preflight" => pc = "preflight" /\ att'.eof_reason = att.eof_reason
  /\ ~att.lost
  /\ att'.eof_reason = "InnerEof" => att'.got = NRaw
  /\ att'.eof_reason = "Target" => target_reached
  /\ pc' = "classifying" /\ ~Halted => att'.eof_reason = "Target"

LEMMA EofIs ==
  ASSUME TypeOK, AttInv, PastEof \/ StreamEnds, NEW eof \in EofReasons
  PROVE  /\ eof \in {None, "InnerEof", "Target"}
         /\ eof = "InnerEof" => att.got = NRaw
         /\ eof = "Target" => target_reached
         /\ att.got # NRaw /\ ~Halted => eof = "Target"
<1>1. att.eof_reason \in {None, "InnerEof", "Target"}
  BY Basics DEF AttType
<1>2. None \notin {"InnerEof", "Target"}
  BY CorpusFetchAssumption
<1>3. CASE Halted \/ PastEof
  <2>1. eof = att.eof_reason
    BY <1>3 DEF EofReasons
  <2> QED BY <1>1, <1>3, <2>1 DEF AttInv, PastEof
<1>4. CASE ~(Halted \/ PastEof) /\ ~target_reached
  <2>1. eof = "InnerEof" /\ att.got = NRaw
    BY <1>4 DEF EofReasons, StreamEnds
  <2> QED BY <2>1
<1>5. CASE ~(Halted \/ PastEof) /\ target_reached
  BY <1>5 DEF EofReasons
<1> QED BY <1>3, <1>4, <1>5

LEMMA NotedIs ==
  ASSUME att \in AttType, NEW raw
  PROVE  /\ Noted(att, raw) \in AttType
         /\ Noted(att, raw).fed = att.fed /\ Noted(att, raw).got = att.got
         /\ Noted(att, raw).lost = att.lost /\ Noted(att, raw).failure = att.failure
         /\ Noted(att, raw).eof_reason = att.eof_reason
         /\ Noted(att, raw).noprogress_resumes = att.noprogress_resumes
BY DEF Noted, AttType

LEMMA LastGameIs ==
  ASSUME TypeOK, NEW records, NEW eof \in {None, "InnerEof", "Target"},
         LastGame(records, eof), UNCHANGED preflight
  PROVE  /\ ParserKeeps /\ pc = "parsing" /\ pc' = "classifying"
         /\ att'.fed = att.fed /\ att'.got = att.got /\ att'.eof_reason = eof
         /\ Ingest(att.fed, records)
<1>1. att \in AttType
  BY Basics
<1> DEFINE a == Noted(att, att.fed)
<1>2. /\ pc = "parsing" /\ pc' = "classifying" /\ att' = [a EXCEPT !.eof_reason = eof]
      /\ UNCHANGED <<codec, bad, manifest, target, stop, terminated, starts, blind>>
      /\ Ingest(att.fed, records)
  BY DEF LastGame, ParserGoes, dump
<1>3. /\ a \in AttType /\ a.fed = att.fed /\ a.got = att.got /\ a.lost = att.lost
      /\ a.failure = att.failure /\ a.noprogress_resumes = att.noprogress_resumes
  BY <1>1, NotedIs
<1> HIDE DEF a
<1>4. /\ att' \in AttType /\ att'.fed = a.fed /\ att'.got = a.got /\ att'.lost = a.lost
      /\ att'.failure = a.failure /\ att'.noprogress_resumes = a.noprogress_resumes
      /\ att'.eof_reason = eof
  BY <1>2, <1>3 DEF AttType
<1> QED BY <1>2, <1>3, <1>4 DEF ParserKeeps

LEMMA ParseIs ==
  ASSUME TypeOK, AttInv, Parse
  PROVE  ParserKeeps /\ (NextGame \/ NoMoreGames \/ NoGame)
<1>1. /\ att \in AttType /\ NRaw \in Nat /\ att.got \in Nat /\ att.fed \in Nat
      /\ att.got \in 0 .. NRaw /\ att.eof_reason \in {None, "InnerEof", "Target"}
  BY Basics DEF AttType
<1>2. att.fed \in Parsable => recs(GameId(att.fed)) \in Partial(GameId(att.fed))
  BY Whole
<1>3. CASE ParseGame
  <2> DEFINE a == Noted(att, att.fed)
  <2>1. /\ pc = "parsing" /\ att.fed < att.got /\ att' = [a EXCEPT !.fed = @ + 1]
        /\ pc' = IF att.fed + 1 = bad THEN "classifying" ELSE "parsing"
        /\ UNCHANGED <<codec, bad, preflight, manifest, target, stop, terminated, starts, blind>>
        /\ IF att.fed = 0 THEN LaneKept /\ UNCHANGED faults
           ELSE Ingest(att.fed, recs(GameId(att.fed)))
    BY <1>3 DEF ParseGame, ParserGoes, dump
  <2>2. /\ a \in AttType /\ a.fed = att.fed /\ a.got = att.got /\ a.lost = att.lost
        /\ a.failure = att.failure /\ a.noprogress_resumes = att.noprogress_resumes
        /\ a.eof_reason = att.eof_reason
    BY <1>1, NotedIs
  <2> HIDE DEF a
  <2>3. a.fed + 1 \in 0 .. NRaw
    BY <1>1, <2>1, <2>2
  <2>4. /\ att' \in AttType /\ att'.fed = a.fed + 1 /\ att'.got = a.got /\ att'.lost = a.lost
        /\ att'.failure = a.failure /\ att'.noprogress_resumes = a.noprogress_resumes
        /\ att'.eof_reason = a.eof_reason
    BY <2>1, <2>2, <2>3 DEF AttType
  <2>5. pc' = "classifying" => bad # None
    <3>1. att.fed + 1 # None
      BY <1>1, CorpusFetchAssumption
    <3> QED BY <2>1, <3>1
  <2>6. ~att.lost
    BY <1>1, <2>1 DEF AttInv, OnWire
  <2>7. ParserKeeps
    BY <2>1, <2>2, <2>4 DEF ParserKeeps
  <2>8. NextGame
    BY <2>1, <2>2, <2>4, <2>5, <2>6 DEF NextGame, LaneAlone, LaneKept
  <2> QED BY <2>7, <2>8
<1>4. CASE DecoderEnds
  <2>1. /\ ~att.lost /\ (PastEof \/ StreamEnds) /\ pc \in {"preflight", "parsing"}
        /\ pc = "parsing" => att.fed = att.got
    <3>1. CASE Reads /\ StreamEnds
      <4>1. pc # "downloading"
        BY <1>4 DEF DecoderEnds, AttInv
      <4> QED BY <3>1, <4>1 DEF Reads
    <3>2. CASE PastEof /\ pc = "parsing" /\ att.fed = att.got
      BY <3>2 DEF AttInv
    <3> QED BY <1>4, <3>1, <3>2 DEF DecoderEnds
  <2>2. PICK eof \in EofReasons :
         \/ /\ att.got = NRaw /\ pc = "preflight" /\ LaneKept
            /\ NetworkGoes("parsing", [att EXCEPT !.eof_reason = eof])
         \/ /\ att.got = NRaw /\ LastGame(recs(GameId(att.fed)), eof)
         \/ /\ att.got < NRaw /\ LaneKept
            /\ NetworkGoes("classifying", [att EXCEPT !.eof_reason = eof])
    BY <1>4 DEF DecoderEnds
  <2>3. /\ eof \in {None, "InnerEof", "Target"}
        /\ eof = "InnerEof" => att.got = NRaw
        /\ eof = "Target" => target_reached
        /\ att.got # NRaw /\ ~Halted => eof = "Target"
    BY <2>1, EofIs
  <2>4. ASSUME NEW to \in {"parsing", "classifying"}, LaneKept,
               NetworkGoes(to, [att EXCEPT !.eof_reason = eof])
        PROVE  /\ ParserKeeps /\ LaneAlone /\ pc' = to
               /\ att'.fed = att.fed /\ att'.got = att.got /\ att'.eof_reason = eof
    <3>1. /\ pc' = to /\ att' = [att EXCEPT !.eof_reason = eof] /\ LaneAlone
          /\ UNCHANGED <<codec, bad, preflight, manifest, target, stop, terminated, starts, blind>>
      BY <2>4 DEF NetworkGoes, LaneKept, LaneAlone, dump
    <3>2. /\ att' \in AttType /\ att'.fed = att.fed /\ att'.got = att.got
          /\ att'.eof_reason = eof /\ att'.lost = att.lost /\ att'.failure = att.failure
          /\ att'.noprogress_resumes = att.noprogress_resumes
      BY <1>1, <2>3, <3>1 DEF AttType
    <3> QED BY <3>1, <3>2 DEF ParserKeeps
  <2>5. CASE /\ att.got = NRaw /\ pc = "preflight" /\ LaneKept
             /\ NetworkGoes("parsing", [att EXCEPT !.eof_reason = eof])
    <3>1. /\ ParserKeeps /\ LaneAlone /\ pc' = "parsing"
          /\ att'.fed = att.fed /\ att'.got = att.got /\ att'.eof_reason = eof
      BY <2>4, <2>5
    <3>2. NoGame
      BY <1>1, <2>1, <2>3, <2>5, <3>1 DEF NoGame
    <3> QED BY <3>1, <3>2
  <2>6. CASE att.got = NRaw /\ LastGame(recs(GameId(att.fed)), eof)
    <3>1. UNCHANGED preflight
      BY <2>6 DEF LastGame, ParserGoes, dump
    <3>2. /\ ParserKeeps /\ pc = "parsing" /\ pc' = "classifying"
          /\ att'.fed = att.fed /\ att'.got = att.got /\ att'.eof_reason = eof
          /\ Ingest(att.fed, recs(GameId(att.fed)))
      BY <2>3, <2>6, <3>1, LastGameIs
    <3>3. NoMoreGames
      BY <1>2, <2>1, <2>3, <2>6, <3>2 DEF NoMoreGames
    <3> QED BY <3>2, <3>3
  <2>7. CASE /\ att.got < NRaw /\ LaneKept
             /\ NetworkGoes("classifying", [att EXCEPT !.eof_reason = eof])
    <3>1. /\ ParserKeeps /\ LaneAlone /\ pc' = "classifying"
          /\ att'.fed = att.fed /\ att'.got = att.got /\ att'.eof_reason = eof
      BY <2>4, <2>7
    <3>2. att.got # NRaw
      BY <1>1, <2>7
    <3>3. NoGame
      BY <1>1, <2>1, <2>3, <2>7, <3>1, <3>2 DEF NoGame
    <3> QED BY <3>1, <3>3
  <2> QED BY <2>2, <2>5, <2>6, <2>7
<1>5. LocalReads => ~att.lost /\ pc \in {"preflight", "parsing"}
  BY DEF LocalReads, AttInv, OnWire
<1>6. CASE LocalRead
  <2>1. PICK n \in 1 .. Buffer :
          /\ att.got + n <= NRaw /\ att' = [att EXCEPT !.got = @ + n]
          /\ pc' = IF pc = "preflight" /\ att.got + n >= preflight THEN "parsing" ELSE pc
    BY <1>6 DEF LocalRead
  <2>2. n \in Nat
    BY CorpusFetchAssumption
  <2>3. att.got + n \in 0 .. NRaw
    BY <1>1, <2>1, <2>2
  <2>4. /\ att' \in AttType /\ att'.fed = att.fed /\ att'.got = att.got + n
        /\ att'.eof_reason = att.eof_reason /\ att'.lost = att.lost /\ att'.failure = att.failure
        /\ att'.noprogress_resumes = att.noprogress_resumes
    BY <1>1, <2>1, <2>3 DEF AttType
  <2>5. ParserKeeps /\ LaneAlone /\ LocalReads
    BY <1>6, <2>4 DEF LocalRead, LaneKept, LaneAlone, ParserKeeps, dump
  <2>6. att.eof_reason = "InnerEof" => att'.got = NRaw
    BY <1>1, <2>1, <2>2, <2>4 DEF AttInv
  <2>7. att'.got \in Nat /\ att'.got >= att.got
    BY <1>1, <2>2, <2>4
  <2>8. att.eof_reason = "Target" => target_reached
    BY DEF AttInv
  <2>9. NoGame
    BY <1>5, <2>1, <2>4, <2>5, <2>6, <2>7, <2>8 DEF NoGame
  <2> QED BY <2>5, <2>9
<1>7. CASE LocalEnds
  <2>1. LocalReads /\ (GuardHalts \/ att.got = NRaw)
    BY <1>7 DEF LocalEnds
  <2>2. CASE /\ pc = "preflight" /\ pc' = "parsing" /\ LaneKept
             /\ UNCHANGED <<dump, manifest, target, stop, att, terminated, starts,
                            faults, blind>>
    <3>1. ParserKeeps /\ LaneAlone
      BY <1>1, <2>2 DEF ParserKeeps, LaneAlone, LaneKept, dump
    <3>2. NoGame
      BY <1>1, <1>5, <2>1, <2>2, <3>1 DEF NoGame, AttInv
    <3> QED BY <3>1, <3>2
  <2>3. ASSUME NEW n \in IF att.got = NRaw THEN {Len(recs(GameId(att.fed)))}
                         ELSE 0 .. Len(recs(GameId(att.fed))),
               LastGame(SubSeq(recs(GameId(att.fed)), 1, n), att.eof_reason)
        PROVE  ParserKeeps /\ NoMoreGames
    <3> DEFINE records == SubSeq(recs(GameId(att.fed)), 1, n)
    <3>1. UNCHANGED preflight
      BY <2>3 DEF LastGame, ParserGoes, dump
    <3>2. LastGame(records, att.eof_reason)
      BY <2>3
    <3> HIDE DEF records
    <3>3. /\ ParserKeeps /\ pc = "parsing" /\ pc' = "classifying"
          /\ att'.fed = att.fed /\ att'.got = att.got /\ att'.eof_reason = att.eof_reason
          /\ Ingest(att.fed, records)
      BY <1>1, <3>1, <3>2, LastGameIs
    <3>4. att.fed = att.got
      BY <2>1, <3>3 DEF LocalReads
    <3>5. ASSUME att.fed \in Parsable
          PROVE  /\ records \in Partial(GameId(att.fed))
                 /\ att.got = NRaw => records = recs(GameId(att.fed))
      <4>1. GameId(att.fed) \in Ids
        BY <3>5, GameIds
      <4>2. PICK id \in Ids : id = GameId(att.fed)
        BY <4>1
      <4>3. Len(recs(id)) \in Nat /\ SubSeq(recs(id), 1, Len(recs(id))) = recs(id)
        BY AllRecords
      <4>4. n \in 0 .. Len(recs(id)) /\ (att.got = NRaw => n = Len(recs(id)))
        BY <4>2, <4>3
      <4> QED BY <4>2, <4>3, <4>4 DEF Partial, records
    <3>6. /\ att.eof_reason = "InnerEof" => att.got = NRaw
          /\ att.eof_reason = "Target" => target_reached
      BY DEF AttInv
    <3>7. PICK r : /\ Ingest(att.fed, r)
                   /\ att.fed \in Parsable => r \in Partial(GameId(att.fed))
                   /\ att.got = NRaw => r = recs(GameId(att.fed))
      <4>1. CASE att.fed \in Parsable
        BY <3>3, <3>5, <4>1
      <4>2. CASE att.fed \notin Parsable
        <5>1. \A r : Kept(att.fed, r) = <<>>
          BY <4>2 DEF Kept
        <5>2. \A r : Ingest(att.fed, r) <=> LaneKept /\ UNCHANGED faults
          BY <5>1 DEF Ingest
        <5> QED BY <3>3, <4>2, <5>2
      <4> QED BY <4>1, <4>2
    <3>8. att.got = NRaw \/ call.commit_abort \/ target_reached
      BY <2>1 DEF GuardHalts
    <3>9. NoMoreGames
      BY <1>5, <2>1, <3>3, <3>4, <3>6, <3>7, <3>8 DEF NoMoreGames
    <3> QED BY <3>3, <3>9
  <2> QED BY <1>7, <2>2, <2>3 DEF LocalEnds
<1> QED BY <1>3, <1>4, <1>6, <1>7 DEF Parse

LEMMA ParseTypes ==
  ASSUME TypeOK, AttInv, Parse
  PROVE  TypeOK'
<1>1. OtherTypes /\ IngestTypes
  BY TypeParts
<1>2. ParserKeeps /\ (NextGame \/ NoMoreGames \/ NoGame)
  BY ParseIs
<1>3. pc' \in {"preflight", "parsing", "classifying"}
  BY <1>2 DEF NextGame, NoMoreGames, NoGame
<1>4. OtherTypes' /\ att' \in AttType
  BY <1>1, <1>2, <1>3 DEF OtherTypes, ParserKeeps
<1>5. CASE LaneAlone
  <2>1. IngestTypes'
    BY <1>1, <1>5 DEF IngestTypes, LaneAlone
  <2> QED BY <1>4, <2>1, TypePartsPrimed
<1>6. CASE ~LaneAlone
  <2>1. PICK records : /\ Ingest(att.fed, records)
                       /\ att.fed \in Parsable => records \in Partial(GameId(att.fed))
    BY <1>2, <1>6, Whole DEF NextGame, NoMoreGames, NoGame
  <2>2. IngestTypes'
    BY <2>1, IngestType
  <2> QED BY <1>4, <2>2, TypePartsPrimed
<1> QED BY <1>5, <1>6

LEMMA TypeStep == TypeOK /\ AttInv /\ CutInv /\ Next => TypeOK'
BY CommandTypes, GoingTypes, NetworkTypes, ParseTypes
DEF Next, Process, Attempt, NetworkFault, Going, Networking

-----------------------------------------------------------------------------
\* What an attempt knows.
LEMMA InitAtt == Init => AttInv
BY CorpusFetchAssumption
DEF Init, AttInv, NewAttempt, Attempting, PastEof, Unread, OnWire

\* A target that is reached stays reached.
LEMMA IngestGrows ==
  ASSUME TypeOK, NEW records, Ingest(att.fed, records), target' = target,
         att.fed \in Parsable => records \in Partial(GameId(att.fed))
  PROVE  /\ target_reached => target_reached'
         /\ call.commit_abort => call'.commit_abort
<1>1. call \in CallType /\ call.committed \in Nat /\ target \in Nat
  BY Basics
<1>2. CASE UNCHANGED <<lane, call, gapped, faults>>
  BY <1>2 DEF target_reached
<1>3. ASSUME NEW id, NEW kept, NEW s, Appended(kept, s),
             AppendBlock(id, kept, s) \/ AppendFails(kept)
      PROVE  /\ call'.committed >= call.committed /\ call'.committed \in Nat
             /\ call.commit_abort => call'.commit_abort
  <2>1. Len(kept) \in Nat
    BY <1>3 DEF Appended
  <2>2. CASE AppendBlock(id, kept, s)
    <3>1. call'.committed = call.committed + Len(kept) /\ call'.commit_abort = call.commit_abort
      BY <1>1, <2>2 DEF AppendBlock, CallType
    <3> QED BY <1>1, <2>1, <3>1
  <2>3. CASE AppendFails(kept)
    <3>1. call'.committed = call.committed /\ call'.commit_abort
      BY <1>1, <2>3 DEF AppendFails, CallType
    <3> QED BY <1>1, <3>1
  <2> QED BY <1>3, <2>2, <2>3
<1>4. CASE ~UNCHANGED <<lane, call, gapped, faults>>
  <2>1. /\ call'.committed >= call.committed /\ call'.committed \in Nat
        /\ call.commit_abort => call'.commit_abort
    BY <1>3, <1>4, IngestIs
  <2> QED BY <1>1, <2>1 DEF target_reached
<1> QED BY <1>2, <1>4

LEMMA NewAttemptIs ==
  /\ NewAttempt.got = 0 /\ NewAttempt.fed = 0 /\ ~NewAttempt.lost
  /\ NewAttempt.eof_reason = None /\ NewAttempt.failure = None
  /\ NewAttempt.noprogress_resumes = 0
  /\ None \notin {"InnerEof", "Target"} /\ max_noprogress_resumes \in Nat
BY CorpusFetchAssumption DEF NewAttempt

\* Outside an attempt there is little to show.
LEMMA AttIdle ==
  ASSUME att' = NewAttempt, pc' \in Unread => call' = NewCall,
         pc' = "downloading" => codec' = "zip"
  PROVE  AttInv'
<1> QED BY NewAttemptIs DEF AttInv, PastEof

LEMMA AttCommand ==
  ASSUME TypeOK, AttInv, \/ \E t \in Targets : Start(t)
                         \/ DropBoundary \/ Resume \/ Interrupt \/ Kill \/ Idle
  PROVE  AttInv'
<1>1. CASE \E t \in Targets : Start(t)
  <2>1. pc \in Down /\ pc' \in {"extending", "resuming"} /\ UNCHANGED <<call, att>>
    BY <1>1 DEF Start
  <2>2. att = NewAttempt /\ call = NewCall
    BY <2>1 DEF AttInv, Attempting, Unread, Down
  <2> QED BY <2>1, <2>2, AttIdle
<1>2. CASE DropBoundary
  <2>1. pc = "extending" /\ pc' = "resuming" /\ UNCHANGED <<call, att>>
    BY <1>2 DEF DropBoundary, history
  <2>2. att = NewAttempt /\ call = NewCall
    BY <2>1 DEF AttInv, Attempting, Unread
  <2> QED BY <2>1, <2>2, AttIdle
<1>3. CASE Resume
  <2>1. pc = "resuming" /\ pc' \in {"leaving", "attempting"} /\ UNCHANGED att
    BY <1>3 DEF Resume
  <2>2. att = NewAttempt
    BY <2>1 DEF AttInv, Attempting
  <2> QED BY <2>1, <2>2, AttIdle DEF Unread
<1>4. CASE Kill
  <2>1. att' = NewAttempt /\ call' = NewCall /\ pc' = "down"
    BY <1>4 DEF Kill
  <2> QED BY <2>1, AttIdle
<1>5. CASE Interrupt \/ Idle
  <2>1. UNCHANGED <<codec, pc, call, att, target>>
    BY <1>5 DEF Interrupt, Idle, vars, dump, history
  <2> QED BY <2>1 DEF AttInv, Attempting, PastEof, OnWire, target_reached
<1> QED BY <1>1, <1>2, <1>3, <1>4, <1>5

LEMMA AttGoing ==
  ASSUME TypeOK, AttInv, Going
  PROVE  AttInv'
<1>1. /\ Goes(pc, pc') /\ pc \in GoingFrom
      /\ pc' \in {"leaving", "downloading", "preflight", "backoff", "failed",
                  "attempting", "returned"}
      /\ pc' \in {"downloading", "preflight"} => pc = "attempting"
      /\ pc' = "attempting" => pc = "backoff"
      /\ pc' = "downloading" => codec = "zip"
  BY GoingIs
<1>2. /\ pc' \in Down => call' = NewCall
      /\ pc' \in Down \cup {"leaving", "backoff"} => att' = NewAttempt
      /\ pc' \notin Down \cup {"leaving", "backoff"} => att' = att
      /\ codec' = codec
  BY <1>1 DEF Goes, dump
<1>3. att' = NewAttempt
  <2>1. CASE pc' \in {"leaving", "backoff", "failed", "returned"}
    BY <1>2, <2>1 DEF Down
  <2>2. CASE pc' \in {"downloading", "preflight", "attempting"}
    <3>1. pc \in {"attempting", "backoff"}
      BY <1>1, <2>2
    <3>2. att = NewAttempt
      BY <3>1 DEF AttInv, Attempting
    <3> QED BY <1>2, <2>2, <3>2 DEF Down
  <2> QED BY <1>1, <2>1, <2>2
<1>4. pc' \in Unread => call' = NewCall
  BY <1>1, <1>2 DEF Unread, Down
<1> QED BY <1>1, <1>2, <1>3, <1>4, AttIdle

LEMMA AttNetwork ==
  ASSUME TypeOK, AttInv, Networking
  PROVE  AttInv'
<1>1. /\ NetworkKeeps /\ att' \in AttType
      /\ pc \in {"downloading", "preflight", "parsing"}
      /\ pc' \in {"downloading", "preflight", "parsing", "classifying", "backoff"}
      /\ pc' = "downloading" => pc = "downloading"
      /\ pc' = "preflight" => pc \in {"downloading", "preflight"}
      /\ pc' = "parsing" => pc \in {"preflight", "parsing"}
      /\ pc' = "backoff" => att' = NewAttempt
      /\ pc' # "backoff" => att'.fed = att.fed
      /\ pc' \notin {"backoff", "preflight"} => att'.got >= att.got
      /\ pc' = "preflight" => att.fed = 0
      /\ att'.eof_reason = None /\ att'.got \in Nat
      /\ pc' # "classifying" =>
           att'.failure = None /\ att'.noprogress_resumes <= max_noprogress_resumes
      /\ att'.lost => pc' = pc /\ (att.lost \/ Reads) /\ att'.got = att.got
  BY NetworkIs
<1>2. CASE pc' = "backoff"
  <2>1. att' = NewAttempt
    BY <1>1, <1>2
  <2> QED BY <1>2, <2>1, AttIdle DEF Unread
<1>3. CASE pc' # "backoff"
  <2>1. pc' \notin Unread /\ Attempting'
    BY <1>1, <1>3 DEF Unread, Attempting
  <2>2. pc' = "downloading" => codec' = "zip"
    BY <1>1 DEF AttInv, NetworkKeeps
  <2>3. pc' \in {"downloading", "preflight"} => att'.fed = 0 /\ ~PastEof'
    BY <1>1 DEF AttInv, PastEof
  <2>4. att'.fed <= att'.got
    <3>1. att.fed \in Nat /\ att.got \in Nat /\ att.fed <= att.got
      BY Basics DEF AttInv
    <3>2. CASE pc' = "preflight"
      BY <1>1, <3>1, <3>2
    <3>3. CASE pc' # "preflight"
      BY <1>1, <1>3, <3>1, <3>3
    <3> QED BY <3>2, <3>3
  <2>5. att'.lost => OnWire' /\ ~PastEof'
    <3> SUFFICES ASSUME att'.lost PROVE OnWire' /\ ~PastEof'
      OBVIOUS
    <3>1. OnWire
      BY <1>1 DEF Reads, OnWire, AttInv
    <3>2. UNCHANGED <<codec, pc>> /\ att'.fed = att.fed /\ att'.got = att.got
      BY <1>1, <1>3 DEF NetworkKeeps
    <3> QED BY <1>1, <3>1, <3>2 DEF OnWire, PastEof
  <2>6. att'.eof_reason \notin {"InnerEof", "Target"}
    BY <1>1, NewAttemptIs
  <2> QED BY <1>1, <2>1, <2>2, <2>3, <2>4, <2>5, <2>6 DEF AttInv
<1> QED BY <1>2, <1>3

LEMMA AttParse ==
  ASSUME TypeOK, AttInv, Parse
  PROVE  AttInv' /\ (target_reached => target_reached')
<1>1. ParserKeeps /\ (NextGame \/ NoMoreGames \/ NoGame)
  BY ParseIs
<1>2. /\ att \in AttType /\ att' \in AttType /\ att.got \in Nat /\ att.fed \in Nat
      /\ UNCHANGED <<target, codec>>
      /\ att'.lost = att.lost /\ att'.failure = att.failure
      /\ att'.noprogress_resumes = att.noprogress_resumes
  BY <1>1, Basics DEF ParserKeeps
<1>3. /\ pc \in {"preflight", "parsing"} /\ pc' \in {"preflight", "parsing", "classifying"}
      /\ ~att.lost
  BY <1>1 DEF NextGame, NoMoreGames, NoGame
<1>4. target_reached => target_reached'
  <2>1. CASE LaneAlone
    BY <1>2, <2>1 DEF LaneAlone, target_reached
  <2>2. CASE ~LaneAlone
    <3>1. PICK records : /\ Ingest(att.fed, records)
                         /\ att.fed \in Parsable => records \in Partial(GameId(att.fed))
      BY <1>1, <2>2, Whole DEF NextGame, NoMoreGames, NoGame
    <3> QED BY <1>2, <3>1, IngestGrows
  <2> QED BY <2>1, <2>2
<1>5. pc' \notin Unread /\ Attempting' /\ pc' # "downloading"
  BY <1>3 DEF Unread, Attempting
<1>6. pc' = "preflight" => att'.fed = 0 /\ ~PastEof'
  BY <1>1 DEF NextGame, NoMoreGames, NoGame, AttInv, PastEof
<1>7. att'.fed <= att'.got
  <2>1. att.fed <= att.got
    BY DEF AttInv
  <2>2. CASE NextGame
    BY <1>2, <2>2 DEF NextGame
  <2>3. CASE NoMoreGames \/ NoGame
    <3>1. att'.fed = att.fed /\ att'.got >= att.got /\ att'.got \in Nat
      BY <1>2, <2>3 DEF NoMoreGames, NoGame
    <3> QED BY <1>2, <2>1, <3>1
  <2> QED BY <1>1, <2>2, <2>3
<1>8. pc' # "classifying" =>
        att'.failure = None /\ att'.noprogress_resumes <= max_noprogress_resumes
  BY <1>2, <1>3 DEF AttInv
<1>9. att'.eof_reason = "InnerEof" => att'.got = NRaw
  BY <1>1 DEF NextGame, NoMoreGames, NoGame, AttInv
<1>10. att'.eof_reason = "Target" => target_reached
  BY <1>1 DEF NextGame, NoMoreGames, NoGame, AttInv
<1> QED BY <1>2, <1>3, <1>4, <1>5, <1>6, <1>7, <1>8, <1>9, <1>10 DEF AttInv

LEMMA AttStep == TypeOK /\ AttInv /\ Next => AttInv'
BY AttCommand, AttGoing, AttNetwork, AttParse
DEF Next, Process, Attempt, NetworkFault, Going, Networking

-----------------------------------------------------------------------------
\* The lane.  What is appended behind a torn block is not among its blocks.
LEMMA BehindTorn ==
  ASSUME NEW l \in Seq(ItemType), l # BlocksOf(l), NEW b \in ItemType
  PROVE  /\ Append(l, b) \in Seq(ItemType) /\ BlocksOf(Append(l, b)) = BlocksOf(l)
         /\ Append(l, b) # BlocksOf(l)
<1> DEFINE B == BlocksOf(l)
           m == Append(l, b)
<1>1. /\ m \in Seq(ItemType) /\ Len(m) = Len(l) + 1 /\ Len(l) \in Nat
      /\ \A i \in 1 .. Len(l) : m[i] = l[i]
  BY AppendProperties
<1>2. IsValid(l, B)
  BY ValidBlocks
<1>3. B \in Seq(BlockType) /\ Len(B) \in Nat /\ Len(B) <= Len(l)
  BY <1>2, LenProperties DEF IsValid
<1> HIDE DEF B, m
<1>4. Len(B) < Len(l)
  <2> SUFFICES ASSUME ~(Len(B) < Len(l)) PROVE FALSE
    OBVIOUS
  <2>1. Len(B) = Len(l)
    BY <1>1, <1>3
  <2>2. \A i \in 1 .. Len(B) : B[i] = l[i]
    BY <1>2 DEF IsValid
  <2>3. B \in Seq(ItemType)
    BY <1>3, BlocksOfBlocks
  <2>4. B = l
    BY <2>1, <2>2, <2>3, SeqEqual
  <2> QED BY <2>4 DEF B
<1>5. l[Len(B) + 1] = Torn /\ Len(B) + 1 \in 1 .. Len(l)
  BY <1>1, <1>2, <1>3, <1>4 DEF IsValid
<1>6. \A i \in 1 .. Len(B) : B[i] = m[i]
  <2> SUFFICES ASSUME NEW i \in 1 .. Len(B) PROVE B[i] = m[i]
    OBVIOUS
  <2>1. i \in 1 .. Len(l) /\ B[i] = l[i]
    BY <1>1, <1>2, <1>3 DEF IsValid
  <2> QED BY <1>1, <2>1
<1>7. IsValid(m, B)
  BY <1>1, <1>3, <1>4, <1>5, <1>6 DEF IsValid
<1>8. m # B
  BY <1>1, <1>3
<1> QED BY <1>1, <1>7, <1>8, ValidUnique DEF B, m

LEMMA LaneBoth ==
  ASSUME TypeOK, TypeOK'
  PROVE  /\ Blocks = BlocksOf(lane) /\ Blocks' = BlocksOf(lane')
         /\ lane \in Seq(ItemType) /\ lane' \in Seq(ItemType)
         /\ Blocks \in Seq(BlockType) /\ Blocks' \in Seq(BlockType)
         /\ Len(lane) \in Nat /\ Len(lane') \in Nat
         /\ target \in Nat /\ target' \in Nat /\ Count(Blocks) \in Nat
         /\ call \in CallType /\ call' \in CallType
<1>1. lane \in Seq(ItemType) /\ lane' \in Seq(ItemType)
  BY DEF TypeOK, ItemType
<1>2. Blocks = BlocksOf(lane) /\ Blocks' = BlocksOf(lane')
  BY BlocksAre
<1>3. Blocks \in Seq(BlockType) /\ Blocks' \in Seq(BlockType)
  BY <1>1, <1>2, ValidBlocks DEF IsValid
<1>4. target \in Nat /\ target' \in Nat
  <2>1. target \in Targets /\ target' \in Targets
    BY DEF TypeOK
  <2>2. Targets \subseteq Nat
    BY CorpusFetchAssumption
  <2> QED BY <2>1, <2>2
<1>5. call \in CallType /\ call' \in CallType
  BY DEF TypeOK, CallType
<1> QED BY <1>1, <1>2, <1>3, <1>4, <1>5, LenProperties, LaneSets

\* A step that leaves the lane, the target and the history alone.
LEMMA LaneFrame ==
  ASSUME TypeOK, TypeOK', LaneInv, UNCHANGED <<target, blind, gapped>>, Blocks' = Blocks,
         CutInv',
         pc \in {"down", "extending", "resuming"} => pc' \in {"down", "extending", "resuming"},
         pc' \notin Unread /\ lane' = Blocks' => pc \notin Unread /\ lane = Blocks /\ call' = call,
         SettledInv'
  PROVE  LaneInv'
<1>1. Contiguous(Blocks') /\ (Contiguous(Blocks)' <=> Contiguous(Blocks'))
  BY DEF LaneInv, Contiguous
<1>2. CommitterInv'
  BY DEF LaneInv, CommitterInv
<1>3. GrownInv'
  <2>1. /\ Grown(Blocks)' <=> Grown(Blocks)
        /\ EndsWell(Blocks)' <=> EndsWell(Blocks)
    BY DEF Grown, EndsWell
  <2> QED BY <2>1 DEF LaneInv, GrownInv
<1> QED BY <1>1, <1>2, <1>3 DEF LaneInv

LEMMA LaneInit == Init => LaneInv
<1> SUFFICES ASSUME Init PROVE LaneInv
  OBVIOUS
<1>1. TypeOK
  BY InitTypes
<1>2. lane = <<>> /\ pc = "down" /\ call = NewCall /\ manifest.offset = None
  BY DEF Init
<1>3. Blocks = <<>>
  <2>1. lane \in Seq(BlockType)
    BY <1>2
  <2> QED BY <1>2, <2>1, BlocksAre, BlocksOfBlocks
<1>4. Contiguous(<<>>) /\ Grown(<<>>)
  <2>1. Len(<<>>) = 0 /\ 1 .. 0 = {} /\ 2 .. 0 = {} /\ 1 .. 0 - 1 = {}
    OBVIOUS
  <2> QED BY <2>1 DEF Contiguous, Grown
<1>5. Count(Blocks) = 0 /\ target \in Nat
  BY <1>1, <1>3, Basics DEF Count
<1>6. CutInv
  BY <1>2 DEF CutInv, NewCall
<1>7. GrownInv
  BY <1>2, <1>3, <1>4, <1>5 DEF GrownInv
<1> QED BY <1>2, <1>3, <1>4, <1>6, <1>7 DEF LaneInv, CommitterInv, SettledInv, Unread

LEMMA LaneCommand ==
  ASSUME TypeOK, TypeOK', AttInv, LaneInv,
         \/ \E t \in Targets : Start(t)
         \/ DropBoundary \/ Resume \/ Interrupt \/ Kill \/ Idle
  PROVE  LaneInv'
<1>1. /\ Blocks = BlocksOf(lane) /\ Blocks' = BlocksOf(lane')
      /\ lane \in Seq(ItemType) /\ lane' \in Seq(ItemType)
      /\ Blocks \in Seq(BlockType) /\ Blocks' \in Seq(BlockType)
      /\ Len(lane) \in Nat /\ Len(lane') \in Nat
      /\ target \in Nat /\ target' \in Nat /\ Count(Blocks) \in Nat
      /\ call \in CallType /\ call' \in CallType
  BY LaneBoth
<1>2. /\ Contiguous(Blocks) /\ CutInv
      /\ ~blind /\ ~gapped => Grown(Blocks) /\ Count(Blocks) <= target
  BY DEF LaneInv, GrownInv
<1>3. NewCall.boundary = None /\ NewCall \in CallType
  BY Basics DEF NewCall
<1>4. ASSUME NEW t \in Targets, Start(t) PROVE LaneInv'
  <2>1. /\ UNCHANGED <<lane, manifest, call, blind, gapped>> /\ target' = t
        /\ pc' \in {"extending", "resuming"} /\ (t = target \/ t > target)
    BY <1>4 DEF Start, disk
  <2>2. Blocks' = Blocks
    BY <1>1, <2>1
  <2>3. Contiguous(Blocks)' /\ CutInv'
    BY <1>2, <2>1, <2>2 DEF CutInv, Contiguous
  <2>4. GrownInv'
    <3>1. Grown(Blocks)' <=> Grown(Blocks)
      BY <2>2 DEF Grown
    <3>2. Count(Blocks) <= target => Count(Blocks') <= target'
      BY <1>1, <2>1, <2>2
    <3> QED BY <1>2, <2>1, <3>1, <3>2 DEF GrownInv
  <2> QED BY <2>1, <2>3, <2>4 DEF LaneInv, CommitterInv, SettledInv, Unread
<1>5. CASE DropBoundary
  <2>1. /\ UNCHANGED <<manifest, target, call, blind, gapped>>
        /\ pc = "extending" /\ pc' = "resuming"
        /\ lane' = IF manifest.offset = None THEN lane ELSE SubSeq(lane, 1, manifest.offset)
    BY <1>5 DEF DropBoundary, history
  <2>2. call = NewCall
    BY <2>1 DEF AttInv, Unread
  <2>3. PICK k \in 0 .. Len(lane) :
          /\ lane' = lane \/ lane' = SubSeq(lane, 1, k)
          /\ manifest.offset # None => manifest.offset = k /\ lane' = SubSeq(lane, 1, k)
    <3>1. CASE manifest.offset = None
      BY <1>1, <2>1, <3>1
    <3>2. CASE manifest.offset # None
      <4>1. manifest.offset \in 0 .. Len(lane)
        <5>1. manifest.offset \in Nat /\ manifest.offset <= Len(lane)
          BY <1>2, <3>2 DEF CutInv, TypeOK
        <5> QED BY <1>1, <5>1
      <4> QED BY <2>1, <3>2, <4>1
    <3> QED BY <3>1, <3>2
  <2>4. PICK n \in 0 .. Len(Blocks) : Blocks' = SubSeq(Blocks, 1, n) \/ Blocks' = Blocks
    <3>1. Len(Blocks) \in Nat
      BY <1>1, LaneSets
    <3>2. CASE lane' = lane
      BY <1>1, <3>1, <3>2
    <3>3. CASE lane' = SubSeq(lane, 1, k)
      <4>1. BlocksOf(SubSeq(lane, 1, k)) =
              IF k <= Len(BlocksOf(lane)) THEN SubSeq(BlocksOf(lane), 1, k) ELSE BlocksOf(lane)
        BY <1>1, BlocksOfCut
      <4>2. k \in Nat
        BY <1>1
      <4>3. k <= Len(Blocks) => k \in 0 .. Len(Blocks)
        BY <3>1, <4>2
      <4>4. CASE k <= Len(Blocks)
        <5>1. Blocks' = SubSeq(Blocks, 1, k)
          BY <1>1, <3>3, <4>1, <4>4
        <5> QED BY <4>3, <4>4, <5>1
      <4>5. CASE ~(k <= Len(Blocks))
        <5>1. Blocks' = Blocks
          BY <1>1, <3>3, <4>1, <4>5
        <5> QED BY <3>1, <5>1
      <4> QED BY <4>4, <4>5
    <3> QED BY <2>3, <3>2, <3>3
  <2>5. Contiguous(Blocks)'
    <3>1. Contiguous(SubSeq(Blocks, 1, n))
      BY <1>1, <1>2, ContiguousCut
    <3>2. Contiguous(Blocks')
      BY <1>2, <2>4, <3>1
    <3> QED BY <3>2 DEF Contiguous
  <2>6. CutInv'
    <3>1. manifest.offset # None => Len(lane') = manifest.offset
      BY <1>1, <2>3, CutSeq
    <3>2. manifest.offset # None => manifest.offset \in Nat
      BY DEF TypeOK
    <3>3. manifest'.offset # None => manifest'.offset <= Len(lane')
      BY <1>1, <2>1, <3>1, <3>2
    <3> QED BY <1>3, <2>1, <2>2, <3>3 DEF CutInv
  <2>7. GrownInv'
    <3> SUFFICES ASSUME ~blind, ~gapped PROVE Grown(Blocks') /\ Count(Blocks') <= target
      BY <2>1 DEF GrownInv, Grown
    <3>1. Grown(Blocks) /\ Count(Blocks) <= target
      BY <1>2
    <3>2. Grown(SubSeq(Blocks, 1, n))
      BY <1>1, <3>1, GrownCut
    <3>3. Count(SubSeq(Blocks, 1, n)) <= Count(Blocks)
      BY <1>1, <1>2, CutCount
    <3>4. Count(SubSeq(Blocks, 1, n)) \in Nat
      <4>1. SubSeq(Blocks, 1, n) \in Seq(BlockType)
        BY <1>1, CutSets
      <4> QED BY <4>1, LaneSets
    <3>5. Count(SubSeq(Blocks, 1, n)) <= target
      BY <1>1, <3>1, <3>3, <3>4
    <3> QED BY <2>4, <3>1, <3>2, <3>5
  <2> QED BY <2>1, <2>5, <2>6, <2>7 DEF LaneInv, CommitterInv, SettledInv, Unread
<1>6. CASE Resume
  <2>1. /\ UNCHANGED <<lane, manifest, target, gapped>>
        /\ pc = "resuming" /\ pc' \in {"leaving", "attempting"}
        /\ call' = [NewCall EXCEPT !.resume_skip_through = resume_skip_through(Blocks),
                      !.fen_set = FensOf(Blocks), !.committed = Count(Blocks)]
        /\ \/ Count(Blocks) >= target /\ blind' = blind
           \/ blind' = (blind \/ EndsCut)
    BY <1>6 DEF Resume, disk
  <2>2. Blocks' = Blocks
    BY <1>1, <2>1
  <2>3. /\ call'.resume_skip_through = resume_skip_through(Blocks)
        /\ call'.fen_set = FensOf(Blocks) /\ call'.committed = Count(Blocks)
        /\ call'.max_appended_game_id = 0 /\ call'.boundary = None
    BY <2>1 DEF NewCall
  <2>4. Contiguous(Blocks)' /\ CutInv'
    BY <1>2, <2>1, <2>2, <2>3 DEF CutInv, Contiguous
  <2>5. CommitterInv'
    <3>1. /\ resume_skip_through(Blocks) \in IdsOf(Blocks) \cup {0}
          /\ \A h \in IdsOf(Blocks) : h <= resume_skip_through(Blocks)
      BY <1>1, ResumeSkips
    <3> QED BY <2>2, <2>3, <3>1 DEF CommitterInv
  <2>6. GrownInv'
    <3> SUFFICES ASSUME ~blind', ~gapped' PROVE Grown(Blocks)' /\ Count(Blocks') <= target'
                                                /\ EndsWell(Blocks)'
      BY DEF GrownInv
    <3>1. ~blind /\ ~gapped /\ (Count(Blocks) >= target \/ ~EndsCut)
      <4>1. gapped' = gapped
        BY <2>1
      <4>2. CASE blind' = blind /\ Count(Blocks) >= target
        BY <4>1, <4>2
      <4>3. CASE blind' = (blind \/ EndsCut)
        <5>1. ~(blind \/ EndsCut)
          BY <4>3
        <5> QED BY <4>1, <5>1
      <4> QED BY <2>1, <4>2, <4>3
    <3>2. Grown(Blocks) /\ Count(Blocks) <= target
      BY <1>2, <3>1
    <3>3. EndsWell(Blocks)
      BY <3>1, EndsCutIs DEF EndsWell
    <3> QED BY <2>1, <2>2, <3>2, <3>3 DEF Grown, EndsWell
  <2> QED BY <2>1, <2>4, <2>5, <2>6 DEF LaneInv, SettledInv
<1>7. CASE Interrupt \/ Idle
  <2>1. UNCHANGED <<lane, manifest, target, call, att, pc, blind, gapped>>
    BY <1>7 DEF Interrupt, Idle, vars, disk, history
  <2>2. Blocks' = Blocks
    BY <1>1, <2>1
  <2>3. CutInv'
    BY <1>2, <2>1 DEF CutInv
  <2>4. SettledInv'
    BY <2>1, <2>2 DEF LaneInv, SettledInv, Settled
  <2> QED BY <2>1, <2>2, <2>3, <2>4, LaneFrame
<1>8. CASE Kill
  <2>1. /\ UNCHANGED <<manifest, target, blind, gapped>> /\ pc' = "down" /\ call' = NewCall
        /\ lane' = lane \/ lane' = Append(lane, Torn)
    BY <1>8 DEF Kill, history
  <2>2. Blocks' = Blocks
    BY <1>1, <2>1, BlocksOfTorn
  <2>3. CutInv'
    <3>1. Torn \in ItemType
      BY DEF ItemType
    <3>2. Len(lane') >= Len(lane)
      BY <1>1, <2>1, <3>1, AppendProperties
    <3>3. manifest.offset # None => manifest.offset \in Nat /\ manifest.offset <= Len(lane)
      BY <1>2 DEF CutInv, TypeOK
    <3>4. manifest.offset # None => manifest.offset <= Len(lane')
      BY <1>1, <3>2, <3>3
    <3> QED BY <1>3, <2>1, <3>4 DEF CutInv
  <2>4. SettledInv'
    BY <2>1 DEF SettledInv
  <2> QED BY <2>1, <2>2, <2>3, <2>4, LaneFrame DEF Unread
<1> QED BY <1>4, <1>5, <1>6, <1>7, <1>8

LEMMA LaneGoing ==
  ASSUME TypeOK, TypeOK', AttInv, LaneInv, Going
  PROVE  LaneInv'
<1>1. /\ Goes(pc, pc') /\ pc \in GoingFrom
      /\ pc' \in {"leaving", "downloading", "preflight", "backoff", "failed",
                  "attempting", "returned"}
      /\ \/ manifest' = manifest
         \/ manifest' = [target |-> IF target = Unbounded THEN None ELSE target,
                         offset |-> call.boundary]
  BY GoingIs
<1>2. /\ UNCHANGED <<lane, target, blind, gapped>>
      /\ call' \in {call, NewCall} /\ (pc' \notin Down => call' = call)
  BY <1>1 DEF Goes, history
<1>3. Blocks' = Blocks
  BY <1>2, BlocksAre
<1>4. CutInv'
  <2>1. call'.boundary # None => call'.boundary <= Len(lane')
    BY <1>2 DEF LaneInv, CutInv, NewCall
  <2>2. manifest'.offset # None => manifest'.offset <= Len(lane')
    BY <1>1, <1>2 DEF LaneInv, CutInv
  <2> QED BY <2>1, <2>2 DEF CutInv
<1>5. SettledInv'
  BY <1>1 DEF SettledInv
<1>6. pc' \notin Unread => call' = call /\ pc \notin Unread
  BY <1>1, <1>2 DEF Unread, Down, GoingFrom
<1> QED BY <1>1, <1>2, <1>3, <1>4, <1>5, <1>6, LaneFrame DEF GoingFrom

\* A step that reads, or that parses no game.
LEMMA LaneReads ==
  ASSUME TypeOK, TypeOK', AttInv, LaneInv, UNCHANGED <<lane, call, manifest, target, blind, gapped>>,
         pc \notin Unread, pc' \in {"downloading", "preflight", "parsing", "classifying", "backoff"},
         pc' \in {"parsing", "classifying"} =>
           \/ pc \in {"parsing", "classifying"} /\ att'.fed = att.fed
           \/ att'.fed \in {0, 1}
  PROVE  LaneInv'
<1>1. Blocks' = Blocks
  BY BlocksAre
<1>2. CutInv'
  BY DEF LaneInv, CutInv
<1>3. SettledInv'
  <2>1. \A r \in Parsable : ~(r < 0) /\ ~(r < 1)
    BY IdsFinite
  <2>2. \A r \in Parsable : Settled(Blocks, GameId(r))' <=> Settled(Blocks, GameId(r))
    BY <1>1 DEF Settled
  <2>3. CASE att'.fed \in {0, 1}
    BY <2>1, <2>3 DEF SettledInv
  <2>4. CASE pc \in {"parsing", "classifying"} /\ att'.fed = att.fed
    BY <1>1, <2>2, <2>4 DEF LaneInv, SettledInv
  <2>5. CASE pc' \notin {"parsing", "classifying"}
    BY <2>5 DEF SettledInv
  <2> QED BY <2>3, <2>4, <2>5
<1> QED BY <1>1, <1>2, <1>3, LaneFrame DEF Unread

LEMMA LaneNetwork ==
  ASSUME TypeOK, TypeOK', AttInv, LaneInv, Networking
  PROVE  LaneInv'
<1>1. /\ NetworkKeeps
      /\ pc \in {"downloading", "preflight", "parsing"}
      /\ pc' \in {"downloading", "preflight", "parsing", "classifying", "backoff"}
      /\ pc' # "backoff" => att'.fed = att.fed
  BY NetworkIs
<1>2. pc # "parsing" => att.fed = 0
  BY <1>1 DEF AttInv
<1> QED BY <1>1, <1>2, LaneReads DEF NetworkKeeps, Unread

\* A block that is not among those of the lane is seen as torn.
LEMMA TornAppended ==
  ASSUME NEW l \in Seq(ItemType)
  PROVE  /\ Len(Append(l, Torn)) = Len(l) + 1
         /\ Append(l, Torn) # BlocksOf(Append(l, Torn))
<1>1. Torn \in ItemType
  BY DEF ItemType
<1>2. /\ Len(Append(l, Torn)) = Len(l) + 1 /\ Append(l, Torn)[Len(l) + 1] = Torn
      /\ Len(l) \in Nat
  BY <1>1, AppendProperties
<1>3. IsValid(l, BlocksOf(l)) /\ BlocksOf(Append(l, Torn)) = BlocksOf(l)
  BY ValidBlocks, BlocksOfTorn
<1>4. Len(BlocksOf(l)) \in Nat /\ Len(BlocksOf(l)) <= Len(l)
  BY <1>3, LenProperties DEF IsValid
<1>5. Len(BlocksOf(Append(l, Torn))) # Len(Append(l, Torn))
  BY <1>2, <1>3, <1>4
<1> QED BY <1>2, <1>5

\* What an append makes of the process.
LEMMA AppendBlockIs ==
  ASSUME TypeOK, NEW id \in Ids, NEW kept, NEW s, Appended(kept, s), AppendBlock(id, kept, s)
  PROVE  \E b \in BlockType :
           /\ lane' = Append(lane, b)
           /\ b.game = id /\ b.start = call.committed /\ b.fens = kept
           /\ call'.fen_set = call.fen_set \cup ToSet(kept)
           /\ call'.committed = call.committed + Len(kept)
           /\ call'.boundary \in {call.boundary, Len(lane)}
           /\ call'.max_appended_game_id = id
           /\ call'.resume_skip_through = call.resume_skip_through
           /\ call'.commit_abort = call.commit_abort
           /\ gapped' = (gapped \/ call.commit_abort)
<1> DEFINE b == [game |-> id, start |-> call.committed, fens |-> kept]
<1>1. call \in CallType /\ call.committed \in Nat
  BY Basics
<1>2. b \in BlockType
  BY <1>1 DEF BlockType, Appended
<1>3. /\ lane' = Append(lane, b)
      /\ call' = [call EXCEPT
                    !.fen_set = @ \cup ToSet(kept), !.committed = @ + Len(kept),
                    !.boundary = IF kept # s /\ @ = None THEN Len(lane) ELSE @,
                    !.max_appended_game_id = id]
      /\ gapped' = (gapped \/ call.commit_abort)
  BY DEF AppendBlock
<1>4. /\ call'.fen_set = call.fen_set \cup ToSet(kept)
      /\ call'.committed = call.committed + Len(kept)
      /\ call'.boundary \in {call.boundary, Len(lane)}
      /\ call'.max_appended_game_id = id
      /\ call'.resume_skip_through = call.resume_skip_through
      /\ call'.commit_abort = call.commit_abort
  BY <1>1, <1>3 DEF CallType
<1>5. b.game = id /\ b.start = call.committed /\ b.fens = kept
  OBVIOUS
<1> HIDE DEF b
<1> QED BY <1>2, <1>3, <1>4, <1>5

\* Ingest that appends nothing: the games parsed so far are settled.
SettledThrough(raw) ==
  (lane = Blocks /\ ~call.commit_abort) =>
    \A r \in Parsable : r <= raw => Settled(Blocks, GameId(r))
LEMMA PassedIsSettled ==
  ASSUME TypeOK, LaneInv, pc = "parsing", NEW records,
         att.fed \in Parsable =>
           \/ Seen(GameId(att.fed)) \/ target_reached
           \/ Survivors(records, GameId(att.fed), call.fen_set) = <<>>,
         records = recs(GameId(att.fed)) \/ call.commit_abort \/ target_reached
  PROVE  SettledThrough(att.fed)
<1> SUFFICES ASSUME lane = Blocks, ~call.commit_abort, NEW r \in Parsable, r <= att.fed
             PROVE  Settled(Blocks, GameId(r))
  BY DEF SettledThrough
<1>1. /\ call.committed = Count(Blocks) /\ call.fen_set = FensOf(Blocks)
      /\ {call.resume_skip_through, call.max_appended_game_id} \subseteq IdsOf(Blocks) \cup {0}
  BY DEF LaneInv, CommitterInv, Unread
<1>2. CASE r < att.fed
  BY <1>2 DEF LaneInv, SettledInv
<1>3. CASE r = att.fed
  <2>1. GameId(r) \in Ids
    BY GameIds
  <2>2. GameId(r) \in Nat /\ GameId(r) # 0
    BY <2>1, IdsFinite
  <2>3. CASE Seen(GameId(r))
    <3>1. PICK h \in IdsOf(Blocks) \cup {0} : GameId(r) <= h
      BY <1>1, <2>3 DEF Seen
    <3>2. h \in IdsOf(Blocks)
      BY <2>2, <3>1
    <3> QED BY <3>1, <3>2 DEF Settled
  <2>4. CASE target_reached
    BY <1>1, <2>4 DEF Settled, target_reached
  <2>5. CASE Survivors(records, GameId(r), call.fen_set) = <<>> /\ ~target_reached
    <3>1. Admits(GameId(r), FensOf(Blocks)) = <<>>
      BY <1>1, <1>3, <2>5 DEF Admits
    <3> QED BY <3>1 DEF Settled
  <2> QED BY <1>3, <2>3, <2>4, <2>5
<1>4. r \in Int /\ att.fed \in Int
  BY Basics, IdsFinite
<1> QED BY <1>2, <1>3, <1>4

\* The block of a game that is committed behind those below it.
LEMMA LaneGrows ==
  ASSUME TypeOK, TypeOK', LaneInv, UNCHANGED <<target, blind>>,
         pc = "parsing", pc' \in {"parsing", "classifying"}, NEW records, NEW kept,
         NEW b \in BlockType, lane = Blocks, Blocks' = Append(Blocks, b),
         att.fed \in Parsable, ~Seen(GameId(att.fed)), ~target_reached,
         records = recs(GameId(att.fed)) \/ call.commit_abort \/ target_reached,
         Appended(kept, Survivors(records, GameId(att.fed), call.fen_set)),
         b.game = GameId(att.fed), b.start = call.committed, b.fens = kept,
         call'.fen_set = call.fen_set \cup ToSet(kept),
         call'.committed = call.committed + Len(kept),
         call'.max_appended_game_id = b.game,
         call'.resume_skip_through = call.resume_skip_through,
         call'.commit_abort = call.commit_abort,
         gapped' = (gapped \/ call.commit_abort)
  PROVE  /\ Contiguous(Blocks)' /\ CommitterInv' /\ GrownInv'
         /\ ~call'.commit_abort =>
              \A r \in Parsable : r <= att.fed => Settled(Blocks, GameId(r))'
<1> DEFINE id == GameId(att.fed)
           B == Blocks
           C == Append(B, b)
<1>1. /\ B \in Seq(BlockType) /\ target \in Nat /\ Count(B) \in Nat /\ call \in CallType
      /\ Len(B) \in Nat /\ IdsOf(B) \subseteq Ids
  BY LaneBoth, LaneSets
<1>2. /\ C \in Seq(BlockType) /\ Len(C) = Len(B) + 1 /\ C[Len(B) + 1] = b
      /\ IdsOf(C) = IdsOf(B) \cup {id} /\ FensOf(C) = FensOf(B) \cup ToSet(kept)
      /\ Count(C) = End(b)
      /\ \A i \in 1 .. Len(B) + 1 : FensBefore(C, i) = FensBefore(B, i)
  BY <1>1, AppendedLane
<1>3. /\ call.committed = Count(B)
      /\ {call.resume_skip_through, call.max_appended_game_id} \subseteq IdsOf(B) \cup {0}
      /\ \A h \in IdsOf(B) :
           h <= call.resume_skip_through \/ h <= call.max_appended_game_id
      /\ ~call.commit_abort => call.fen_set = FensOf(B)
  BY DEF LaneInv, CommitterInv, Unread
<1>4. id \in Ids /\ id \in Nat /\ Ids \subseteq Nat
  BY GameIds, IdsFinite
<1>5. /\ Len(kept) \in Nat /\ Len(kept) > 0 /\ call.committed + Len(kept) <= target
      /\ Prefix(kept, Survivors(records, id, call.fen_set))
      /\ kept = Survivors(records, id, call.fen_set) \/ call.committed + Len(kept) >= target
  BY DEF Appended
<1>6. Count(C) = call.committed + Len(kept)
  BY <1>2 DEF End
<1>7. /\ Contiguous(B)
      /\ ~blind /\ ~gapped => Grown(B) /\ Count(B) <= target /\ EndsWell(B)
      /\ ~call.commit_abort => \A r \in Parsable : r < att.fed => Settled(B, GameId(r))
  BY DEF LaneInv, GrownInv, SettledInv
<1>8. /\ id > call.resume_skip_through /\ id > call.max_appended_game_id
      /\ \A h \in IdsOf(B) : h < id
  <2>1. call.resume_skip_through \in Nat /\ call.max_appended_game_id \in Nat
    <3>1. call.resume_skip_through \in Ids \cup {0} /\ call.max_appended_game_id \in Ids \cup {0}
      BY <1>1 DEF CallType
    <3>2. Ids \cup {0} \subseteq Nat
      BY IdsFinite
    <3> QED BY <3>1, <3>2
  <2>2. id > call.resume_skip_through /\ id > call.max_appended_game_id
    BY <1>4, <2>1 DEF Seen
  <2>3. ASSUME NEW h \in IdsOf(B) PROVE h < id
    <3>1. h \in Nat /\ (h <= call.resume_skip_through \/ h <= call.max_appended_game_id)
      BY <1>1, <1>3, <1>4
    <3> QED BY <1>4, <2>1, <2>2, <3>1
  <2> QED BY <2>2, <2>3
<1>9. ~(Count(B) >= target)
  BY <1>3 DEF target_reached
<1>10. Contiguous(Blocks)'
  <2>1. Contiguous(C)
    BY <1>1, <1>3, <1>7, ContiguousAppend
  <2> QED BY <2>1 DEF Contiguous
<1>11. CommitterInv'
  <2>1. /\ call'.committed = Count(Blocks')
        /\ {call'.resume_skip_through, call'.max_appended_game_id} \subseteq IdsOf(Blocks') \cup {0}
    BY <1>2, <1>3, <1>6
  <2>2. ASSUME NEW h \in IdsOf(Blocks')
        PROVE  h <= call'.resume_skip_through \/ h <= call'.max_appended_game_id
    <3>1. h = id \/ h < id
      BY <1>2, <1>8
    <3>2. h \in Nat
      BY <1>1, <1>2, <1>4
    <3> QED BY <1>4, <3>1, <3>2
  <2>3. ~call'.commit_abort => call'.fen_set = FensOf(Blocks')
    BY <1>2, <1>3
  <2> QED BY <2>1, <2>2, <2>3 DEF CommitterInv
<1>12. ASSUME ~call.commit_abort
       PROVE  /\ Prefix(kept, Admits(id, FensOf(B)))
              /\ kept = Admits(id, FensOf(B)) \/ Count(C) >= target
  BY <1>3, <1>5, <1>6, <1>12 DEF Admits
<1>13. ASSUME ~call.commit_abort, NEW r \in Parsable, r < att.fed
       PROVE  Settled(B, GameId(r))
  BY <1>7, <1>13
<1>14. GrownInv'
  <2> SUFFICES ASSUME ~blind', ~gapped' PROVE GrownInv'
    BY DEF GrownInv
  <2>1. ~blind /\ ~gapped /\ ~call.commit_abort
    <3>1. gapped' = (gapped \/ call.commit_abort) /\ blind' = blind /\ ~blind' /\ ~gapped'
      OBVIOUS
    <3>2. ~(gapped \/ call.commit_abort)
      BY <3>1
    <3> QED BY <3>1, <3>2
  <2>2. Grown(B) /\ EndsWell(B)
    BY <1>7, <2>1
  <2>3. Grown(C)
    <3>1. B = <<>> \/ B[Len(B)].fens = All(B, Len(B))
      BY <1>9, <2>2 DEF EndsWell
    <3>2. Len(b.fens) > 0 /\ Prefix(b.fens, Admits(b.game, FensOf(B)))
      BY <1>5, <1>12, <2>1
    <3>3. \A h \in IdsOf(B) : h < b.game
      BY <1>8
    <3>4. ASSUME NEW g \in Ids, g < b.game, \A h \in IdsOf(B) : h < g
          PROVE  Admits(g, FensOf(B)) = <<>>
      <4>1. PICK r \in Parsable : GameId(r) = g
        BY GameIds
      <4>2. r < att.fed
        <5>1. r \in Int /\ att.fed \in Int /\ g \in Nat
          BY <1>4, IdsFinite
        <5>2. att.fed < r => id < g
          BY <4>1, GameIds
        <5>3. att.fed # r
          BY <1>4, <3>4, <4>1, <5>1
        <5> QED BY <1>4, <3>4, <5>1, <5>2, <5>3
      <4>3. Settled(B, g)
        BY <1>13, <2>1, <4>1, <4>2
      <4>4. \A h \in IdsOf(B) : ~(g <= h)
        <5>1. g \in Nat /\ \A h \in IdsOf(B) : h \in Nat
          BY <1>1, <1>4
        <5> QED BY <3>4, <5>1
      <4> QED BY <1>9, <4>3, <4>4 DEF Settled
    <3> QED BY <1>1, <2>2, <3>1, <3>2, <3>3, <3>4, GrownAppend
  <2>4. Count(Blocks') <= target'
    BY <1>5, <1>6
  <2>5. EndsWell(Blocks)'
    <3>1. Len(Blocks') = Len(B) + 1 /\ Blocks'[Len(Blocks')] = b
      BY <1>2
    <3>2. All(Blocks', Len(Blocks')) = Admits(id, FensOf(B))
      <4>1. Len(B) + 1 \in 1 .. Len(B) + 1
        BY <1>1
      <4>2. FensBefore(Blocks', Len(Blocks')) = FensBefore(B, Len(B) + 1)
        BY <1>2, <3>1, <4>1
      <4>3. FensBefore(B, Len(B) + 1) = FensOf(B)
        BY <1>1, LaneSets
      <4> QED BY <3>1, <4>2, <4>3 DEF All
    <3>3. Blocks'[Len(Blocks')].fens = All(Blocks', Len(Blocks')) \/ Count(Blocks') >= target'
      BY <1>12, <2>1, <3>1, <3>2
    <3> QED BY <3>3 DEF EndsWell
  <2>6. Grown(Blocks)'
    BY <2>3 DEF Grown
  <2> QED BY <2>4, <2>5, <2>6 DEF GrownInv
<1>15. ASSUME ~call'.commit_abort, NEW r \in Parsable, r <= att.fed
       PROVE  Settled(Blocks, GameId(r))'
  <2>1. Settled(C, GameId(r))
    <3>1. CASE r < att.fed
      <4>1. Settled(B, GameId(r)) /\ GameId(r) \in Ids
        BY <1>13, <1>15, <3>1, GameIds
      <4> QED BY <1>1, <1>3, <4>1, SettledAppend
    <3>2. CASE r = att.fed
      <4>1. id \in IdsOf(C) /\ id <= id
        BY <1>2, <1>4
      <4> QED BY <3>2, <4>1 DEF Settled
    <3>3. r \in Int /\ att.fed \in Int
      BY IdsFinite
    <3> QED BY <1>15, <3>1, <3>2, <3>3
  <2> QED BY <2>1 DEF Settled
<1> QED BY <1>10, <1>11, <1>14, <1>15

LEMMA LaneIngest ==
  ASSUME TypeOK, TypeOK', AttInv, LaneInv, ParserKeeps,
         pc = "parsing", pc' \in {"parsing", "classifying"},
         att'.fed \in {att.fed, att.fed + 1},
         NEW records, Ingest(att.fed, records),
         att.fed \in Parsable => records \in Partial(GameId(att.fed)),
         records = recs(GameId(att.fed)) \/ call.commit_abort \/ target_reached
  PROVE  /\ LaneInv'
         /\ (lane' = Blocks' /\ ~call'.commit_abort) =>
              \A r \in Parsable : r <= att.fed => Settled(Blocks, GameId(r))'
<1> DEFINE Goal == /\ LaneInv'
                   /\ (lane' = Blocks' /\ ~call'.commit_abort) =>
                        \A r \in Parsable : r <= att.fed => Settled(Blocks, GameId(r))'
           id == GameId(att.fed)
<1>1. /\ Blocks = BlocksOf(lane) /\ Blocks' = BlocksOf(lane')
      /\ lane \in Seq(ItemType) /\ lane' \in Seq(ItemType)
      /\ Blocks \in Seq(BlockType) /\ Blocks' \in Seq(BlockType)
      /\ Len(lane) \in Nat /\ Len(lane') \in Nat
      /\ target \in Nat /\ target' \in Nat /\ Count(Blocks) \in Nat
      /\ call \in CallType /\ call' \in CallType
  BY LaneBoth
<1>2. /\ UNCHANGED <<manifest, target, blind>> /\ att.fed \in Nat /\ att'.fed \in Nat
      /\ call.committed \in Nat
  <2>1. UNCHANGED <<manifest, target, blind>>
    BY DEF ParserKeeps
  <2>2. att.fed \in Nat /\ call.committed \in Nat
    BY Basics
  <2> QED BY <2>1, <2>2
<1>3. /\ Contiguous(Blocks) /\ CutInv
      /\ ~blind /\ ~gapped => Grown(Blocks) /\ Count(Blocks) <= target /\ EndsWell(Blocks)
  BY DEF LaneInv, GrownInv
<1>4. (lane = Blocks) =>
        /\ call.committed = Count(Blocks)
        /\ {call.resume_skip_through, call.max_appended_game_id} \subseteq IdsOf(Blocks) \cup {0}
        /\ \A h \in IdsOf(Blocks) :
             h <= call.resume_skip_through \/ h <= call.max_appended_game_id
        /\ ~call.commit_abort => call.fen_set = FensOf(Blocks)
  BY DEF LaneInv, CommitterInv, Unread
<1>5. ASSUME (lane' = Blocks' /\ ~call'.commit_abort) =>
                \A r \in Parsable : r <= att.fed => Settled(Blocks, GameId(r))'
      PROVE  SettledInv'
  <2> SUFFICES ASSUME lane' = Blocks', ~call'.commit_abort, NEW r \in Parsable, r < att'.fed
               PROVE  Settled(Blocks, GameId(r))'
    BY DEF SettledInv
  <2>1. r \in Int
    BY IdsFinite
  <2>2. r <= att.fed
    BY <1>2, <2>1
  <2> QED BY <1>5, <2>2
<1>6. ASSUME Blocks' = Blocks, UNCHANGED gapped, CutInv', CommitterInv',
             (lane' = Blocks' /\ ~call'.commit_abort) =>
                \A r \in Parsable : r <= att.fed => Settled(Blocks, GameId(r))'
      PROVE  Goal
  <2>1. Contiguous(Blocks)'
    BY <1>3, <1>6 DEF Contiguous
  <2>2. GrownInv'
    <3>1. /\ Grown(Blocks)' <=> Grown(Blocks)
          /\ EndsWell(Blocks)' <=> EndsWell(Blocks)
      BY <1>2, <1>6 DEF Grown, EndsWell
    <3> QED BY <1>2, <1>3, <1>6, <3>1 DEF GrownInv
  <2> QED BY <1>5, <1>6, <2>1, <2>2 DEF LaneInv
<1>7. ASSUME UNCHANGED <<lane, call, gapped, faults>>,
             att.fed \in Parsable =>
               \/ Seen(id) \/ target_reached
               \/ Survivors(records, id, call.fen_set) = <<>>
      PROVE  Goal
  <2>1. Blocks' = Blocks
    BY <1>1, <1>7
  <2>2. SettledThrough(att.fed)
    BY <1>7, PassedIsSettled
  <2>3. \A g : Settled(Blocks, g)' <=> Settled(Blocks, g)
    BY <1>2, <2>1 DEF Settled
  <2>4. CutInv'
    BY <1>2, <1>3, <1>7 DEF CutInv
  <2>5. CommitterInv'
    BY <1>4, <1>7, <2>1 DEF CommitterInv
  <2> QED BY <1>6, <1>7, <2>1, <2>2, <2>3, <2>4, <2>5 DEF SettledThrough
<1>8. ASSUME NEW kept, Appended(kept, Survivors(records, id, call.fen_set)), AppendFails(kept)
      PROVE  Goal
  <2>1. /\ lane' \in {lane, Append(lane, Torn)} /\ UNCHANGED gapped
        /\ call'.commit_abort /\ call'.boundary = call.boundary
        /\ call'.committed = call.committed
        /\ call'.resume_skip_through = call.resume_skip_through
        /\ call'.max_appended_game_id = call.max_appended_game_id
    BY <1>1, <1>8 DEF AppendFails, CallType
  <2>2. CASE lane' = lane
    <3>1. Blocks' = Blocks
      BY <1>1, <2>2
    <3>2. CutInv'
      BY <1>2, <1>3, <2>1, <2>2 DEF CutInv
    <3>3. CommitterInv'
      BY <1>4, <2>1, <2>2, <3>1 DEF CommitterInv
    <3> QED BY <1>6, <2>1, <3>1, <3>2, <3>3
  <2>3. CASE lane' = Append(lane, Torn)
    <3>1. Blocks' = Blocks /\ lane' # Blocks' /\ Len(lane') = Len(lane) + 1
      BY <1>1, <2>3, BlocksOfTorn, TornAppended
    <3>2. CutInv'
      <4>1. /\ manifest.offset # None => manifest.offset \in Nat /\ manifest.offset <= Len(lane)
            /\ call.boundary # None => call.boundary \in Nat /\ call.boundary <= Len(lane)
        BY <1>1, <1>3 DEF CutInv, TypeOK, CallType
      <4>2. manifest' = manifest /\ call'.boundary = call.boundary
        BY <1>2, <2>1
      <4>3. \A k \in Nat : k <= Len(lane) => k <= Len(lane')
        BY <1>1, <3>1
      <4> QED BY <4>1, <4>2, <4>3 DEF CutInv
    <3>3. CommitterInv'
      BY <3>1 DEF CommitterInv
    <3> QED BY <1>6, <2>1, <3>1, <3>2, <3>3
  <2> QED BY <2>1, <2>2, <2>3
<1>9. ASSUME att.fed \in Parsable, ~Seen(id), ~target_reached,
             NEW kept, Appended(kept, Survivors(records, id, call.fen_set)),
             AppendBlock(id, kept, Survivors(records, id, call.fen_set))
      PROVE  Goal
  <2> DEFINE s == Survivors(records, id, call.fen_set)
  <2>1. id \in Ids /\ id \in Nat /\ id # 0
    BY <1>9, GameIds, IdsFinite
  <2>2. PICK b \in BlockType :
          /\ lane' = Append(lane, b)
          /\ b.game = id /\ b.start = call.committed /\ b.fens = kept
          /\ call'.fen_set = call.fen_set \cup ToSet(kept)
          /\ call'.committed = call.committed + Len(kept)
          /\ call'.boundary \in {call.boundary, Len(lane)}
          /\ call'.max_appended_game_id = id
          /\ call'.resume_skip_through = call.resume_skip_through
          /\ call'.commit_abort = call.commit_abort
          /\ gapped' = (gapped \/ call.commit_abort)
    BY <1>9, <2>1, AppendBlockIs
  <2>3. b \in ItemType
    BY DEF ItemType
  <2>4. CutInv'
    <3>1. Len(lane') = Len(lane) + 1
      BY <1>1, <2>2, <2>3, AppendProperties
    <3>2. /\ manifest.offset # None => manifest.offset \in Nat /\ manifest.offset <= Len(lane)
          /\ call.boundary # None => call.boundary \in Nat /\ call.boundary <= Len(lane)
      BY <1>1, <1>3 DEF CutInv, TypeOK, CallType
    <3>3. call'.boundary # None => call'.boundary <= Len(lane')
      BY <1>1, <2>2, <3>1, <3>2
    <3> QED BY <1>1, <1>2, <3>1, <3>2, <3>3 DEF CutInv
  <2>5. CASE lane # Blocks
    <3>1. Blocks' = Blocks /\ lane' # Blocks'
      BY <1>1, <2>2, <2>3, <2>5, BehindTorn
    <3>2. CommitterInv'
      BY <3>1 DEF CommitterInv
    <3>3. Contiguous(Blocks)'
      BY <1>3, <3>1 DEF Contiguous
    <3>4. GrownInv'
      <4>1. /\ Grown(Blocks)' <=> Grown(Blocks)
            /\ EndsWell(Blocks)' <=> EndsWell(Blocks)
        BY <1>2, <3>1 DEF Grown, EndsWell
      <4>2. gapped => gapped'
        BY <2>2, Zenon
      <4> QED BY <1>2, <1>3, <3>1, <4>1, <4>2 DEF GrownInv
    <3> QED BY <1>5, <2>4, <3>1, <3>2, <3>3, <3>4 DEF LaneInv
  <2>6. CASE lane = Blocks
    <3>1. Blocks' = Append(Blocks, b) /\ lane' = Blocks'
      <4>1. Append(Blocks, b) \in Seq(BlockType)
        BY <1>1, AppendProperties
      <4> QED BY <1>1, <2>2, <2>6, <4>1, BlocksOfBlocks
    <3>2. /\ Contiguous(Blocks)' /\ CommitterInv' /\ GrownInv'
          /\ ~call'.commit_abort =>
               \A r \in Parsable : r <= att.fed => Settled(Blocks, GameId(r))'
      BY <1>2, <1>9, <2>2, <2>6, <3>1, LaneGrows
    <3> QED BY <1>5, <2>4, <3>2 DEF LaneInv
  <2> QED BY <2>5, <2>6
<1> QED BY <1>7, <1>8, <1>9, IngestIs

LEMMA LaneParse ==
  ASSUME TypeOK, TypeOK', AttInv, LaneInv, Parse
  PROVE  LaneInv'
<1>1. ParserKeeps /\ (NextGame \/ NoMoreGames \/ NoGame)
  BY ParseIs
<1>2. /\ UNCHANGED <<manifest, target, blind>> /\ att.fed \in Nat
      /\ att.fed \in Parsable => recs(GameId(att.fed)) \in Partial(GameId(att.fed))
  BY <1>1, Basics, Whole DEF ParserKeeps
<1>3. CASE NextGame /\ att.fed = 0 /\ LaneAlone
  <2>1. /\ UNCHANGED <<lane, call, gapped>> /\ att'.fed \in {0, 1} /\ pc = "parsing"
        /\ pc' \in {"parsing", "classifying"}
    BY <1>3 DEF NextGame, LaneAlone
  <2> QED BY <1>2, <2>1, LaneReads DEF Unread
<1>4. CASE NextGame /\ Ingest(att.fed, recs(GameId(att.fed)))
  <2>1. /\ pc = "parsing" /\ pc' \in {"parsing", "classifying"}
        /\ att'.fed \in {att.fed, att.fed + 1}
    BY <1>4 DEF NextGame
  <2> QED BY <1>1, <1>2, <1>4, <2>1, LaneIngest
<1>5. CASE NoMoreGames
  <2>1. /\ pc = "parsing" /\ pc' \in {"parsing", "classifying"}
        /\ att'.fed \in {att.fed, att.fed + 1}
    BY <1>5 DEF NoMoreGames
  <2>2. PICK records :
          /\ Ingest(att.fed, records)
          /\ att.fed \in Parsable => records \in Partial(GameId(att.fed))
          /\ records = recs(GameId(att.fed)) \/ call.commit_abort \/ target_reached
    BY <1>5 DEF NoMoreGames
  <2> QED BY <1>1, <2>1, <2>2, LaneIngest
<1>6. CASE NoGame
  <2>1. /\ UNCHANGED <<lane, call, gapped>> /\ pc \in {"preflight", "parsing"}
        /\ pc' \in {"preflight", "parsing", "classifying"} /\ att'.fed = att.fed
    BY <1>6 DEF NoGame, LaneAlone
  <2>2. pc = "preflight" => att.fed = 0
    BY DEF AttInv
  <2> QED BY <1>2, <2>1, <2>2, LaneReads DEF Unread
<1> QED BY <1>1, <1>3, <1>4, <1>5, <1>6 DEF NextGame

LEMMA LaneStep == TypeOK /\ TypeOK' /\ AttInv /\ LaneInv /\ Next => LaneInv'
BY LaneCommand, LaneGoing, LaneNetwork, LaneParse
DEF Next, Process, Attempt, NetworkFault, Going, Networking

-----------------------------------------------------------------------------
\* How the fetch ended.
LEMMA DrainFrame ==
  ASSUME DrainInv, UNCHANGED <<lane, target, bad, terminated>>,
         pc \in {"leaving", "returned"}
  PROVE  pc' \in {"leaving", "returned"} => DrainInv'
<1>1. Blocks' = Blocks
  BY BlocksAre
<1>2. AllSettled' <=> AllSettled
  BY <1>1 DEF AllSettled, Settled
<1> QED BY <1>1, <1>2 DEF DrainInv

LEMMA DrainCommand ==
  ASSUME TypeOK, TypeOK', DrainInv,
         \/ \E t \in Targets : Start(t)
         \/ DropBoundary \/ Resume \/ Interrupt \/ Kill \/ Idle
  PROVE  DrainInv'
<1>1. CASE (\E t \in Targets : Start(t)) \/ DropBoundary \/ Kill
  BY <1>1 DEF Start, DropBoundary, Kill, DrainInv
<1>2. CASE Resume
  <2>1. /\ UNCHANGED <<lane, target>> /\ pc' \in {"leaving", "attempting"}
        /\ pc' = "leaving" => terminated' = "EarlyTarget" /\ Count(Blocks) >= target
    BY <1>2 DEF Resume, disk
  <2>2. Blocks' = Blocks
    BY <2>1, BlocksAre
  <2> QED BY <2>1, <2>2 DEF DrainInv
<1>3. CASE Interrupt
  <2>1. UNCHANGED <<lane, target, bad, terminated, pc>> /\ stop'
    BY <1>3 DEF Interrupt, disk, dump
  <2>2. CASE pc \in {"leaving", "returned"}
    BY <2>1, <2>2, DrainFrame
  <2>3. CASE pc \notin {"leaving", "returned"}
    BY <2>1, <2>3 DEF DrainInv, Halted
  <2> QED BY <2>2, <2>3
<1>4. CASE Idle
  <2>1. UNCHANGED <<lane, target, bad, terminated, pc>> /\ pc # "classifying"
    BY <1>4 DEF Idle, vars, disk, dump, Running, Down
  <2>2. CASE pc \in {"leaving", "returned"}
    BY <2>1, <2>2, DrainFrame
  <2>3. CASE pc \notin {"leaving", "returned"}
    BY <2>1, <2>3 DEF DrainInv
  <2> QED BY <2>2, <2>3
<1> QED BY <1>1, <1>2, <1>3, <1>4

LEMMA DrainGoing ==
  ASSUME TypeOK, TypeOK', LaneInv, DrainInv, Going
  PROVE  DrainInv'
<1>1. /\ Goes(pc, pc') /\ pc \in GoingFrom
      /\ pc' \in {"leaving", "downloading", "preflight", "backoff", "failed",
                  "attempting", "returned"}
  BY GoingIs
<1>2. UNCHANGED <<lane, target, bad>>
  BY <1>1 DEF Goes, dump
<1>3. Blocks' = Blocks
  BY <1>2, BlocksAre
<1>4. AllSettled' <=> AllSettled
  BY <1>2, <1>3 DEF AllSettled, Settled
<1>5. CASE AttemptStopped
  <2>1. pc' = "leaving" /\ terminated' = "Stopped"
    BY <1>5 DEF AttemptStopped, Goes
  <2> QED BY <2>1 DEF DrainInv
<1>6. CASE Open \/ OpenFails \/ WakeUp \/ NotPgn
  <2>1. pc' \notin {"classifying", "leaving", "returned"}
    BY <1>6 DEF Open, OpenFails, WakeUp, NotPgn, Goes
  <2> QED BY <2>1 DEF DrainInv
<1>7. CASE Return
  <2>1. pc = "leaving" /\ pc' = "returned" /\ terminated' = terminated
    BY <1>7 DEF Return, Goes
  <2> QED BY <1>2, <2>1, DrainFrame
<1>8. CASE Classify
  <2>1. pc = "classifying"
    BY <1>8 DEF Classify, Ends, Fails, Goes
  <2>2. lane = Blocks => call.committed = Count(Blocks)
    BY <2>1 DEF LaneInv, CommitterInv, Unread
  <2>3. \/ pc' \in {"failed", "backoff"}
        \/ pc' = "leaving" /\ terminated' = "Stopped"
        \/ pc' = "leaving" /\ terminated' = "Eos" /\ ~Halted /\ Drained(att)
        \/ pc' = "leaving" /\ terminated' = "EarlyTarget" /\ target_reached
    BY <1>8 DEF Classify, Ends, Fails, Goes, Halted
  <2>4. CASE pc' \in {"failed", "backoff"}
    BY <2>4 DEF DrainInv
  <2>5. CASE pc' = "leaving" /\ terminated' = "Stopped"
    BY <2>5 DEF DrainInv
  <2>6. CASE pc' = "leaving" /\ terminated' = "Eos" /\ ~Halted /\ Drained(att)
    BY <1>2, <1>3, <1>4, <2>1, <2>6 DEF DrainInv
  <2>7. CASE pc' = "leaving" /\ terminated' = "EarlyTarget" /\ target_reached
    BY <1>2, <1>3, <2>2, <2>7 DEF DrainInv, target_reached
  <2> QED BY <2>3, <2>4, <2>5, <2>6, <2>7
<1> QED BY <1>5, <1>6, <1>7, <1>8 DEF Going

LEMMA DrainNetwork ==
  ASSUME TypeOK, AttInv, Networking
  PROVE  DrainInv'
<1>1. /\ pc' \in {"downloading", "preflight", "parsing", "classifying", "backoff"}
      /\ att'.eof_reason = None /\ (pc' = "classifying" => att'.failure # None)
  BY NetworkIs
<1>2. None # "InnerEof"
  BY NewAttemptIs
<1>3. pc' = "classifying" => ~Drained(att)'
  BY <1>1, <1>2 DEF Drained
<1> QED BY <1>1, <1>3 DEF DrainInv

LEMMA DrainParse ==
  ASSUME TypeOK, TypeOK', AttInv, LaneInv, Parse
  PROVE  DrainInv'
<1>1. ParserKeeps /\ (NextGame \/ NoMoreGames \/ NoGame)
  BY ParseIs
<1>2. UNCHANGED <<bad, target, stop>> /\ att'.failure = att.failure
      /\ (target_reached => target_reached')
  BY <1>1, AttParse DEF ParserKeeps
<1>3. CASE NextGame
  <2>1. pc' \in {"parsing", "classifying"} /\ (pc' = "classifying" => bad' # None)
    BY <1>2, <1>3 DEF NextGame
  <2> QED BY <2>1 DEF DrainInv
<1>4. CASE NoMoreGames
  <2>1. /\ pc = "parsing" /\ pc' = "classifying" /\ att.fed = att.got
        /\ att'.fed = att.fed
        /\ att'.eof_reason = "InnerEof" => att.got = NRaw
    BY <1>4 DEF NoMoreGames
  <2>2. PICK records :
          /\ Ingest(att.fed, records)
          /\ att.fed \in Parsable => records \in Partial(GameId(att.fed))
          /\ \/ att.got = NRaw /\ records = recs(GameId(att.fed))
             \/ call.commit_abort \/ target_reached
    BY <1>4 DEF NoMoreGames
  <2> SUFFICES ASSUME lane' = Blocks', ~Halted', Drained(att)' PROVE AllSettled'
    BY <2>1 DEF DrainInv
  <2>3. ~call'.commit_abort /\ ~call.commit_abort
    <3>1. ~call'.commit_abort
      BY DEF Halted
    <3> QED BY <1>2, <2>2, <3>1, IngestGrows
  <2>4. att.got = NRaw
    BY <1>2, <2>1, <2>2, <2>3 DEF Drained
  <2>5. \A r \in Parsable : r <= att.fed => Settled(Blocks, GameId(r))'
    <3>1. att'.fed \in {att.fed, att.fed + 1} /\ pc' \in {"parsing", "classifying"}
      BY <2>1
    <3>2. records = recs(GameId(att.fed)) \/ call.commit_abort \/ target_reached
      BY <2>2
    <3> QED BY <1>1, <2>1, <2>2, <2>3, <3>1, <3>2, LaneIngest
  <2>6. \A r \in Parsable : r <= att.fed
    BY <2>1, <2>4, IdsFinite
  <2>7. ASSUME NEW id \in Ids PROVE Settled(Blocks, id)'
    <3>1. PICK r \in Parsable : GameId(r) = id
      BY GameIds
    <3> QED BY <2>5, <2>6, <3>1
  <2> QED BY <2>7 DEF AllSettled
<1>5. CASE NoGame
  <2>1. UNCHANGED call /\ pc' \in {"preflight", "parsing", "classifying"}
        /\ (pc' = "classifying" /\ ~Halted => att'.eof_reason = "Target")
        /\ (att'.eof_reason = "Target" => target_reached)
    BY <1>5 DEF NoGame, LaneAlone
  <2>2. Halted' <=> Halted
    BY <1>2, <2>1 DEF Halted
  <2>3. pc' = "classifying" /\ ~Halted' => ~Drained(att)'
    BY <1>2, <2>1, <2>2 DEF Drained
  <2> QED BY <2>1, <2>3 DEF DrainInv
<1> QED BY <1>1, <1>3, <1>4, <1>5

LEMMA DrainStep == TypeOK /\ TypeOK' /\ AttInv /\ LaneInv /\ DrainInv /\ Next => DrainInv'
BY DrainCommand, DrainGoing, DrainNetwork, DrainParse
DEF Next, Process, Attempt, NetworkFault, Going, Networking

-----------------------------------------------------------------------------
LEMMA InitInv == Init => IInv
<1> SUFFICES ASSUME Init PROVE IInv
  OBVIOUS
<1>1. TypeOK /\ AttInv /\ LaneInv
  BY InitTypes, InitAtt, LaneInit
<1>2. DrainInv
  BY DEF Init, DrainInv
<1> QED BY <1>1, <1>2 DEF IInv

LEMMA InvStutter == IInv /\ UNCHANGED vars => IInv'
<1> SUFFICES ASSUME IInv, UNCHANGED vars PROVE IInv'
  OBVIOUS
<1>1. TypeOK /\ AttInv /\ LaneInv /\ DrainInv
  BY DEF IInv
<1>2. /\ UNCHANGED <<codec, bad, preflight, lane, manifest, pc, target, stop, call, att>>
      /\ UNCHANGED <<terminated, starts, faults, blind, gapped>>
  BY DEF vars, dump, disk, history
<1>3. TypeOK'
  BY <1>1, <1>2 DEF TypeOK
<1>4. AttInv'
  BY <1>1, <1>2 DEF AttInv, Attempting, PastEof, OnWire, target_reached
<1>5. Blocks' = Blocks
  BY <1>2, BlocksAre
<1>6. LaneInv'
  <2>1. CutInv'
    BY <1>1, <1>2 DEF LaneInv, CutInv
  <2>2. SettledInv'
    BY <1>1, <1>2, <1>5 DEF LaneInv, SettledInv, Settled
  <2> QED BY <1>1, <1>2, <1>3, <1>5, <2>1, <2>2, LaneFrame
<1>7. DrainInv'
  <2>1. AllSettled' <=> AllSettled
    BY <1>2, <1>5 DEF AllSettled, Settled
  <2>2. (Halted' <=> Halted) /\ (Drained(att)' <=> Drained(att))
    BY <1>2 DEF Halted, Drained, target_reached
  <2> QED BY <1>1, <1>2, <1>5, <2>1, <2>2 DEF DrainInv
<1> QED BY <1>3, <1>4, <1>6, <1>7 DEF IInv

LEMMA InvStep == IInv /\ [Next]_vars => IInv'
<1> SUFFICES ASSUME IInv, Next PROVE IInv'
  BY InvStutter
<1>1. TypeOK /\ AttInv /\ LaneInv /\ DrainInv /\ CutInv
  BY DEF IInv, LaneInv
<1>2. TypeOK'
  BY <1>1, TypeStep
<1> QED BY <1>1, <1>2, AttStep, LaneStep, DrainStep DEF IInv

LEMMA Invariance == Spec => []IInv
BY InitInv, InvStep, PTL DEF Spec

\* Every variable keeps its type, whatever the network, the operator and the
\* disk do (all of corpus/fetch/ and the committer of corpus/pipeline.rs).
THEOREM TypeCorrect == Spec => []TypeOK
<1>1. IInv => TypeOK
  BY DEF IInv
<1> QED BY <1>1, Invariance, PTL

\* A game that the lane is past, and one that there is no use in, adds nothing.
LEMMA PassedAdds ==
  ASSUME TypeOK, Grown(Blocks), NEW g \in Ids, g \notin IdsOf(Blocks),
         \E h \in IdsOf(Blocks) : g < h
  PROVE  Adds(g, Before(g)) = <<>>
<1> DEFINE B == Blocks
           n == Len(B)
           S == {j \in 1 .. n : B[j].game < g}
<1>1. B \in Seq(BlockType) /\ n \in Nat /\ DOMAIN B = 1 .. n /\ target \in Nat
  BY Basics, LaneTypes, LaneSets, LenProperties
<1>2. Before(g) = SubSeq(B, 1, Cardinality(S))
  BY <1>1 DEF Before
<1> HIDE DEF B, n
<1>3. PICK i \in 1 .. n : /\ Admits(g, FensBefore(B, i)) = <<>>
                          /\ \A j \in 1 .. n : B[j].game < g <=> j < i
  BY <1>1, PassedAddsNothing DEF B, n
<1>4. i - 1 \in 0 .. n /\ i - 1 + 1 = i /\ \A j \in 1 .. n : j < i <=> j \in 1 .. i - 1
  BY <1>1
<1>5. S = 1 .. i - 1
  <2>1. 1 .. i - 1 \subseteq 1 .. n
    BY <1>1
  <2> QED BY <1>3, <1>4, <2>1
<1>6. Cardinality(S) = i - 1
  <2>1. Cardinality(1 .. i - 1) = i - 1
    BY <1>4, FS_Interval
  <2> QED BY <1>5, <2>1
<1>7. /\ SubSeq(B, 1, i - 1) \in Seq(BlockType)
      /\ FensOf(SubSeq(B, 1, i - 1)) = FensBefore(B, i)
  BY <1>1, <1>4, CutSets DEF n
<1> QED BY <1>1, <1>2, <1>3, <1>6, <1>7, AddsIs

LEMMA SettledAdds ==
  ASSUME TypeOK, Grown(Blocks), NEW g \in Ids, g \notin IdsOf(Blocks), Settled(Blocks, g)
  PROVE  Count(Blocks) >= target \/ Adds(g, Before(g)) = <<>>
<1> DEFINE B == Blocks
           n == Len(B)
           S == {j \in 1 .. n : B[j].game < g}
<1>1. /\ B \in Seq(BlockType) /\ n \in Nat /\ DOMAIN B = 1 .. n /\ target \in Nat
      /\ IdsOf(B) = {B[j].game : j \in 1 .. n} /\ IdsOf(B) \subseteq Ids
  BY Basics, LaneTypes, LaneSets, LenProperties
<1>2. Before(g) = SubSeq(B, 1, Cardinality(S))
  BY <1>1 DEF Before
<1>3. g \in Nat /\ \A h \in IdsOf(B) : h \in Nat /\ h # g
  BY <1>1, IdsFinite
<1> HIDE DEF B, n
<1>4. CASE \E h \in IdsOf(B) : g <= h
  <2>1. \E h \in IdsOf(B) : g < h
    BY <1>3, <1>4
  <2> QED BY <2>1, PassedAdds DEF B
<1>5. CASE (~\E h \in IdsOf(B) : g <= h) /\ Admits(g, FensOf(B)) = <<>>
  <2>1. S = 1 .. n
    <3>1. ASSUME NEW j \in 1 .. n PROVE B[j].game < g
      <4>1. B[j].game \in IdsOf(B)
        BY <1>1
      <4>2. B[j].game \in Nat /\ ~(g <= B[j].game)
        BY <1>3, <1>5, <4>1
      <4> QED BY <1>3, <4>2
    <3> QED BY <3>1
  <2>2. Cardinality(S) = n
    <3>1. Cardinality(1 .. n) = n
      BY <1>1, FS_Interval
    <3> QED BY <2>1, <3>1
  <2>3. SubSeq(B, 1, n) = B
    <3>1. n \in 0 .. n
      BY <1>1
    <3>2. /\ SubSeq(B, 1, n) \in Seq(BlockType) /\ Len(SubSeq(B, 1, n)) = n
          /\ \A i \in 1 .. n : SubSeq(B, 1, n)[i] = B[i]
      BY <1>1, <3>1, CutSeq DEF n
    <3> QED BY <1>1, <3>2, SeqEqual DEF n
  <2> QED BY <1>1, <1>2, <1>5, <2>2, <2>3, AddsIs
<1> QED BY <1>4, <1>5 DEF Settled, B

\* Each block is what its whole game adds to the blocks before it, and a game
\* that was passed over adds nothing: however often the connection is resumed,
\* the dump read again from byte 0, the process killed, repeated and extended,
\* lane.bin is what one undisturbed fetch would have written (fetch/mod.rs).
THEOREM FetchedLaneCorrect == Spec => []FetchedLaneIsCanonical
<1>1. IInv => FetchedLaneIsCanonical
  <2> SUFFICES ASSUME IInv, pc \notin {"down", "extending", "resuming"}, ~blind, ~gapped
               PROVE  /\ \A i \in DOMAIN Blocks :
                           LET before == SubSeq(Blocks, 1, i - 1)
                           IN  /\ \A j \in 1 .. i - 1 : Blocks[j].game < Blocks[i].game
                               /\ Blocks[i].start = Count(before)
                               /\ Blocks[i].fens = Adds(Blocks[i].game, before)
                      /\ \A id \in Ids \ IdsOf(Blocks) :
                           (\E h \in IdsOf(Blocks) : id < h) => Adds(id, Before(id)) = <<>>
    BY DEF FetchedLaneIsCanonical
  <2>1. TypeOK /\ LaneInv
    BY DEF IInv
  <2> DEFINE B == Blocks
             n == Len(B)
  <2>2. /\ B \in Seq(BlockType) /\ n \in Nat /\ DOMAIN B = 1 .. n /\ Count(B) \in Nat
        /\ target \in Nat /\ \A i \in 1 .. n : B[i] \in BlockType
    BY <2>1, Basics, LaneTypes, LaneSets, LenProperties
  <2>3. Contiguous(B) /\ Grown(B) /\ Count(B) <= target
    BY <2>1 DEF LaneInv, GrownInv
  <2>4. B = <<>> \/ B[n].fens = All(B, n) \/ Count(B) >= target
    BY <2>1 DEF LaneInv, GrownInv, EndsWell
  <2> HIDE DEF B, n
  <2>5. ASSUME NEW i \in 1 .. n
        PROVE  /\ \A j \in 1 .. i - 1 : B[j].game < B[i].game
               /\ B[i].start = Count(SubSeq(B, 1, i - 1))
               /\ B[i].fens = Adds(B[i].game, SubSeq(B, 1, i - 1))
    <3>1. i - 1 \in 0 .. n /\ i - 1 + 1 = i /\ i \in Nat
      BY <2>2
    <3>2. \A j \in 1 .. i - 1 : B[j].game < B[i].game
      <4> SUFFICES ASSUME NEW j \in 1 .. i - 1 PROVE B[j].game < B[i].game
        OBVIOUS
      <4>1. j \in 1 .. n /\ j < i
        BY <2>2
      <4> QED BY <2>3, <4>1 DEF Grown, n
    <3>3. /\ B[i].start = Count(SubSeq(B, 1, i - 1)) /\ End(B[i]) <= Count(B)
      BY <2>2, <2>3, CountAbove DEF n
    <3>4. SubSeq(B, 1, i - 1) \in Seq(BlockType) /\ FensOf(SubSeq(B, 1, i - 1)) = FensBefore(B, i)
      BY <2>2, <3>1, CutSets DEF n
    <3>5. /\ B[i].game \in Ids /\ B[i].fens \in Seq(Fens) /\ B[i].start \in Nat
          /\ Len(B[i].fens) \in Nat
      BY <2>2, BlockFields
    <3>6. Prefix(B[i].fens, All(B, i))
      BY <2>3 DEF Grown, n
    <3>7. B[i].start + Len(B[i].fens) <= target
      <4>1. End(B[i]) = B[i].start + Len(B[i].fens)
        BY DEF End
      <4>2. End(B[i]) \in Nat
        BY <2>2, BlockFields
      <4>3. End(B[i]) <= target
        BY <2>2, <2>3, <3>3, <4>2
      <4> QED BY <4>1, <4>3
    <3>8. B[i].fens = All(B, i) \/ B[i].start + Len(B[i].fens) >= target
      <4>1. CASE i < n
        <5>1. i \in 1 .. n - 1
          BY <2>2, <4>1
        <5> QED BY <2>3, <5>1 DEF Grown, n
      <4>2. CASE i = n
        <5>1. B # <<>>
          BY <2>2, <4>2, EmptySeq DEF n
        <5>2. Count(B) = B[i].start + Len(B[i].fens)
          BY <2>2, <4>2, LaneSets DEF End, n
        <5> QED BY <2>4, <4>2, <5>1, <5>2
      <4> QED BY <2>2, <4>1, <4>2
    <3>9. B[i].fens = Adds(B[i].game, SubSeq(B, 1, i - 1))
      <4>1. \A f \in Seq(Fens) :
              /\ Prefix(f, Admits(B[i].game, FensOf(SubSeq(B, 1, i - 1))))
              /\ Count(SubSeq(B, 1, i - 1)) + Len(f) <= target
              /\ \/ f = Admits(B[i].game, FensOf(SubSeq(B, 1, i - 1)))
                 \/ Count(SubSeq(B, 1, i - 1)) + Len(f) >= target
              => Adds(B[i].game, SubSeq(B, 1, i - 1)) = f
        BY <2>2, <3>4, <3>5, AddsIs
      <4> QED BY <3>3, <3>4, <3>5, <3>6, <3>7, <3>8, <4>1 DEF All
    <3> QED BY <3>2, <3>3, <3>9
  <2>6. \A i \in DOMAIN B :
          LET before == SubSeq(B, 1, i - 1)
          IN  /\ \A j \in 1 .. i - 1 : B[j].game < B[i].game
              /\ B[i].start = Count(before)
              /\ B[i].fens = Adds(B[i].game, before)
    BY <2>2, <2>5
  <2>7. \A id \in Ids \ IdsOf(B) : (\E h \in IdsOf(B) : id < h) => Adds(id, Before(id)) = <<>>
    BY <2>1, <2>3, PassedAdds DEF B
  <2> QED BY <2>6, <2>7 DEF B
<1> QED BY <1>1, Invariance, PTL

\* A fetch that returns Eos has drained the dump or met its target, and one that
\* returns EarlyTarget has met it, however often the connection was lost on the
\* way (classify_attempt and Termination of fetch/mod.rs).
THEOREM DrainedCorrect == Spec => []DrainedMeansDrained
<1>1. IInv => DrainedMeansDrained
  <2> SUFFICES ASSUME IInv, pc = "returned", Blocks = lane, ~blind, ~gapped
               PROVE  /\ terminated = "EarlyTarget" => Count(lane) >= target
                      /\ terminated = "Eos" /\ bad = None =>
                           \/ Count(lane) >= target
                           \/ \A id \in Ids \ IdsOf(lane) : Adds(id, Before(id)) = <<>>
    BY DEF DrainedMeansDrained
  <2>1. TypeOK /\ Grown(Blocks)
    BY DEF IInv, LaneInv, GrownInv
  <2>2. /\ terminated = "Eos" /\ bad = None => AllSettled
        /\ terminated = "EarlyTarget" => Count(Blocks) >= target
    BY DEF IInv, DrainInv
  <2>3. AllSettled => \/ Count(Blocks) >= target
                      \/ \A id \in Ids \ IdsOf(Blocks) : Adds(id, Before(id)) = <<>>
    BY <2>1, SettledAdds DEF AllSettled
  <2> QED BY <2>2, <2>3
<1> QED BY <1>1, Invariance, PTL
=============================================================================
