-------------------------- MODULE MatchGame_proofs --------------------------
(***************************************************************************)
(* What a worker of a match does with its two engines. Nothing in a line   *)
(* an engine writes says which question it answers, so the proof is about  *)
(* the pipes. An engine nobody waits for has nothing but info lines in its *)
(* pipe (Rests); one that was asked has one answer there at most, and      *)
(* nothing after it (Replies); one that is to move has been sent the go of *)
(* this position and says nothing about any other (Plays). That is lost    *)
(* with the first answer that comes too late, and it does not matter,      *)
(* because the worker uses no engine again that was lost (LostInv), or     *)
(* that missed a deadline (MissedInv).                                     *)
(***************************************************************************)
EXTENDS MatchGame, FiniteSetTheorems, SequenceTheorems, TLAPS

Leaving == pc \in {"closing", "joining", "gone"}
Asked(e) == Awaiting /\ who = e
Moving(e) == Thinking /\ who = e
Tag == GoTag(pos, leg)
\* Lines that mean nothing to whoever reads them.
Dull(line) == line.kind \in {"info", "eof"} /\ line.score = NoScore
Quiets(s) == \A i \in 1 .. Len(s) : Dull(s[i])
\* One line of kind k at most, and nothing after it.
Final(s, k) ==
  \A i, j \in 1 .. Len(s) : s[i].kind = k /\ i < j => Dull(s[j])
\* It did not answer in time, so the worker will fail.
Dirty(e) == missed /\ e = "engine"
\* Engines whose pipes the worker still relies on.
Sound(e) == ~Leaving /\ e \notin lost /\ ~Dirty(e)

MissedInv == missed /\ ~Leaving => pc \in {"static", "newgame"} /\ who = "opponent"

\* An engine that is not waited for has nothing to say.
Rests(e) == inbox[e] = <<>> /\ Quiets(out[e])

\* One that is asked has one answer at most in its pipe, and that last; and none as
\* long as it has not read the question.
Replies(e) ==
  /\ \A i \in 1 .. Len(out[e]) : out[e][i].kind = Expected \/ Dull(out[e][i])
  /\ Final(out[e], Expected)
  /\ inbox[e] # <<>> =>
       /\ Quiets(out[e])
       /\ inbox[e][Len(inbox[e])].op = (IF pc = "uciok" THEN "uci" ELSE "isready")
       /\ \A i \in 1 .. Len(inbox[e]) - 1 : inbox[e][i].op \in {"setoption", "ucinewgame"}

\* One that is to move: the go is on its way to it, or it searches, or it has
\* answered; and all it says is about this go.
Plays(e) ==
  /\ inbox[e] # <<>> =>
       /\ inbox[e] = <<GoCmd(Tag, Last(pos.history))>>
       /\ Quiets(out[e]) /\ proc[e] # "thinking"
  /\ proc[e] = "thinking" =>
       /\ search[e].go = Tag
       /\ \A i \in 1 .. Len(out[e]) : out[e][i].kind # "bestmove"
  /\ \A i \in 1 .. Len(out[e]) :
       \/ Dull(out[e][i])
       \/ out[e][i].kind \in {"info", "bestmove"} /\ out[e][i].go = Tag
  /\ Final(out[e], "bestmove")
  /\ last_info[e].score # NoScore => last_info[e].go = Tag

Piped(e) ==
  Sound(e) =>
    /\ ~Asked(e) /\ ~Moving(e) => Rests(e)
    /\ Asked(e) => Replies(e)
    /\ Moving(e) => Plays(e)
PipeInv == \A e \in Players : Piped(e)
TurnInv == Thinking => who = PlayerOf(Mover, leg) /\ outcome = GoesOn

\* Only the one that is to move thinks, or will if it is alive.
Thinks(e) ==
  /\ proc[e] = "thinking" => Moving(e)
  /\ \A i \in 1 .. Len(inbox[e]) : inbox[e][i].op = "go" => Dead(e) \/ Moving(e)
ThinkInv == \A e \in Players : Thinks(e)

\* A game is played only with two engines of which neither was lost.
Mute(e) == \A i \in 1 .. Len(out[e]) : out[e][i].kind \notin {"uciok", "readyok"}
BothPlay ==
  /\ pc \in {"uciok", "static", "bestmove"} => lost = {}
  /\ pc = "options" /\ who = "opponent" /\ sc.spsa => "engine" \notin lost
  /\ pc = "options" /\ who = "engine" => sc.spsa
  /\ pc = "newgame" /\ who = "opponent" /\ "engine" \in lost => missed
LostInv == (\A e \in lost : Dead(e) /\ Mute(e)) /\ BothPlay
SeenInv ==
  /\ ~Leaving => seen = (IF lost = {} THEN 0 ELSE 1)
  /\ seen <= 2

Configurable(e) == proc[e] \in {"idle", "thinking"} /\ ~sc.clears
ConfigInv ==
  \A e \in Players : Configurable(e) =>
    /\ pc \in {"newgame", "bestmove", "paired"} => configured[e]
    /\ pc = "options" /\ who = "opponent" /\ e = "engine" => configured[e]
    /\ pc = "options" /\ who = e => configured[e] \/ inbox[e] = Options

RecordInv ==
  \A i \in 1 .. Len(record) :
    /\ record[i].answers = record[i].asked
    /\ record[i].score # NoScore => record[i].from = record[i].asked

ClockInv ==
  Thinking => \A c \in Colors :
    LET p == PlayerOf(c, leg)
    IN  /\ clock[c].increment = sc.tc[p].increment
        /\ clock[c].remaining = IF sc.wallclock THEN Budget(p, MovesBy(c)) ELSE sc.tc[p].initial
        /\ clock[c].remaining >= -HARNESS_OVERHEAD

\* The verdict: a position holds of the game what adjudication needs of its record.
RecordType ==
  [side : Colors, move : MoveType, score : ScoreType, from : Tags, answers : Tags,
   asked : Tags]
KeyOf(r, k) == IF k = 0 THEN 1 ELSE r[k].move.to
Side(r, c, k) == {i \in 1 .. k : r[i].side = c}
Rank(r, c, k) == Cardinality(Side(r, c, k))

ShowsKeys(p, r) ==
  /\ Len(p.history) = Len(r) + 1
  /\ \A k \in 0 .. Len(r) : p.history[k + 1] = KeyOf(r, k)
  /\ \A i \in 1 .. Len(r) : Graph[KeyOf(r, i)].side = Opposite(r[i].side)
ShowsCounters(p, r) ==
  /\ p.number = 1 + Rank(r, "black", Len(r))
  /\ p.halfmove \in 0 .. Len(r)
  /\ \A i \in 1 .. Len(r) : i > Len(r) - p.halfmove => ~r[i].move.zeroes
  /\ p.halfmove < Len(r) => r[Len(r) - p.halfmove].move.zeroes
\* The j-th score of a side is that of its j-th move.
ShowsScores(p, r) ==
  \A c \in Colors :
    /\ Len(p.scores[c]) = Rank(r, c, Len(r))
    /\ \A i \in Side(r, c, Len(r)) :
         Rank(r, c, i) \in 1 .. Len(p.scores[c]) /\ p.scores[c][Rank(r, c, i)] = r[i].score
    /\ \A j \in 1 .. Len(p.scores[c]) : \E i \in Side(r, c, Len(r)) : Rank(r, c, i) = j
Shows(p, r) == ShowsKeys(p, r) /\ ShowsCounters(p, r) /\ ShowsScores(p, r)
PosInv == Thinking => Shows(pos, record)

IInv ==
  /\ TypeOK /\ MissedInv /\ PipeInv /\ TurnInv /\ ThinkInv
  /\ LostInv /\ SeenInv /\ ConfigInv /\ RecordInv /\ ClockInv /\ PosInv

-----------------------------------------------------------------------------
\* Sequences.
LEMMA TailFacts ==
  ASSUME NEW S, NEW s \in Seq(S), s # <<>>
  PROVE  /\ Tail(s) \in Seq(S) /\ Len(Tail(s)) = Len(s) - 1 /\ Len(s) \in Nat \ {0}
         /\ Head(s) = s[1] /\ Head(s) \in S
         /\ \A i \in 1 .. Len(Tail(s)) : Tail(s)[i] = s[i + 1] /\ i + 1 \in 1 .. Len(s)
<1>1. Tail(s) \in Seq(S) /\ Len(Tail(s)) = Len(s) - 1 /\ Head(s) \in S
      /\ \A i \in 1 .. Len(Tail(s)) : Tail(s)[i] = s[i + 1]
  BY HeadTailProperties
<1>2. Len(s) \in Nat \ {0}
  BY EmptySeq, LenProperties
<1>3. Head(s) = s[1]
  OBVIOUS
<1> QED BY <1>1, <1>2, <1>3

LEMMA AppendFacts ==
  ASSUME NEW S, NEW s \in Seq(S), NEW x \in S
  PROVE  /\ Append(s, x) \in Seq(S) /\ Len(Append(s, x)) = Len(s) + 1 /\ Len(s) \in Nat
         /\ \A i \in 1 .. Len(s) : Append(s, x)[i] = s[i]
         /\ Append(s, x)[Len(s) + 1] = x
  BY AppendProperties, LenProperties

LEMMA QuietTail ==
  ASSUME NEW s \in Seq(LineType), s # <<>>
  PROVE  /\ Quiets(s) => Quiets(Tail(s))
         /\ \A k : Final(s, k) => Final(Tail(s), k)
         /\ \A k : Final(s, k) /\ Head(s).kind = k => Quiets(Tail(s))
<1>1. /\ Len(Tail(s)) = Len(s) - 1 /\ Len(s) \in Nat \ {0} /\ Head(s) = s[1]
      /\ \A i \in 1 .. Len(Tail(s)) : Tail(s)[i] = s[i + 1] /\ i + 1 \in 1 .. Len(s)
  BY TailFacts
<1>2. Quiets(s) => Quiets(Tail(s))
  BY <1>1 DEF Quiets
<1>3. ASSUME NEW k, Final(s, k) PROVE Final(Tail(s), k)
  <2> SUFFICES ASSUME NEW i \in 1 .. Len(Tail(s)), NEW j \in 1 .. Len(Tail(s)),
                      Tail(s)[i].kind = k, i < j
               PROVE  Dull(Tail(s)[j])
    BY DEF Final
  <2>1. i + 1 < j + 1
    OBVIOUS
  <2> QED BY <1>1, <1>3, <2>1 DEF Final
<1>4. ASSUME NEW k, Final(s, k), Head(s).kind = k PROVE Quiets(Tail(s))
  <2> SUFFICES ASSUME NEW i \in 1 .. Len(Tail(s)) PROVE Dull(Tail(s)[i])
    BY DEF Quiets
  <2>1. 1 < i + 1 /\ 1 \in 1 .. Len(s)
    BY <1>1
  <2> QED BY <1>1, <1>4, <2>1 DEF Final
<1> QED BY <1>2, <1>3, <1>4

LEMMA QuietAppend ==
  ASSUME NEW s \in Seq(LineType), NEW x \in LineType
  PROVE  /\ Dull(x) /\ Quiets(s) => Quiets(Append(s, x))
         /\ \A k : Dull(x) /\ Final(s, k) => Final(Append(s, x), k)
         /\ \A k : (\A i \in 1 .. Len(s) : s[i].kind # k) => Final(Append(s, x), k)
<1>1. /\ Len(Append(s, x)) = Len(s) + 1 /\ Len(s) \in Nat
      /\ \A i \in 1 .. Len(s) : Append(s, x)[i] = s[i]
      /\ Append(s, x)[Len(s) + 1] = x
  BY AppendFacts
<1>2. \A i \in 1 .. Len(Append(s, x)) : i \in 1 .. Len(s) \/ i = Len(s) + 1
  BY <1>1
<1>3. Dull(x) /\ Quiets(s) => Quiets(Append(s, x))
  BY <1>1, <1>2 DEF Quiets
<1>4. ASSUME NEW k, Dull(x), Final(s, k) PROVE Final(Append(s, x), k)
  <2> SUFFICES ASSUME NEW i \in 1 .. Len(Append(s, x)), NEW j \in 1 .. Len(Append(s, x)),
                      Append(s, x)[i].kind = k, i < j
               PROVE  Dull(Append(s, x)[j])
    BY DEF Final
  <2>1. CASE j = Len(s) + 1
    BY <1>1, <1>4, <2>1
  <2>2. CASE j \in 1 .. Len(s)
    <3>1. i \in 1 .. Len(s)
      BY <1>1, <2>2
    <3> QED BY <1>1, <1>4, <2>2, <3>1 DEF Final
  <2> QED BY <1>2, <2>1, <2>2
<1>5. ASSUME NEW k, \A i \in 1 .. Len(s) : s[i].kind # k PROVE Final(Append(s, x), k)
  <2> SUFFICES ASSUME NEW i \in 1 .. Len(Append(s, x)), NEW j \in 1 .. Len(Append(s, x)),
                      Append(s, x)[i].kind = k, i < j
               PROVE  FALSE
    BY DEF Final
  <2>1. i \in 1 .. Len(s)
    BY <1>1, <1>2
  <2> QED BY <1>1, <1>5, <2>1
<1> QED BY <1>3, <1>4, <1>5

-----------------------------------------------------------------------------
\* Lines and commands.
LEMMA Lines ==
  /\ NoScore \in ScoreType /\ NoGo \in Tags
  /\ \A k \in {"uciok", "readyok", "info", "bestmove", "eof"} :
       Line(k) \in LineType /\ Line(k).kind = k /\ Line(k).score = NoScore
  /\ \A go \in Tags, score \in ScoreType :
       Info(go, score) \in LineType /\ Info(go, score).kind = "info"
         /\ Info(go, score).score = score /\ Info(go, score).go = go
  /\ \A go \in Tags, move \in Nat :
       Bestmove(go, move) \in LineType /\ Bestmove(go, move).kind = "bestmove"
         /\ Bestmove(go, move).score = NoScore /\ Bestmove(go, move).go = go
<1>1. NoScore \in ScoreType /\ NoGo \in Tags
  BY DEF NoScore, ScoreType, Tags
<1>2. ASSUME NEW k \in {"uciok", "readyok", "info", "bestmove", "eof"}
      PROVE  Line(k) \in LineType /\ Line(k).kind = k /\ Line(k).score = NoScore
  BY <1>1 DEF Line, LineType, NoMove
<1>3. ASSUME NEW go \in Tags, NEW score \in ScoreType
      PROVE  /\ Info(go, score) \in LineType /\ Info(go, score).kind = "info"
             /\ Info(go, score).score = score /\ Info(go, score).go = go
  BY <1>1 DEF Info, Line, LineType, NoMove
<1>4. ASSUME NEW go \in Tags, NEW move \in Nat
      PROVE  /\ Bestmove(go, move) \in LineType /\ Bestmove(go, move).kind = "bestmove"
             /\ Bestmove(go, move).score = NoScore /\ Bestmove(go, move).go = go
  BY <1>1 DEF Bestmove, Line, LineType, NoMove
<1> QED BY <1>1, <1>2, <1>3, <1>4

Asking(stage, ops) ==
  \/ stage = "uciok" /\ ops = <<Cmd("uci")>>
  \/ stage = "static" /\ ops = <<Cmd("isready")>>
  \/ stage = "options" /\ ops = Options
  \/ stage = "newgame" /\ ops = NewGame
LEMMA Questions ==
  ASSUME NEW stage, NEW ops, Asking(stage, ops)
  PROVE  /\ ops \in Seq(CommandType) /\ Len(ops) \in Nat \ {0}
         /\ ops[Len(ops)].op = (IF stage = "uciok" THEN "uci" ELSE "isready")
         /\ \A i \in 1 .. Len(ops) - 1 : ops[i].op \in {"setoption", "ucinewgame"}
         /\ \A i \in 1 .. Len(ops) : ops[i].op # "go"
         /\ stage \in {"uciok", "static", "options", "newgame"}
<1>1. \A op \in {"uci", "isready", "setoption", "ucinewgame"} :
        Cmd(op) \in CommandType /\ Cmd(op).op = op
  BY Lines DEF Cmd, CommandType
<1>2. ASSUME NEW op \in {"uci", "isready"}, ops = <<Cmd(op)>>
      PROVE  /\ ops \in Seq(CommandType) /\ Len(ops) = 1 /\ ops[1].op = op
  BY <1>1, <1>2
<1>3. ASSUME NEW op \in {"setoption", "ucinewgame"}, ops = <<Cmd(op), Cmd("isready")>>
      PROVE  /\ ops \in Seq(CommandType) /\ Len(ops) = 2
             /\ ops[1].op = op /\ ops[2].op = "isready"
  BY <1>1, <1>3
<1>4. CASE stage = "uciok" /\ ops = <<Cmd("uci")>>
  BY <1>2, <1>4
<1>5. CASE stage = "static" /\ ops = <<Cmd("isready")>>
  BY <1>2, <1>5
<1>6. CASE stage = "options" /\ ops = Options
  BY <1>3, <1>6 DEF Options
<1>7. CASE stage = "newgame" /\ ops = NewGame
  BY <1>3, <1>7 DEF NewGame
<1> QED BY <1>4, <1>5, <1>6, <1>7 DEF Asking

LEMMA OtherCommands ==
  /\ <<Cmd("quit")>> \in Seq(CommandType) /\ <<Cmd("quit")>> # <<>>
  /\ Len(<<Cmd("quit")>>) = 1 /\ <<Cmd("quit")>>[1].op = "quit"
  /\ \A go \in Tags, node \in DOMAIN Graph :
       /\ <<GoCmd(go, node)>> \in Seq(CommandType) /\ Len(<<GoCmd(go, node)>>) = 1
       /\ <<GoCmd(go, node)>>[1] = GoCmd(go, node)
<1>1. Cmd("quit") \in CommandType /\ Cmd("quit").op = "quit"
  BY Lines DEF Cmd, CommandType
<1>2. \A go \in Tags, node \in DOMAIN Graph : GoCmd(go, node) \in CommandType
  BY DEF GoCmd, CommandType
<1> QED BY <1>1, <1>2

LEMMA SentType ==
  ASSUME EngineTypeOK, NEW e \in Players, NEW ops \in Seq(CommandType)
  PROVE  /\ Sent(e, ops) \in [Players -> Seq(CommandType)]
         /\ \A p \in Players : p # e \/ Dead(e) => Sent(e, ops)[p] = inbox[p]
         /\ inbox[e] = <<>> /\ ~Dead(e) => Sent(e, ops)[e] = ops
<1>1. inbox[e] \o ops \in Seq(CommandType)
  BY DEF EngineTypeOK
<1>2. inbox[e] = <<>> => inbox[e] \o ops = ops
  OBVIOUS
<1> QED BY <1>1, <1>2 DEF EngineTypeOK, Sent

-----------------------------------------------------------------------------
\* Positions.
LEMMA NodeType ==
  ASSUME NEW p \in PositionType
  PROVE  /\ Last(p.history) \in DOMAIN Graph /\ side_to_move(p) \in Colors
         /\ Node(p).moves \subseteq MoveType /\ Len(p.history) \in Nat \ {0}
<1>1. p.history \in Seq(DOMAIN Graph) /\ p.history # <<>>
  BY DEF PositionType
<1>2. Len(p.history) \in Nat \ {0}
  BY <1>1, EmptySeq, LenProperties
<1>3. Last(p.history) \in DOMAIN Graph
  BY <1>1, <1>2, ElementOfSeq DEF Last
<1> QED BY <1>2, <1>3, GraphAssumption DEF side_to_move, Node, MoveType

LEMMA StartType == StartPosition \in PositionType
<1>1. <<1>> \in Seq(DOMAIN Graph) \ {<<>>}
  BY GraphAssumption
<1>2. [c \in Colors |-> <<>>] \in [Colors -> Seq(ScoreType)]
  OBVIOUS
<1> QED BY <1>1, <1>2 DEF StartPosition, PositionType

LEMMA MoveToType ==
  ASSUME NEW p \in PositionType, NEW m \in MoveType, NEW s \in ScoreType
  PROVE  MoveTo(p, m, s) \in PositionType
<1>1. p.history \in Seq(DOMAIN Graph) /\ m.to \in DOMAIN Graph /\ side_to_move(p) \in Colors
      /\ p.scores \in [Colors -> Seq(ScoreType)] /\ p.halfmove \in Nat /\ p.number \in Nat
  BY NodeType DEF PositionType, MoveType
<1>2. Append(p.history, m.to) \in Seq(DOMAIN Graph) /\ Append(p.history, m.to) # <<>>
  BY <1>1, AppendProperties
<1>3. [p.scores EXCEPT ![side_to_move(p)] = Append(@, s)] \in [Colors -> Seq(ScoreType)]
  BY <1>1
<1>4. (IF m.zeroes THEN 0 ELSE p.halfmove + 1) \in Nat
      /\ p.number + (IF side_to_move(p) = "black" THEN 1 ELSE 0) \in Nat
  BY <1>1
<1> QED BY <1>2, <1>3, <1>4 DEF MoveTo, PositionType

LEMMA OutcomeTypes ==
  /\ GoesOn \in Outcomes
  /\ \A c \in Colors, k \in {"time", "illegal"} : Over(k, c) \in Outcomes
  /\ \A p \in PositionType, c \in Colors : Verdict(p, c) \in Outcomes
<1>1. \A c \in Colors : Opposite(c) \in Colors /\ "white" \in Colors
  BY DEF Opposite, Colors
<1>2. \A c \in Colors, k \in {"none", "checkmate", "stalemate", "fifty", "threefold",
          "insufficient", "resign", "draw", "max_plies", "time", "illegal"} :
        Over(k, c) \in Outcomes
  BY DEF Over, Outcomes
<1>3. \A p \in PositionType : detect_native_game_over(p) \in Outcomes
  BY <1>1, <1>2, NodeType DEF detect_native_game_over, GoesOn
<1>4. GoesOn \in Outcomes /\ \A c \in Colors, k \in {"time", "illegal"} : Over(k, c) \in Outcomes
  <2>1. "white" \in Colors
    BY DEF Colors
  <2>2. Over("none", "white") \in Outcomes
    BY <1>2, <2>1
  <2>3. \A c \in Colors, k \in {"time", "illegal"} : Over(k, c) \in Outcomes
    BY <1>2
  <2> QED BY <2>2, <2>3 DEF GoesOn
<1>5. ASSUME NEW p \in PositionType, NEW c \in Colors PROVE Verdict(p, c) \in Outcomes
  <2>1. /\ detect_native_game_over(p) \in Outcomes /\ GoesOn \in Outcomes
        /\ Over("resign", c) \in Outcomes /\ Over("draw", "white") \in Outcomes
        /\ Over("max_plies", "white") \in Outcomes
    BY <1>1, <1>2, <1>3, <1>4
  <2> QED BY <2>1 DEF Verdict
<1> QED BY <1>4, <1>5

\* The score of a game is that of its winner, from clawfish's side.
LEMMA ScoreIsWinners ==
  ASSUME NEW o \in Outcomes, leg \in {0, 1}
  PROVE  /\ compute_clawfish_score(o, leg = 0) \in 0 .. 2
         /\ Winner(o) \in Players \cup {"draw"}
         /\ compute_clawfish_score(o, leg = 0) =
              Pool!compute_clawfish_score(
                IF Winner(o) = "draw" THEN "draw" ELSE Pool!ColorOf(Winner(o), leg), leg = 0)
<1>1. o.color \in Colors
  BY DEF Outcomes
<1>2. white_score(o) \in 0 .. 2
  BY <1>1 DEF white_score
<1>3. \A c \in Colors : /\ PlayerOf(c, leg) \in Players
                        /\ Pool!ColorOf(PlayerOf(c, leg), leg) = c
                        /\ Pool!ColorOf(Rival(PlayerOf(c, leg)), leg) # c
                        /\ Pool!ColorOf(Rival(PlayerOf(c, leg)), leg) \in Colors
                        /\ Rival(PlayerOf(c, leg)) \in Players
  BY DEF PlayerOf, Players, Pool!ColorOf, Colors, Rival
<1>4. CASE o.kind = "checkmate"
  <2>1. Winner(o) = PlayerOf(o.color, leg)
    BY <1>4 DEF Winner
  <2>2. white_score(o) = IF o.color = "white" THEN 2 ELSE 0
    BY <1>4 DEF white_score
  <2> QED BY <1>1, <1>3, <2>1, <2>2 DEF compute_clawfish_score,
        Pool!compute_clawfish_score, Pool!WhiteScore, Colors, Players
<1>5. CASE o.kind \in {"time", "illegal", "resign"}
  <2>1. Winner(o) = Rival(PlayerOf(o.color, leg))
    BY <1>5 DEF Winner
  <2>2. white_score(o) = IF o.color = "white" THEN 0 ELSE 2
    BY <1>5 DEF white_score
  <2> QED BY <1>1, <1>3, <2>1, <2>2 DEF compute_clawfish_score,
        Pool!compute_clawfish_score, Pool!WhiteScore, Colors, Players
<1>6. CASE o.kind \notin {"checkmate", "time", "illegal", "resign"}
  <2>1. Winner(o) = "draw" /\ white_score(o) = 1
    BY <1>6 DEF Winner, white_score
  <2> QED BY <2>1 DEF compute_clawfish_score, Pool!compute_clawfish_score, Pool!WhiteScore
<1> QED BY <1>4, <1>5, <1>6

LEMMA TagType ==
  ASSUME WorkerTypeOK, NEW p \in PositionType, NEW l \in {0, 1}
  PROVE  GoTag(p, l) \in Tags
  BY NodeType DEF GoTag, Tags, WorkerTypeOK

-----------------------------------------------------------------------------
\* Types.
LEMMA ScenarioFacts ==
  ASSUME WorkerTypeOK
  PROVE  /\ sc.pairs \in 0 .. MaxPairs /\ sc.ticks \in Nat /\ sc.nap \in Nat
         /\ \A p \in Players : sc.tc[p].initial \in Nat /\ sc.tc[p].increment \in Nat
         /\ \A p \in Players : sc.scores[p] \subseteq ScoreType
         /\ sc.spsa \in BOOLEAN /\ sc.wallclock \in BOOLEAN /\ MaxPairs \in Nat
         /\ MaxElapsed \in Nat /\ WATCHDOG \in Nat /\ HARNESS_OVERHEAD \in Nat
<1>1. sc \in Scenarios
  BY DEF WorkerTypeOK
<1>2. IsScenario(sc)
  BY <1>1, MatchGameAssumption
<1> QED BY <1>2, MatchGameAssumption DEF IsScenario

\* What a wait that ends, or a game that does, may change.
WaitTypeOK ==
  /\ pc \in Stages /\ who \in Players /\ missed \in BOOLEAN /\ leg \in {0, 1}
  /\ reports \in Seq([kind : {"game", "pair", "failure"}, worker : {0}, game : Nat,
                      score : 0 .. 2])
  /\ won \in [1 .. 2 * MaxPairs -> Players \cup {"draw", "none"}] /\ seen \in Nat
  /\ inbox \in [Players -> Seq(CommandType)]
  /\ pos \in PositionType /\ clock \in [Colors -> [remaining : Int, increment : Nat]]
  /\ elapsed \in 0 .. MaxElapsed /\ asleep \in Nat
  /\ last_info \in [Players -> [score : ScoreType, go : Tags]]
  /\ record \in Seq([side : Colors, move : MoveType, score : ScoreType, from : Tags,
                     answers : Tags, asked : Tags])
  /\ spent \in [Players -> Nat] /\ outcome \in Outcomes
  /\ used \in [ticks : Nat, naps : Nat, chatter : Nat]

LEMMA WaitTypes == TypeOK => WaitTypeOK
  BY DEF TypeOK, WorkerTypeOK, GameTypeOK, EngineTypeOK, WaitTypeOK

LEMMA PlayerTypes ==
  /\ \A c \in Colors, l \in {0, 1} : PlayerOf(c, l) \in Players
  /\ \A p \in Players : Rival(p) \in Players
  /\ "engine" \in Players /\ "opponent" \in Players
  BY DEF PlayerOf, Players, Rival

LEMMA AskType ==
  ASSUME TypeOK, NEW stage \in Stages, NEW e \in Players, NEW ops \in Seq(CommandType),
         Ask(stage, e, ops)
  PROVE  pc' \in Stages /\ who' \in Players /\ inbox' \in [Players -> Seq(CommandType)]
  BY SentType DEF Ask, TypeOK

LEMMA ShutdownType ==
  ASSUME TypeOK, BeginShutdown
  PROVE  pc' \in Stages /\ who' \in Players /\ inbox' \in [Players -> Seq(CommandType)]
<1>1. "closing" \in Stages
  BY DEF Stages
<1> QED BY <1>1, AskType, OtherCommands, PlayerTypes DEF BeginShutdown

LEMMA QuestionType ==
  ASSUME TypeOK, NEW stage, NEW ops, NEW e \in Players, Asking(stage, ops),
         Ask(stage, e, ops)
  PROVE  pc' \in Stages /\ who' \in Players /\ inbox' \in [Players -> Seq(CommandType)]
<1>1. stage \in Stages
  BY Questions DEF Stages
<1> QED BY <1>1, AskType, Questions

LEMMA AskMoveType ==
  ASSUME TypeOK, NEW p \in PositionType, NEW l \in {0, 1}, AskMove(p, l)
  PROVE  /\ pc' \in Stages /\ who' \in Players /\ inbox' \in [Players -> Seq(CommandType)]
         /\ last_info' \in [Players -> [score : ScoreType, go : Tags]]
         /\ elapsed' \in 0 .. MaxElapsed /\ asleep' \in Nat
<1>1. PICK player \in Players :
        /\ Ask("bestmove", player, <<GoCmd(GoTag(p, l), Last(p.history))>>)
        /\ last_info' = [last_info EXCEPT ![player] = NoInfo] /\ elapsed' = 0 /\ asleep' = 0
  BY NodeType, PlayerTypes DEF AskMove, ForgetInfo
<1>2. <<GoCmd(GoTag(p, l), Last(p.history))>> \in Seq(CommandType)
  BY OtherCommands, NodeType, TagType DEF TypeOK
<1>3. "bestmove" \in Stages
  BY DEF Stages
<1>4. NoInfo \in [score : ScoreType, go : Tags]
  BY Lines DEF NoInfo
<1>5. last_info' \in [Players -> [score : ScoreType, go : Tags]]
  BY <1>1, <1>4 DEF TypeOK, GameTypeOK
<1>6. 0 \in 0 .. MaxElapsed
  BY ScenarioFacts DEF TypeOK
<1> QED BY <1>1, <1>2, <1>3, <1>5, <1>6, AskType

LEMMA ClocksType ==
  ASSUME WorkerTypeOK, NEW l \in {0, 1}
  PROVE  Clocks(l) \in [Colors -> [remaining : Int, increment : Nat]]
  BY ScenarioFacts, PlayerTypes DEF Clocks, StartClock

LEMMA StartGameType ==
  ASSUME TypeOK, StartGame, UNCHANGED seen
  PROVE  WaitTypeOK'
<1>1. leg \in {0, 1}
  BY DEF TypeOK, WorkerTypeOK
<1>2. AskMove(StartPosition, leg)
  BY DEF StartGame
<1>3. /\ pc' \in Stages /\ who' \in Players /\ inbox' \in [Players -> Seq(CommandType)]
      /\ last_info' \in [Players -> [score : ScoreType, go : Tags]]
      /\ elapsed' \in 0 .. MaxElapsed /\ asleep' \in Nat
  BY <1>1, <1>2, StartType, AskMoveType
<1>4. clock' \in [Colors -> [remaining : Int, increment : Nat]]
  BY <1>1, ClocksType DEF StartGame, TypeOK
<1>5. pos' \in PositionType
  BY StartType DEF StartGame
<1>6. record' \in Seq([side : Colors, move : MoveType, score : ScoreType, from : Tags,
                       answers : Tags, asked : Tags]) /\ spent' \in [Players -> Nat]
      /\ outcome' \in Outcomes
  BY OutcomeTypes DEF StartGame
<1>7. used' \in [ticks : Nat, naps : Nat, chatter : Nat]
  BY DEF StartGame, TypeOK, GameTypeOK
<1>8. /\ reports' = reports /\ leg' = leg /\ missed' = missed /\ won' = won /\ seen' = seen
  BY DEF StartGame
<1> QED BY <1>3, <1>4, <1>5, <1>6, <1>7, <1>8, WaitTypes DEF WaitTypeOK

LEMMA ReportTypes ==
  ASSUME TypeOK, NEW score \in 0 .. 2
  PROVE  /\ Append(reports, Failure) \in Seq([kind : {"game", "pair", "failure"}, worker : {0},
                                              game : Nat, score : 0 .. 2])
         /\ Append(reports, PairComplete) \in Seq([kind : {"game", "pair", "failure"},
                                              worker : {0}, game : Nat, score : 0 .. 2])
         /\ Append(reports, GameComplete(score)) \in Seq([kind : {"game", "pair", "failure"},
                                              worker : {0}, game : Nat, score : 0 .. 2])
         /\ game_index \in Nat
<1>1. game_index \in Nat
  <2>1. pair \in Nat /\ leg \in Nat
    BY ScenarioFacts DEF TypeOK, WorkerTypeOK, Pairs
  <2> QED BY <2>1 DEF game_index
<1> DEFINE R == [kind : {"game", "pair", "failure"}, worker : {0}, game : Nat, score : 0 .. 2]
<1>2. Failure \in R /\ PairComplete \in R /\ GameComplete(score) \in R
  BY <1>1 DEF Failure, PairComplete, GameComplete
<1>3. reports \in Seq(R)
  BY DEF TypeOK, WorkerTypeOK
<1> HIDE DEF R
<1>4. Append(reports, Failure) \in Seq(R) /\ Append(reports, PairComplete) \in Seq(R)
      /\ Append(reports, GameComplete(score)) \in Seq(R)
  BY <1>2, <1>3, AppendProperties
<1> QED BY <1>1, <1>4 DEF R

LEMMA FailType ==
  ASSUME TypeOK, Fail
  PROVE  WaitTypeOK'
<1>1. pc' \in Stages /\ who' \in Players /\ inbox' \in [Players -> Seq(CommandType)]
  BY ShutdownType DEF Fail
<1>2. reports' \in Seq([kind : {"game", "pair", "failure"}, worker : {0}, game : Nat,
                        score : 0 .. 2])
  <2>1. 0 \in 0 .. 2
    OBVIOUS
  <2> QED BY <2>1, ReportTypes DEF Fail, Say
<1>3. seen' \in Nat
  <2>1. seen \in Nat
    BY DEF TypeOK, WorkerTypeOK
  <2> QED BY <2>1 DEF Fail
<1>4. UNCHANGED <<gameVars, used, leg, missed, outcome, won>>
  BY DEF Fail
<1> QED BY <1>1, <1>2, <1>3, <1>4, WaitTypes DEF WaitTypeOK, gameVars

LEMMA KeepType ==
  ASSUME TypeOK, Keep, pc' \in Stages, who' \in Players, missed' \in BOOLEAN,
         inbox' \in [Players -> Seq(CommandType)]
  PROVE  WaitTypeOK'
  BY WaitTypes DEF Keep, WaitTypeOK, gameVars

LEMMA InTurnType ==
  ASSUME TypeOK, NEW stage, NEW ops, NEW ok \in BOOLEAN, Asking(stage, ops),
         InTurn(stage, ops, ok)
  PROVE  WaitTypeOK'
<1>1. Ask(stage, "opponent", ops) /\ missed' = ~ok /\ Keep
  BY DEF InTurn
<1>2. pc' \in Stages /\ who' \in Players /\ inbox' \in [Players -> Seq(CommandType)]
  BY <1>1, QuestionType, PlayerTypes
<1> QED BY <1>1, <1>2, KeepType

LEMMA AnsweredType ==
  ASSUME TypeOK, Answered
  PROVE  WaitTypeOK'
<1> USE PlayerTypes
<1>0. missed \in BOOLEAN
  BY DEF TypeOK, WorkerTypeOK
<1>1. CASE Ask("uciok", "opponent", <<Cmd("uci")>>) /\ Keep /\ UNCHANGED missed
  <2>1. Asking("uciok", <<Cmd("uci")>>)
    BY DEF Asking
  <2> QED BY <1>0, <1>1, <2>1, QuestionType, KeepType
<1>2. CASE Ask("static", "engine", <<Cmd("isready")>>) /\ Keep /\ UNCHANGED missed
  <2>1. Asking("static", <<Cmd("isready")>>)
    BY DEF Asking
  <2> QED BY <1>0, <1>2, <2>1, QuestionType, KeepType
<1>3. CASE InTurn("static", <<Cmd("isready")>>, TRUE)
  BY <1>3, InTurnType DEF Asking
<1>4. CASE pc' = "ready" /\ Keep /\ UNCHANGED <<who, inbox, missed>>
  <2>1. "ready" \in Stages
    BY DEF Stages
  <2>2. who' \in Players /\ inbox' \in [Players -> Seq(CommandType)]
    BY <1>4, WaitTypes DEF WaitTypeOK
  <2> QED BY <1>0, <1>4, <2>1, <2>2, KeepType
<1>5. CASE Ask("options", "opponent", Options) /\ Keep /\ UNCHANGED missed
  <2>1. Asking("options", Options)
    BY DEF Asking
  <2> QED BY <1>0, <1>5, <2>1, QuestionType, KeepType
<1>6. CASE Ask("newgame", "engine", NewGame) /\ Keep /\ UNCHANGED missed
  <2>1. Asking("newgame", NewGame)
    BY DEF Asking
  <2> QED BY <1>0, <1>6, <2>1, QuestionType, KeepType
<1>7. CASE InTurn("newgame", NewGame, TRUE)
  BY <1>7, InTurnType DEF Asking
<1>8. CASE StartGame /\ UNCHANGED seen
  BY <1>8, StartGameType
<1>9. CASE Fail
  BY <1>9, FailType
<1> QED BY <1>1, <1>2, <1>3, <1>4, <1>5, <1>6, <1>7, <1>8, <1>9 DEF Answered

LEMMA UnansweredType ==
  ASSUME TypeOK, Unanswered
  PROVE  WaitTypeOK'
<1>1. CASE InTurn("static", <<Cmd("isready")>>, FALSE)
  BY <1>1, InTurnType DEF Asking
<1>2. CASE InTurn("newgame", NewGame, FALSE)
  BY <1>2, InTurnType DEF Asking
<1>3. CASE Fail
  BY <1>3, FailType
<1> QED BY <1>1, <1>2, <1>3 DEF Unanswered

LEMMA EndType ==
  ASSUME TypeOK, NEW o \in Outcomes, End(o)
  PROVE  /\ pc' \in Stages /\ who' \in Players /\ inbox' \in [Players -> Seq(CommandType)]
         /\ reports' \in Seq([kind : {"game", "pair", "failure"}, worker : {0}, game : Nat,
                              score : 0 .. 2])
         /\ won' \in [1 .. 2 * MaxPairs -> Players \cup {"draw", "none"}]
         /\ outcome' \in Outcomes /\ leg' \in {0, 1}
<1>1. leg \in {0, 1}
  BY DEF TypeOK, WorkerTypeOK
<1>2. compute_clawfish_score(o, leg = 0) \in 0 .. 2 /\ Winner(o) \in Players \cup {"draw"}
  BY <1>1, ScoreIsWinners
<1>3. reports' \in Seq([kind : {"game", "pair", "failure"}, worker : {0}, game : Nat,
                        score : 0 .. 2])
  BY <1>2, ReportTypes DEF End, Say
<1>4. won' \in [1 .. 2 * MaxPairs -> Players \cup {"draw", "none"}]
  BY <1>2 DEF End, TypeOK, WorkerTypeOK
<1>5. CASE Ask("newgame", "engine", NewGame)
  <2>1. Asking("newgame", NewGame)
    BY DEF Asking
  <2> QED BY <1>3, <1>4, <1>5, <2>1, QuestionType, PlayerTypes DEF End
<1>6. CASE pc' = "paired" /\ UNCHANGED <<who, inbox>>
  <2>1. "paired" \in Stages
    BY DEF Stages
  <2> QED BY <1>3, <1>4, <1>6, <2>1, WaitTypes DEF End, WaitTypeOK
<1> QED BY <1>5, <1>6 DEF End

\* A line is read, or written.
LEMMA ReceiveType ==
  ASSUME EngineTypeOK, NEW e \in Players, out[e] # <<>>
  PROVE  [out EXCEPT ![e] = Tail(@)] \in [Players -> Seq(LineType)]
         /\ Head(out[e]) \in LineType
<1>1. out[e] \in Seq(LineType)
  BY DEF EngineTypeOK
<1>2. Tail(out[e]) \in Seq(LineType) /\ Head(out[e]) \in LineType
  BY <1>1, TailFacts
<1> QED BY <1>2 DEF EngineTypeOK
LEMMA WriteType ==
  ASSUME EngineTypeOK, NEW e \in Players, NEW line \in LineType
  PROVE  [out EXCEPT ![e] = Append(@, line)] \in [Players -> Seq(LineType)]
<1>1. Append(out[e], line) \in Seq(LineType)
  BY AppendProperties DEF EngineTypeOK
<1> QED BY <1>1 DEF EngineTypeOK

LEMMA KillType ==
  ASSUME TypeOK, KillEngine
  PROVE  /\ out' \in [Players -> Seq(LineType)]
         /\ proc' \in [Players -> {"idle", "thinking", "hung", "babbling", "dead"}]
         /\ \A e \in Players : proc'[e] = "thinking" => proc[e] = "thinking"
<1>1. who \in Players /\ proc \in [Players -> {"idle", "thinking", "hung", "babbling", "dead"}]
  BY DEF TypeOK, WorkerTypeOK, EngineTypeOK
<1>2. Line("eof") \in LineType
  BY Lines
<1>3. out' \in [Players -> Seq(LineType)]
  BY <1>1, <1>2, WriteType DEF KillEngine, Ended, TypeOK, EngineTypeOK
<1> QED BY <1>1, <1>3 DEF KillEngine

LEMMA TypeOfWait ==
  ASSUME TypeOK, WaitTypeOK',
         UNCHANGED <<sc, dispatched, cmds, open, pair, faulty, lost>>, EngineTypeOK'
  PROVE  TypeOK'
<1>1. WorkerTypeOK'
  BY DEF WaitTypeOK, TypeOK, WorkerTypeOK
<1>2. GameTypeOK'
  BY DEF WaitTypeOK, TypeOK, GameTypeOK
<1> QED BY <1>1, <1>2 DEF TypeOK

LEMMA ReadType ==
  ASSUME TypeOK, NEW e \in Players, Read(e)
  PROVE  EngineTypeOK'
<1> DEFINE cmd == Head(inbox[e])
<1>1. inbox[e] \in Seq(CommandType) /\ inbox[e] # <<>> /\ EngineTypeOK
  BY DEF TypeOK, EngineTypeOK, Read
<1>2. Tail(inbox[e]) \in Seq(CommandType) /\ cmd \in CommandType
  BY <1>1, TailFacts
<1>3. inbox' \in [Players -> Seq(CommandType)]
  BY <1>1, <1>2 DEF Read, EngineTypeOK
<1>4. \A k \in {"uciok", "readyok", "eof"} :
        [out EXCEPT ![e] = Append(@, Line(k))] \in [Players -> Seq(LineType)]
  BY <1>1, Lines, WriteType
<1>5. out' \in [Players -> Seq(LineType)]
  BY <1>1, <1>4 DEF Read, Write, EngineTypeOK
<1>6. proc' = [proc EXCEPT ![e] = IF cmd.op = "go" THEN "thinking"
                                  ELSE IF cmd.op = "quit" THEN "dead" ELSE @]
  BY DEF Read
<1>7. search' = [search EXCEPT ![e] =
        IF cmd.op = "go" THEN [go |-> cmd.go, node |-> cmd.node, infos |-> 0] ELSE @]
  BY DEF Read
<1>8. configured' \in [Players -> BOOLEAN]
  BY <1>1 DEF Read, EngineTypeOK
<1>9. cmd.op = "go" => cmd.go \in Tags /\ cmd.node \in DOMAIN Graph
  BY <1>2 DEF CommandType
<1> HIDE DEF cmd
<1>10. proc' \in [Players -> {"idle", "thinking", "hung", "babbling", "dead"}]
  BY <1>1, <1>6 DEF EngineTypeOK
<1>11. search' \in [Players -> [go : Tags, node : DOMAIN Graph \cup {NoMove}, infos : Nat]]
  BY <1>1, <1>7, <1>9 DEF EngineTypeOK
<1>12. \A p \in Players : proc'[p] = "thinking" => search'[p].node \in DOMAIN Graph
  BY <1>1, <1>6, <1>7, <1>9 DEF EngineTypeOK
<1> QED BY <1>3, <1>5, <1>8, <1>10, <1>11, <1>12 DEF EngineTypeOK

LEMMA BestmoveType ==
  ASSUME TypeOK, HearBestmove
  PROVE  TypeOK'
<1> DEFINE line == Head(out[who])
           forfeits == sc.wallclock /\ Forfeited(clock[Mover])
           move == MoveOf(pos, line.move)
           next == MoveTo(pos, move, last_info[who].score)
<1>0. who \in Players /\ leg \in {0, 1} /\ pos \in PositionType /\ Mover \in Colors
      /\ last_info[who].score \in ScoreType /\ last_info[who].go \in Tags
  BY NodeType DEF TypeOK, WorkerTypeOK, GameTypeOK, Mover
<1>1. line \in LineType /\ out' \in [Players -> Seq(LineType)]
  BY <1>0, ReceiveType DEF HearBestmove, Heard, Receive, TypeOK
<1>2. EngineTypeOK'
  <2>1. inbox' \in [Players -> Seq(CommandType)]
    <3>1. CASE UNCHANGED inbox
      BY <3>1 DEF TypeOK, EngineTypeOK
    <3>2. CASE Ask("newgame", "engine", NewGame)
      BY <3>2, QuestionType, PlayerTypes DEF Asking
    <3>3. CASE IsLegal(pos, line.move) /\ AskMove(next, leg)
      <4>1. move \in MoveType
        BY <1>0, <3>3, NodeType DEF IsLegal, MoveOf
      <4>2. next \in PositionType
        BY <1>0, <4>1, MoveToType
      <4> QED BY <1>0, <3>3, <4>2, AskMoveType
    <3> QED BY <3>1, <3>2, <3>3 DEF HearBestmove, End
  <2>2. proc' = proc /\ search' = search /\ configured' = configured
    BY DEF HearBestmove
  <2> QED BY <1>1, <2>1, <2>2 DEF TypeOK, EngineTypeOK
<1>3. spent' \in [Players -> Nat]
  <2>1. elapsed \in Nat
    BY ScenarioFacts DEF TypeOK, GameTypeOK
  <2> QED BY <1>0, <2>1 DEF HearBestmove, TypeOK, GameTypeOK
<1>4. WaitTypeOK'
  <2>0. missed' = missed /\ seen' = seen /\ used' = used
    BY DEF HearBestmove
  <2>1. CASE forfeits \/ ~IsLegal(pos, line.move)
    <3>1. End(Over(IF forfeits THEN "time" ELSE "illegal", Mover))
          /\ UNCHANGED <<pos, clock, record>>
      BY <2>1 DEF HearBestmove
    <3>2. Over(IF forfeits THEN "time" ELSE "illegal", Mover) \in Outcomes
      BY <1>0, OutcomeTypes
    <3>3. UNCHANGED <<last_info, elapsed, asleep>>
      BY <3>1 DEF End
    <3> HIDE DEF forfeits
    <3> QED BY <1>3, <2>0, <3>1, <3>2, <3>3, EndType, WaitTypes DEF WaitTypeOK
  <2>2. CASE ~forfeits /\ IsLegal(pos, line.move)
    <3>1. move \in MoveType
      BY <1>0, <2>2, NodeType DEF IsLegal, MoveOf
    <3>2. next \in PositionType
      BY <1>0, <3>1, MoveToType
    <3>3. pos' = next /\ clock' = (IF sc.wallclock THEN [clock EXCEPT ![Mover] = ApplyMove(@)]
                                   ELSE clock)
          /\ record' = Append(record,
                      [side |-> Mover, move |-> move, score |-> last_info[who].score,
                       from |-> last_info[who].go, answers |-> line.go,
                       asked |-> GoTag(pos, leg)])
      BY <2>2 DEF HearBestmove
    <3>4. clock' \in [Colors -> [remaining : Int, increment : Nat]]
      <4>1. clock \in [Colors -> [remaining : Int, increment : Nat]] /\ elapsed \in Nat
        BY ScenarioFacts DEF TypeOK, GameTypeOK
      <4>2. ApplyMove(clock[Mover]) \in [remaining : Int, increment : Nat]
        BY <1>0, <4>1 DEF ApplyMove
      <4> QED BY <3>3, <4>1, <4>2
    <3>5. record' \in Seq([side : Colors, move : MoveType, score : ScoreType, from : Tags,
                           answers : Tags, asked : Tags])
      <4>1. [side |-> Mover, move |-> move, score |-> last_info[who].score,
             from |-> last_info[who].go, answers |-> line.go, asked |-> GoTag(pos, leg)]
            \in [side : Colors, move : MoveType, score : ScoreType, from : Tags,
                 answers : Tags, asked : Tags]
        <5>1. GoTag(pos, leg) \in Tags /\ line.go \in Tags
          BY <1>0, <1>1, TagType DEF TypeOK, LineType
        <5> HIDE DEF move, line
        <5> QED BY <1>0, <3>1, <5>1
      <4>2. record \in Seq([side : Colors, move : MoveType, score : ScoreType, from : Tags,
                           answers : Tags, asked : Tags])
        BY DEF TypeOK, GameTypeOK
      <4> QED BY <3>3, <4>1, <4>2, AppendProperties
    <3>6. CASE Verdict(next, Mover) # GoesOn
      <4>1. Verdict(next, Mover) \in Outcomes
        BY <1>0, <3>2, OutcomeTypes
      <4>2. End(Verdict(next, Mover))
        BY <2>2, <3>6 DEF HearBestmove
      <4>3. UNCHANGED <<last_info, elapsed, asleep>>
        BY <4>2 DEF End
      <4> HIDE DEF next
      <4>4. pos' \in PositionType
        BY <3>2, <3>3
      <4> QED BY <1>3, <2>0, <3>4, <3>5, <4>1, <4>2, <4>3, <4>4, EndType, WaitTypes
            DEF WaitTypeOK
    <3>7. CASE Verdict(next, Mover) = GoesOn
      <4>2. AskMove(next, leg) /\ UNCHANGED <<reports, leg, outcome, won>>
        BY <2>2, <3>7 DEF HearBestmove
      <4> HIDE DEF next
      <4>4. pos' \in PositionType
        BY <3>2, <3>3
      <4>5. /\ pc' \in Stages /\ who' \in Players /\ inbox' \in [Players -> Seq(CommandType)]
            /\ last_info' \in [Players -> [score : ScoreType, go : Tags]]
            /\ elapsed' \in 0 .. MaxElapsed /\ asleep' \in Nat
        BY <1>0, <3>2, <4>2, AskMoveType
      <4> QED BY <1>3, <2>0, <3>4, <3>5, <4>2, <4>4, <4>5, WaitTypes DEF WaitTypeOK
    <3> QED BY <3>6, <3>7
  <2> QED BY <2>1, <2>2
<1> QED BY <1>2, <1>4, TypeOfWait DEF HearBestmove

LEMMA LoseType ==
  ASSUME TypeOK, Lose, proc' \in [Players -> {"idle", "thinking", "hung", "babbling", "dead"}],
         out' \in [Players -> Seq(LineType)],
         \A e \in Players : proc'[e] = "thinking" => proc[e] = "thinking"
  PROVE  TypeOK'
<1>1. Mover \in Colors /\ who \in Players
  BY NodeType DEF TypeOK, WorkerTypeOK, GameTypeOK, Mover
<1>2. Over("illegal", Mover) \in Outcomes
  BY <1>1, OutcomeTypes
<1>3. End(Over("illegal", Mover)) /\ lost' = lost \cup {who} /\ seen' = seen + 1
      /\ UNCHANGED <<sc, dispatched, cmds, open, pair, missed, pos, clock, record, spent, search,
                     configured, used, faulty>>
  BY DEF Lose
<1>4. UNCHANGED <<last_info, elapsed, asleep>>
  BY <1>3 DEF End
<1>5. /\ pc' \in Stages /\ who' \in Players /\ inbox' \in [Players -> Seq(CommandType)]
      /\ reports' \in Seq([kind : {"game", "pair", "failure"}, worker : {0}, game : Nat,
                           score : 0 .. 2])
      /\ won' \in [1 .. 2 * MaxPairs -> Players \cup {"draw", "none"}]
      /\ outcome' \in Outcomes /\ leg' \in {0, 1}
  BY <1>2, <1>3, EndType
<1>6. lost' \subseteq Players /\ seen' \in Nat
  BY <1>1, <1>3 DEF TypeOK, WorkerTypeOK
<1>7. WorkerTypeOK'
  BY <1>3, <1>5, <1>6 DEF TypeOK, WorkerTypeOK
<1>8. GameTypeOK'
  BY <1>3, <1>4, <1>5 DEF TypeOK, GameTypeOK
<1>9. EngineTypeOK'
  BY <1>3, <1>5 DEF TypeOK, EngineTypeOK
<1> QED BY <1>7, <1>8, <1>9 DEF TypeOK

LEMMA TypeInit == Init => TypeOK
<1> SUFFICES ASSUME Init PROVE TypeOK
  OBVIOUS
<1>1. sc \in Scenarios /\ leg = 0 /\ pair = 0
  BY DEF Init
<1>2. /\ sc.pairs \in Nat /\ 0 \in 0 .. MaxPairs /\ 0 \in 0 .. MaxElapsed
      /\ \A p \in Players : sc.tc[p].initial \in Nat /\ sc.tc[p].increment \in Nat
  <2>1. IsScenario(sc)
    BY <1>1, MatchGameAssumption
  <2> QED BY <2>1, MatchGameAssumption DEF IsScenario
<1>3. clock \in [Colors -> [remaining : Int, increment : Nat]]
  BY <1>2, PlayerTypes DEF Init, Clocks, StartClock
<1>4. /\ NoInfo \in [score : ScoreType, go : Tags]
      /\ Quiet \in [go : Tags, node : DOMAIN Graph \cup {NoMove}, infos : Nat]
  BY Lines DEF NoInfo, Quiet
<1>5. inbox \in [Players -> Seq(CommandType)]
  <2>1. <<Cmd("uci")>> \in Seq(CommandType)
    BY Questions DEF Asking
  <2> QED BY <2>1 DEF Init
<1>6. WorkerTypeOK
  <2>1. cmds = <<>> /\ reports = <<>> /\ open = TRUE /\ dispatched = 0 /\ pc = "uciok"
        /\ who = "engine" /\ missed = FALSE /\ lost = {} /\ seen = 0
        /\ won = [i \in 1 .. 2 * MaxPairs |-> "none"]
    BY DEF Init
  <2>2. won \in [1 .. 2 * MaxPairs -> Players \cup {"draw", "none"}]
    BY <2>1
  <2>3. dispatched \in 0 .. MaxPairs /\ pair \in Pairs \cup {0} /\ leg \in {0, 1}
    BY <1>1, <1>2, <2>1
  <2>4. /\ cmds \in Seq([op : {"pair", "quit"}, pair : Pairs \cup {0}])
        /\ reports \in Seq([kind : {"game", "pair", "failure"}, worker : {0}, game : Nat,
                            score : 0 .. 2])
    BY <2>1
  <2>5. pc \in Stages /\ who \in Players /\ missed \in BOOLEAN /\ open \in BOOLEAN
        /\ lost \subseteq Players /\ seen \in Nat
    BY <2>1 DEF Stages, Players
  <2> QED BY <1>1, <2>2, <2>3, <2>4, <2>5 DEF WorkerTypeOK
<1>7. GameTypeOK
  <2>1. pos = StartPosition /\ elapsed = 0 /\ asleep = 0 /\ record = <<>> /\ outcome = GoesOn
        /\ faulty = FALSE
    BY DEF Init
  <2>2. last_info \in [Players -> [score : ScoreType, go : Tags]]
    BY <1>4 DEF Init
  <2>3. used \in [ticks : Nat, naps : Nat, chatter : Nat] /\ spent \in [Players -> Nat]
    BY DEF Init
  <2>4. record \in Seq([side : Colors, move : MoveType, score : ScoreType, from : Tags,
                        answers : Tags, asked : Tags])
    BY <2>1
  <2>5. pos \in PositionType /\ elapsed \in 0 .. MaxElapsed /\ asleep \in Nat
        /\ outcome \in Outcomes /\ faulty \in BOOLEAN
    BY <1>2, <2>1, StartType, OutcomeTypes
  <2> QED BY <1>3, <2>2, <2>3, <2>4, <2>5 DEF GameTypeOK
<1>8. EngineTypeOK
  BY <1>4, <1>5 DEF Init, EngineTypeOK
<1> QED BY <1>6, <1>7, <1>8 DEF TypeOK

LEMMA TypeStep == TypeOK /\ [Next]_vars => TypeOK'
<1> SUFFICES ASSUME TypeOK, [Next]_vars PROVE TypeOK'
  OBVIOUS
<1> USE DEF TypeOK
<1>0. who \in Players /\ EngineTypeOK
  BY DEF WorkerTypeOK
<1>1. CASE HearAnswer
  <2>1. out' \in [Players -> Seq(LineType)]
    BY <1>0, <1>1, ReceiveType DEF HearAnswer, Heard, Receive
  <2>2. WaitTypeOK'
    BY <1>1, AnsweredType DEF HearAnswer
  <2>3. EngineTypeOK'
    BY <1>1, <2>1, <2>2 DEF HearAnswer, EngineTypeOK, WaitTypeOK
  <2> QED BY <1>1, <2>2, <2>3, TypeOfWait DEF HearAnswer
<1>2. CASE HearOther
  <2>1. out' \in [Players -> Seq(LineType)]
    BY <1>0, <1>2, ReceiveType DEF HearOther, Heard, Receive
  <2> QED BY <1>2, <2>1 DEF HearOther, WorkerTypeOK, GameTypeOK, EngineTypeOK, gameVars
<1>3. CASE HearEnd \/ NoAnswer \/ Slow
  <2>1. Unanswered /\ UNCHANGED <<sc, dispatched, cmds, open, pair, proc, out, search,
                                  configured, lost>> /\ faulty' \in BOOLEAN
    BY <1>3 DEF HearEnd, NoAnswer, Slow, GameTypeOK
  <2>2. WaitTypeOK'
    BY <2>1, UnansweredType
  <2>3. EngineTypeOK'
    BY <2>1, <2>2 DEF EngineTypeOK, WaitTypeOK
  <2>4. WorkerTypeOK' /\ GameTypeOK'
    BY <2>1, <2>2 DEF WorkerTypeOK, GameTypeOK, WaitTypeOK
  <2> QED BY <2>3, <2>4
<1>4. CASE Take
  <2>1. cmds \in Seq([op : {"pair", "quit"}, pair : Pairs \cup {0}]) /\ cmds # <<>>
    BY <1>4 DEF WorkerTypeOK, Take
  <2>2. /\ Head(cmds) \in [op : {"pair", "quit"}, pair : Pairs \cup {0}]
        /\ cmds' \in Seq([op : {"pair", "quit"}, pair : Pairs \cup {0}])
    BY <1>4, <2>1, TailFacts DEF Take
  <2>3. /\ pc' \in Stages /\ who' \in Players /\ inbox' \in [Players -> Seq(CommandType)]
    <3>1. Asking("options", Options)
      BY DEF Asking
    <3>2. BeginShutdown \/ Ask("options", "engine", Options) \/ Ask("options", "opponent", Options)
      BY <1>4 DEF Take
    <3> QED BY <3>1, <3>2, QuestionType, ShutdownType, PlayerTypes
  <2>4. configured' \in [Players -> BOOLEAN]
    <3>1. sc.spsa \in BOOLEAN
      BY ScenarioFacts
    <3> QED BY <1>4, <3>1 DEF Take, EngineTypeOK
  <2>5. pair' \in Pairs \cup {0} /\ leg' \in {0, 1}
    BY <1>4, <2>2 DEF Take, WorkerTypeOK
  <2>6. UNCHANGED <<sc, dispatched, open, reports, missed, gameVars, proc, out, search, used,
                    faulty, outcome, won, lost, seen>>
    BY <1>4 DEF Take
  <2>7. WorkerTypeOK'
    BY <2>2, <2>3, <2>5, <2>6 DEF WorkerTypeOK
  <2>8. GameTypeOK'
    BY <2>6 DEF GameTypeOK, gameVars
  <2>9. EngineTypeOK'
    BY <2>3, <2>4, <2>6 DEF EngineTypeOK
  <2> QED BY <2>7, <2>8, <2>9
<1>5. CASE HungUp
  <2>1. /\ pc' \in Stages /\ who' \in Players /\ inbox' \in [Players -> Seq(CommandType)]
    BY <1>5, ShutdownType DEF HungUp
  <2> QED BY <1>5, <2>1 DEF HungUp, WorkerTypeOK, GameTypeOK, EngineTypeOK, gameVars
<1>6. CASE ReportPair
  <2>1. Append(reports, PairComplete) \in Seq([kind : {"game", "pair", "failure"},
                                               worker : {0}, game : Nat, score : 0 .. 2])
    <3>1. 0 \in 0 .. 2
      OBVIOUS
    <3> QED BY <3>1, ReportTypes
  <2>2. pc' \in Stages
    BY <1>6 DEF ReportPair, Stages
  <2> QED BY <1>6, <2>1, <2>2 DEF ReportPair, Say, WorkerTypeOK, GameTypeOK, EngineTypeOK,
        gameVars, engineVars
<1>7. CASE HearInfo
  <2>1. out' \in [Players -> Seq(LineType)] /\ Head(out[who]) \in LineType
    BY <1>0, <1>7, ReceiveType DEF HearInfo, Heard, Receive
  <2>2. last_info' \in [Players -> [score : ScoreType, go : Tags]]
    BY <1>7, <2>1 DEF HearInfo, LineType, GameTypeOK
  <2> QED BY <1>7, <2>1, <2>2 DEF HearInfo, WorkerTypeOK, GameTypeOK, EngineTypeOK
<1>8. CASE HearBestmove
  BY <1>8, BestmoveType
<1>9. CASE HearExit
  BY <1>9, LoseType DEF HearExit, EngineTypeOK
<1>10. CASE Reap
  <2>1. pc' \in Stages
    BY <1>10 DEF Reap, Stages
  <2>2. KillEngine
    BY <1>10 DEF Reap
  <2> QED BY <1>10, <2>1, <2>2, KillType DEF Reap, WorkerTypeOK, GameTypeOK, EngineTypeOK, gameVars
<1>11. CASE JoinReader
  <2>1. pc' \in Stages /\ who' \in Players /\ inbox' \in [Players -> Seq(CommandType)]
    <3>1. CASE Ask("closing", "opponent", <<Cmd("quit")>>)
      <4>1. "closing" \in Stages
        BY DEF Stages
      <4> QED BY <3>1, <4>1, AskType, OtherCommands, PlayerTypes
    <3>2. CASE pc' = "gone" /\ UNCHANGED <<who, inbox>>
      BY <1>0, <3>2 DEF Stages, EngineTypeOK
    <3> QED BY <1>11, <3>1, <3>2 DEF JoinReader
  <2> QED BY <1>11, <2>1 DEF JoinReader, WorkerTypeOK, GameTypeOK, EngineTypeOK, gameVars
<1>12. CASE WatchdogExpires
  BY <1>12, KillType, LoseType DEF WatchdogExpires
<1>13. CASE WaitAgain
  BY <1>13 DEF WaitAgain, WorkerTypeOK, GameTypeOK, EngineTypeOK, engineVars
<1>14. CASE Tick
  <2>1. elapsed' \in 0 .. MaxElapsed /\ used' \in [ticks : Nat, naps : Nat, chatter : Nat]
    <3>1. elapsed' = elapsed + 1 /\ elapsed < MaxElapsed /\ elapsed \in 0 .. MaxElapsed
          /\ MaxElapsed \in Nat
      BY <1>14, ScenarioFacts DEF Tick, GameTypeOK
    <3>2. used \in [ticks : Nat, naps : Nat, chatter : Nat]
      BY DEF GameTypeOK
    <3>3. [used EXCEPT !.ticks = @ + 1] \in [ticks : Nat, naps : Nat, chatter : Nat]
      BY <3>2
    <3> QED BY <1>14, <3>1, <3>2, <3>3 DEF Tick
  <2> QED BY <1>14, <2>1 DEF Tick, WorkerTypeOK, GameTypeOK, EngineTypeOK, engineVars
<1>15. CASE Nap
  <2>1. asleep' \in Nat /\ used' \in [ticks : Nat, naps : Nat, chatter : Nat]
    <3>1. asleep' = asleep + sc.nap /\ asleep \in Nat /\ sc.nap \in Nat
      BY <1>15, ScenarioFacts DEF Nap, GameTypeOK
    <3>2. used \in [ticks : Nat, naps : Nat, chatter : Nat]
      BY DEF GameTypeOK
    <3>3. [used EXCEPT !.naps = 1] \in [ticks : Nat, naps : Nat, chatter : Nat]
      BY <3>2
    <3> QED BY <1>15, <3>1, <3>2, <3>3 DEF Nap
  <2> QED BY <1>15, <2>1 DEF Nap, WorkerTypeOK, GameTypeOK, EngineTypeOK, engineVars
<1>16. ASSUME NEW e \in Players, Read(e) PROVE TypeOK'
  <2>1. EngineTypeOK'
    BY <1>16, ReadType
  <2> QED BY <1>16, <2>1 DEF Read, UNCHANGED_Harness, WorkerTypeOK, GameTypeOK, gameVars
<1>17. ASSUME NEW e \in Players, Tell(e) PROVE TypeOK'
  <2>1. out' \in [Players -> Seq(LineType)]
    <3>1. PICK score \in sc.scores[e] : out' = [out EXCEPT ![e] = Append(@, Info(search[e].go, score))]
      BY <1>17 DEF Tell, Write
    <3>2. search[e].go \in Tags /\ score \in ScoreType
      BY ScenarioFacts, <3>1 DEF EngineTypeOK
    <3> QED BY <1>0, <3>1, <3>2, Lines, WriteType
  <2>2. /\ search' \in [Players -> [go : Tags, node : DOMAIN Graph \cup {NoMove}, infos : Nat]]
        /\ \A p \in Players : search'[p].node = search[p].node
    <3>1. search' = [search EXCEPT ![e].infos = @ + 1]
      BY <1>17 DEF Tell
    <3>2. search \in [Players -> [go : Tags, node : DOMAIN Graph \cup {NoMove}, infos : Nat]]
      BY DEF EngineTypeOK
    <3>3. /\ [search[e] EXCEPT !.infos = @ + 1]
               \in [go : Tags, node : DOMAIN Graph \cup {NoMove}, infos : Nat]
          /\ [search[e] EXCEPT !.infos = @ + 1].node = search[e].node
      BY <3>2
    <3>4. search' = [search EXCEPT ![e] = [search[e] EXCEPT !.infos = @ + 1]]
      BY <3>1, <3>2
    <3> QED BY <3>2, <3>3, <3>4
  <2>3. EngineTypeOK'
    BY <1>17, <2>1, <2>2 DEF Tell, EngineTypeOK
  <2> QED BY <1>17, <2>3 DEF Tell, UNCHANGED_Harness, WorkerTypeOK, GameTypeOK, gameVars
<1>18. ASSUME NEW e \in Players, Answer(e) PROVE TypeOK'
  <2>1. PICK id \in {m.id : m \in Graph[search[e].node].moves}
                      \cup (IF sc.illegal THEN {NoMove} ELSE {}) :
          out' = [out EXCEPT ![e] = Append(@, Bestmove(search[e].go, id))]
    BY <1>18 DEF Answer, Write
  <2>2. search[e].node \in DOMAIN Graph /\ search[e].go \in Tags
    BY <1>18 DEF Answer, EngineTypeOK
  <2>3. id \in Nat
    <3>1. \A m \in Graph[search[e].node].moves : m.id \in Nat
      BY <2>2, GraphAssumption
    <3> QED BY <2>1, <3>1 DEF NoMove
  <2>4. out' \in [Players -> Seq(LineType)]
    BY <1>0, <2>1, <2>2, <2>3, Lines, WriteType
  <2>5. Quiet \in [go : Tags, node : DOMAIN Graph \cup {NoMove}, infos : Nat]
    BY Lines DEF Quiet
  <2>6. search' \in [Players -> [go : Tags, node : DOMAIN Graph \cup {NoMove}, infos : Nat]]
    BY <1>18, <2>5 DEF Answer, EngineTypeOK
  <2>7. proc' = [proc EXCEPT ![e] = "idle"] /\ search' = [search EXCEPT ![e] = Quiet]
        /\ UNCHANGED <<inbox, configured, faulty>>
    BY <1>18 DEF Answer
  <2>8. EngineTypeOK'
    BY <2>4, <2>6, <2>7 DEF EngineTypeOK
  <2> QED BY <1>18, <2>8 DEF Answer, UNCHANGED_Harness, WorkerTypeOK, GameTypeOK, gameVars
<1>19. ASSUME NEW e \in Players, Fault(e) PROVE TypeOK'
  <2>1. out' \in [Players -> Seq(LineType)]
    <3>1. CASE Crash(e)
      <4>1. Line("eof") \in LineType
        BY Lines
      <4> QED BY <1>0, <3>1, <4>1, WriteType DEF Crash, Write
    <3>2. CASE UNCHANGED out
      BY <3>2 DEF EngineTypeOK
    <3> QED BY <1>19, <3>1, <3>2 DEF Fault, Hang, StartBabbling, Break
  <2>2. PICK state \in {"dead", "hung", "babbling"} : proc' = [proc EXCEPT ![e] = state]
    BY <1>19 DEF Fault, Crash, Hang, StartBabbling, Break
  <2>3. faulty' = TRUE /\ UNCHANGED <<inbox, search, configured>> /\ UNCHANGED_Harness
    BY <1>19 DEF Fault, Crash, Hang, StartBabbling, Break
  <2>4. EngineTypeOK'
    BY <2>1, <2>2, <2>3 DEF EngineTypeOK
  <2> QED BY <2>3, <2>4 DEF UNCHANGED_Harness, WorkerTypeOK, GameTypeOK, gameVars
<1>20. ASSUME NEW e \in Players, Babble(e) PROVE TypeOK'
  <2>1. out' \in [Players -> Seq(LineType)]
    BY <1>0, <1>20, Lines, WriteType DEF Babble, Write
  <2>2. used' \in [ticks : Nat, naps : Nat, chatter : Nat]
    <3>1. used \in [ticks : Nat, naps : Nat, chatter : Nat]
      BY DEF GameTypeOK
    <3>2. [used EXCEPT !.chatter = @ + 1] \in [ticks : Nat, naps : Nat, chatter : Nat]
      BY <3>1
    <3> QED BY <1>20, <3>2 DEF Babble
  <2> QED BY <1>20, <2>1, <2>2 DEF Babble, WorkerTypeOK, GameTypeOK, EngineTypeOK, gameVars
<1>21. CASE Command \/ Dismiss \/ Drop
  <2>0. UNCHANGED_Worker /\ open' \in BOOLEAN
    BY <1>21 DEF Command, Dismiss, Drop, WorkerTypeOK
  <2>1. cmds' \in Seq([op : {"pair", "quit"}, pair : Pairs \cup {0}]) /\ dispatched' \in 0 .. MaxPairs
    <3>1. CASE Command
      <4>1. dispatched \in Pairs /\ dispatched + 1 \in 0 .. MaxPairs
        BY <3>1, ScenarioFacts DEF Command, WorkerTypeOK, Pairs
      <4> QED BY <3>1, <4>1 DEF Command
    <3>2. CASE Dismiss
      <4>1. [op |-> "quit", pair |-> 0] \in [op : {"pair", "quit"}, pair : Pairs \cup {0}]
        OBVIOUS
      <4> QED BY <3>2, <4>1, AppendProperties DEF Dismiss, WorkerTypeOK
    <3>3. CASE Drop
      BY <3>3 DEF Drop, WorkerTypeOK
    <3> QED BY <1>21, <3>1, <3>2, <3>3
  <2> QED BY <2>0, <2>1 DEF UNCHANGED_Worker, WorkerTypeOK, GameTypeOK, EngineTypeOK, gameVars,
        engineVars
<1>22. CASE UNCHANGED vars
  BY <1>22 DEF vars, WorkerTypeOK, GameTypeOK, EngineTypeOK, gameVars, engineVars
<1> HIDE DEF TypeOK
<1> QED BY <1>1, <1>2, <1>3, <1>4, <1>5, <1>6, <1>7, <1>8, <1>9, <1>10, <1>11, <1>12, <1>13,
      <1>14, <1>15, <1>16, <1>17, <1>18, <1>19, <1>20, <1>21, <1>22
      DEF Next, Harness, Timer, Engine, Terminated

\* What the worker, its clocks, its pipes and its record range over.
THEOREM TypeCorrect == Spec => []TypeOK
  BY TypeInit, TypeStep, PTL DEF Spec

-----------------------------------------------------------------------------
\* A step of one engine leaves the other, and what it is asked, alone.
Untouched(p) ==
  /\ proc'[p] = proc[p] /\ inbox'[p] = inbox[p] /\ out'[p] = out[p] /\ search'[p] = search[p]
  /\ last_info'[p] = last_info[p]
SameScene ==
  /\ pc' = pc /\ who' = who /\ missed' = missed /\ lost' = lost /\ leg' = leg /\ pos' = pos
  /\ pair' = pair /\ outcome' = outcome

LEMMA Scene ==
  ASSUME SameScene, NEW e \in Players
  PROVE  /\ Sound(e)' = Sound(e) /\ Asked(e)' = Asked(e) /\ Moving(e)' = Moving(e)
         /\ Expected' = Expected /\ Tag' = Tag /\ Mover' = Mover
         /\ Leaving' = Leaving /\ Thinking' = Thinking
  BY DEF SameScene, Sound, Asked, Moving, Awaiting, Thinking, Leaving, Dirty, Expected, Tag,
         GoTag, Mover, side_to_move, Node

LEMMA OthersPiped ==
  ASSUME TypeOK, SameScene, NEW p \in Players, Untouched(p)
  PROVE  /\ Piped(p) => Piped(p)'
         /\ Thinks(p) => Thinks(p)'
<1>0. /\ Sound(p)' = Sound(p) /\ Asked(p)' = Asked(p) /\ Moving(p)' = Moving(p)
      /\ Expected' = Expected /\ Tag' = Tag
  BY Scene
<1>1. Rests(p) => Rests(p)'
  BY DEF Rests, Untouched, Quiets
<1>2. Replies(p) => Replies(p)'
  BY <1>0 DEF Replies, Untouched, Quiets, Final, SameScene
<1>3. Plays(p) => Plays(p)'
  BY <1>0 DEF Plays, Untouched, Quiets, Final, SameScene
<1>4. Thinks(p) => Thinks(p)'
  BY <1>0 DEF Thinks, Untouched, Dead
<1> QED BY <1>0, <1>1, <1>2, <1>3, <1>4 DEF Piped

LEMMA EngineStep ==
  ASSUME TypeOK, PipeInv, ThinkInv, TurnInv, MissedInv, SameScene, NEW e \in Players,
         \A p \in Players : p # e => Untouched(p), Piped(e)', Thinks(e)'
  PROVE  PipeInv' /\ ThinkInv' /\ TurnInv' /\ MissedInv'
<1>1. ASSUME NEW p \in Players PROVE Piped(p)' /\ Thinks(p)'
  <2>1. CASE p = e
    BY <2>1
  <2>2. CASE p # e
    <3>1. Untouched(p) /\ Piped(p) /\ Thinks(p)
      BY <2>2 DEF PipeInv, ThinkInv
    <3> QED BY <3>1, OthersPiped
  <2> QED BY <2>1, <2>2
<1>2. TurnInv'
  BY Scene DEF TurnInv, SameScene
<1>3. MissedInv'
  BY Scene DEF MissedInv, SameScene
<1> QED BY <1>1, <1>2, <1>3 DEF PipeInv, ThinkInv

\* An engine writes a line that means nothing, and may stop to think.
LEMMA DullLine ==
  ASSUME TypeOK, SameScene, NEW e \in Players, Piped(e), Thinks(e),
         NEW x \in LineType, Dull(x), out'[e] = Append(out[e], x) \/ out'[e] = out[e],
         proc'[e] # "thinking", Dead(e) => Dead(e)', inbox'[e] = inbox[e],
         last_info'[e] = last_info[e]
  PROVE  Piped(e)' /\ Thinks(e)'
<1>0. /\ Sound(e)' = Sound(e) /\ Asked(e)' = Asked(e) /\ Moving(e)' = Moving(e)
      /\ Expected' = Expected /\ Tag' = Tag
  BY Scene
<1>1. out[e] \in Seq(LineType)
  BY DEF TypeOK, EngineTypeOK
<1>2. /\ Quiets(out[e]) => Quiets(out'[e])
      /\ \A k : Final(out[e], k) => Final(out'[e], k)
  BY <1>1, QuietAppend
<1>3. \A i \in 1 .. Len(out'[e]) :
        \/ i \in 1 .. Len(out[e]) /\ out'[e][i] = out[e][i]
        \/ Dull(out'[e][i])
  <2>1. /\ Len(Append(out[e], x)) = Len(out[e]) + 1 /\ Len(out[e]) \in Nat
        /\ \A i \in 1 .. Len(out[e]) : Append(out[e], x)[i] = out[e][i]
        /\ Append(out[e], x)[Len(out[e]) + 1] = x
    BY <1>1, AppendFacts
  <2>2. \A i \in 1 .. Len(Append(out[e], x)) : i \in 1 .. Len(out[e]) \/ i = Len(out[e]) + 1
    BY <2>1
  <2> QED BY <2>1, <2>2
<1>4. Rests(e) => Rests(e)'
  BY <1>2 DEF Rests
<1>5. Replies(e) => Replies(e)'
  BY <1>0, <1>2, <1>3 DEF Replies, SameScene
<1>6. Plays(e) => Plays(e)'
  BY <1>0, <1>2, <1>3 DEF Plays, SameScene
<1>7. Thinks(e)'
  BY <1>0 DEF Thinks
<1> QED BY <1>0, <1>4, <1>5, <1>6, <1>7 DEF Piped

LEMMA ReadPiped ==
  ASSUME TypeOK, NEW e \in Players, Read(e), Piped(e), Thinks(e), SameScene
  PROVE  Piped(e)' /\ Thinks(e)'
<1> DEFINE cmd == Head(inbox[e])
<1>0. /\ Sound(e)' = Sound(e) /\ Asked(e)' = Asked(e) /\ Moving(e)' = Moving(e)
      /\ Expected' = Expected /\ Tag' = Tag
  BY Scene
<1>1. /\ inbox[e] \in Seq(CommandType) /\ inbox[e] # <<>> /\ EngineTypeOK /\ out[e] \in Seq(LineType)
      /\ out \in [Players -> Seq(LineType)]
      /\ inbox \in [Players -> Seq(CommandType)]
      /\ proc \in [Players -> {"idle", "thinking", "hung", "babbling", "dead"}]
      /\ search \in [Players -> [go : Tags, node : DOMAIN Graph \cup {NoMove}, infos : Nat]]
  BY DEF TypeOK, EngineTypeOK, Read
<1>2. /\ Tail(inbox[e]) \in Seq(CommandType) /\ Len(Tail(inbox[e])) = Len(inbox[e]) - 1
      /\ Len(inbox[e]) \in Nat \ {0} /\ cmd = inbox[e][1] /\ cmd \in CommandType
      /\ \A i \in 1 .. Len(Tail(inbox[e])) :
           Tail(inbox[e])[i] = inbox[e][i + 1] /\ i + 1 \in 1 .. Len(inbox[e])
  BY <1>1, TailFacts
<1>3. inbox'[e] = Tail(inbox[e])
  BY <1>1 DEF Read
<1>4. /\ cmd.op = "uci" => out' = [out EXCEPT ![e] = Append(@, Line("uciok"))]
      /\ cmd.op = "isready" => out' = [out EXCEPT ![e] = Append(@, Line("readyok"))]
      /\ cmd.op \notin {"uci", "isready", "quit"} => out' = out
  BY DEF Read, Write
<1>5. /\ cmd.op = "go" => proc'[e] = "thinking" /\ search'[e].go = cmd.go
      /\ cmd.op \notin {"go", "quit"} => proc'[e] = proc[e]
      /\ cmd.op # "go" => proc'[e] \in {proc[e], "dead"} /\ search'[e] = search[e]
      /\ proc[e] \in {"idle", "thinking"}
  BY <1>1 DEF Read
<1> HIDE DEF cmd
<1>6. Thinks(e)'
  <2>1. 1 \in 1 .. Len(inbox[e])
    BY <1>2
  <2>2. cmd.op = "go" => Moving(e)
    BY <1>2, <1>5, <2>1 DEF Thinks, Dead
  <2>3. proc'[e] = "thinking" => Moving(e)
    BY <1>5, <2>2 DEF Thinks
  <2>4. ASSUME NEW i \in 1 .. Len(inbox'[e]), inbox'[e][i].op = "go" PROVE Moving(e)
    BY <1>2, <1>3, <1>5, <2>4 DEF Thinks, Dead
  <2> QED BY <1>0, <2>3, <2>4 DEF Thinks
<1>7. CASE ~Sound(e)
  BY <1>0, <1>6, <1>7 DEF Piped
<1>8. CASE Sound(e) /\ ~Asked(e) /\ ~Moving(e)
  BY <1>1, <1>8 DEF Piped, Rests
<1>9. CASE Sound(e) /\ Asked(e)
  <2>1. Replies(e) /\ Quiets(out[e]) /\ ~Moving(e)
    BY <1>1, <1>9 DEF Piped, Replies, Asked, Awaiting, Moving, Thinking
  <2>2. CASE Len(inbox[e]) = 1
    <3>1. cmd.op = (IF pc = "uciok" THEN "uci" ELSE "isready")
      BY <1>1, <1>2, <2>1, <2>2 DEF Replies
    <3>2. out'[e] = Append(out[e], Line(Expected))
      BY <1>1, <1>4, <3>1 DEF Expected
    <3>3. inbox'[e] = <<>>
      <4>1. inbox'[e] \in Seq(CommandType) /\ Len(inbox'[e]) = 0
        BY <1>2, <1>3, <2>2
      <4> QED BY <4>1, EmptySeq
    <3>4. Expected \in {"uciok", "readyok"}
      BY DEF Expected
    <3>5. Line(Expected) \in LineType /\ Line(Expected).kind = Expected
      BY <3>4, Lines
    <3>6. \A i \in 1 .. Len(out[e]) : out[e][i].kind # Expected
      BY <2>1, <3>4 DEF Quiets, Dull
    <3>7. Final(out'[e], Expected)
      BY <1>1, <3>2, <3>5, <3>6, QuietAppend
    <3>8. \A i \in 1 .. Len(out'[e]) : out'[e][i].kind = Expected \/ Dull(out'[e][i])
      <4>1. /\ Len(out'[e]) = Len(out[e]) + 1 /\ Len(out[e]) \in Nat
            /\ \A i \in 1 .. Len(out[e]) : out'[e][i] = out[e][i]
            /\ out'[e][Len(out[e]) + 1] = Line(Expected)
        BY <1>1, <3>2, <3>5, AppendFacts
      <4>2. \A i \in 1 .. Len(out'[e]) : i \in 1 .. Len(out[e]) \/ i = Len(out[e]) + 1
        BY <4>1
      <4> QED BY <2>1, <3>5, <4>1, <4>2 DEF Quiets
    <3>9. Replies(e)'
      BY <1>0, <3>3, <3>7, <3>8 DEF Replies
    <3> QED BY <1>0, <1>6, <1>9, <2>1, <3>9 DEF Piped
  <2>3. CASE Len(inbox[e]) # 1
    <3>0. Len(inbox[e]) \in Nat \ {0}
      BY <1>2
    <3>1. 1 \in 1 .. Len(inbox[e]) - 1 /\ Len(inbox[e]) > 1
      <4>1. \A n \in Nat \ {0} : n # 1 => 1 \in 1 .. n - 1 /\ n > 1
        OBVIOUS
      <4> QED BY <2>3, <3>0, <4>1
    <3>2. cmd.op \in {"setoption", "ucinewgame"}
      BY <1>1, <1>2, <2>1, <3>1 DEF Replies
    <3>3. out'[e] = out[e]
      BY <1>4, <3>2
    <3>4. /\ inbox'[e][Len(inbox'[e])] = inbox[e][Len(inbox[e])]
          /\ \A i \in 1 .. Len(inbox'[e]) - 1 :
               inbox'[e][i] = inbox[e][i + 1] /\ i + 1 \in 1 .. Len(inbox[e]) - 1
      <4>1. Len(inbox'[e]) = Len(inbox[e]) - 1
        BY <1>2, <1>3
      <4>2. \A i \in 1 .. Len(inbox'[e]) : inbox'[e][i] = inbox[e][i + 1]
        BY <1>2, <1>3
      <4>3. \A i \in 1 .. Len(inbox'[e]) - 1 : i \in 1 .. Len(inbox'[e])
                                              /\ i + 1 \in 1 .. Len(inbox[e]) - 1
        BY <3>0, <4>1
      <4>4. Len(inbox'[e]) \in 1 .. Len(inbox'[e]) /\ Len(inbox'[e]) + 1 = Len(inbox[e])
        BY <3>0, <3>1, <4>1
      <4> QED BY <4>2, <4>3, <4>4
    <3>5. Replies(e)'
      BY <1>0, <1>1, <2>1, <3>3, <3>4 DEF Replies, SameScene
    <3> QED BY <1>0, <1>6, <1>9, <2>1, <3>5 DEF Piped
  <2> QED BY <2>2, <2>3
<1>10. CASE Sound(e) /\ Moving(e)
  <2>1. Plays(e) /\ ~Asked(e)
    BY <1>10 DEF Piped, Asked, Awaiting, Moving, Thinking
  <2>2. inbox[e] = <<GoCmd(Tag, Last(pos.history))>> /\ Quiets(out[e])
    BY <1>1, <2>1 DEF Plays
  <2>3. cmd.op = "go" /\ cmd.go = Tag /\ Len(inbox[e]) = 1
    BY <1>2, <2>2 DEF GoCmd
  <2>4. inbox'[e] = <<>>
    <3>1. inbox'[e] \in Seq(CommandType) /\ Len(inbox'[e]) = 0
      BY <1>2, <1>3, <2>3
    <3> QED BY <3>1, EmptySeq
  <2>5. out'[e] = out[e] /\ proc'[e] = "thinking" /\ search'[e].go = Tag
    BY <1>4, <1>5, <2>3
  <2>6. last_info'[e] = last_info[e]
    BY DEF Read, UNCHANGED_Harness, gameVars
  <2>7. \A i \in 1 .. Len(out[e]) : out[e][i].kind # "bestmove"
    BY <2>2 DEF Quiets, Dull
  <2>8. Plays(e)'
    BY <1>0, <2>1, <2>4, <2>5, <2>6, <2>7 DEF Plays
  <2> QED BY <1>0, <1>6, <1>10, <2>1, <2>8 DEF Piped
<1> QED BY <1>7, <1>8, <1>9, <1>10

LEMMA TellPiped ==
  ASSUME TypeOK, NEW e \in Players, Tell(e), Piped(e), Thinks(e), SameScene
  PROVE  Piped(e)' /\ Thinks(e)'
<1>0. /\ Sound(e)' = Sound(e) /\ Asked(e)' = Asked(e) /\ Moving(e)' = Moving(e)
      /\ Expected' = Expected /\ Tag' = Tag
  BY Scene
<1>1. PICK score \in sc.scores[e] : out' = [out EXCEPT ![e] = Append(@, Info(search[e].go, score))]
  BY DEF Tell, Write
<1>2. /\ out \in [Players -> Seq(LineType)] /\ out[e] \in Seq(LineType) /\ search[e].go \in Tags
      /\ search \in [Players -> [go : Tags, node : DOMAIN Graph \cup {NoMove}, infos : Nat]]
  BY DEF TypeOK, EngineTypeOK
<1>3. score \in ScoreType
  BY <1>1, ScenarioFacts DEF TypeOK
<1>4. /\ proc' = proc /\ inbox' = inbox /\ last_info' = last_info /\ proc[e] = "thinking"
      /\ search'[e].go = search[e].go
  BY <1>2 DEF Tell, UNCHANGED_Harness, gameVars
<1>5. Thinks(e)'
  BY <1>0, <1>4 DEF Thinks, Dead
<1>6. Moving(e) /\ ~Asked(e)
  BY <1>4 DEF Thinks, Asked, Awaiting, Moving, Thinking
<1>7. CASE ~Sound(e)
  BY <1>0, <1>5, <1>7 DEF Piped
<1>8. CASE Sound(e)
  <2> DEFINE x == Info(search[e].go, score)
  <2>1. Plays(e)
    BY <1>6, <1>8 DEF Piped
  <2>2. x \in LineType /\ x.kind = "info" /\ x.go = Tag
    BY <1>2, <1>3, <1>4, <2>1, Lines DEF Plays
  <2>3. out'[e] = Append(out[e], x)
    BY <1>1, <1>2
  <2> HIDE DEF x
  <2>4. /\ Len(out'[e]) = Len(out[e]) + 1 /\ Len(out[e]) \in Nat
        /\ \A i \in 1 .. Len(out[e]) : out'[e][i] = out[e][i]
        /\ out'[e][Len(out[e]) + 1] = x
    BY <1>2, <2>2, <2>3, AppendFacts
  <2>5. \A i \in 1 .. Len(out'[e]) : i \in 1 .. Len(out[e]) \/ i = Len(out[e]) + 1
    BY <2>4
  <2>6. \A i \in 1 .. Len(out[e]) : out[e][i].kind # "bestmove"
    BY <1>4, <2>1 DEF Plays
  <2>7. Final(out'[e], "bestmove")
    BY <1>2, <2>2, <2>3, <2>6, QuietAppend
  <2>8. \A i \in 1 .. Len(out'[e]) : out'[e][i].kind # "bestmove"
    BY <2>2, <2>4, <2>5, <2>6
  <2>9. \A i \in 1 .. Len(out'[e]) :
          \/ Dull(out'[e][i])
          \/ out'[e][i].kind \in {"info", "bestmove"} /\ out'[e][i].go = Tag
    BY <2>1, <2>2, <2>4, <2>5 DEF Plays
  <2>10. Plays(e)'
    BY <1>0, <1>4, <2>1, <2>7, <2>8, <2>9 DEF Plays
  <2> QED BY <1>0, <1>5, <1>6, <2>10 DEF Piped
<1> QED BY <1>7, <1>8

LEMMA AnswerPiped ==
  ASSUME TypeOK, NEW e \in Players, Answer(e), Piped(e), Thinks(e), SameScene
  PROVE  Piped(e)' /\ Thinks(e)'
<1>0. /\ Sound(e)' = Sound(e) /\ Asked(e)' = Asked(e) /\ Moving(e)' = Moving(e)
      /\ Expected' = Expected /\ Tag' = Tag
  BY Scene
<1>2. /\ out \in [Players -> Seq(LineType)] /\ out[e] \in Seq(LineType) /\ search[e].go \in Tags
      /\ proc \in [Players -> {"idle", "thinking", "hung", "babbling", "dead"}]
      /\ proc[e] = "thinking" /\ search[e].node \in DOMAIN Graph
  BY DEF TypeOK, EngineTypeOK, Answer
<1>1. PICK id \in Nat : out' = [out EXCEPT ![e] = Append(@, Bestmove(search[e].go, id))]
  <2>1. PICK id \in {m.id : m \in Graph[search[e].node].moves}
                      \cup (IF sc.illegal THEN {NoMove} ELSE {}) :
          out' = [out EXCEPT ![e] = Append(@, Bestmove(search[e].go, id))]
    BY DEF Answer, Write
  <2>2. \A m \in Graph[search[e].node].moves : m.id \in Nat
    BY <1>2, GraphAssumption
  <2> QED BY <2>1, <2>2 DEF NoMove
<1>4. /\ proc'[e] = "idle" /\ inbox' = inbox /\ last_info' = last_info
  BY <1>2 DEF Answer, UNCHANGED_Harness, gameVars
<1>5. Thinks(e)'
  BY <1>0, <1>2, <1>4 DEF Thinks, Dead
<1>6. Moving(e) /\ ~Asked(e)
  BY <1>2 DEF Thinks, Asked, Awaiting, Moving, Thinking
<1>7. CASE ~Sound(e)
  BY <1>0, <1>5, <1>7 DEF Piped
<1>8. CASE Sound(e)
  <2> DEFINE x == Bestmove(search[e].go, id)
  <2>1. Plays(e)
    BY <1>6, <1>8 DEF Piped
  <2>2. x \in LineType /\ x.kind = "bestmove" /\ x.go = Tag
    BY <1>2, <2>1, Lines DEF Plays
  <2>3. out'[e] = Append(out[e], x)
    BY <1>1, <1>2
  <2> HIDE DEF x
  <2>4. /\ Len(out'[e]) = Len(out[e]) + 1 /\ Len(out[e]) \in Nat
        /\ \A i \in 1 .. Len(out[e]) : out'[e][i] = out[e][i]
        /\ out'[e][Len(out[e]) + 1] = x
    BY <1>2, <2>2, <2>3, AppendFacts
  <2>5. \A i \in 1 .. Len(out'[e]) : i \in 1 .. Len(out[e]) \/ i = Len(out[e]) + 1
    BY <2>4
  <2>6. \A i \in 1 .. Len(out[e]) : out[e][i].kind # "bestmove"
    BY <1>2, <2>1 DEF Plays
  <2>7. Final(out'[e], "bestmove")
    BY <1>2, <2>2, <2>3, <2>6, QuietAppend
  <2>9. \A i \in 1 .. Len(out'[e]) :
          \/ Dull(out'[e][i])
          \/ out'[e][i].kind \in {"info", "bestmove"} /\ out'[e][i].go = Tag
    BY <2>1, <2>2, <2>4, <2>5 DEF Plays
  <2>10. inbox[e] = <<>>
    BY <1>2, <2>1 DEF Plays
  <2>11. Plays(e)'
    BY <1>0, <1>4, <2>1, <2>7, <2>9, <2>10 DEF Plays
  <2> QED BY <1>0, <1>5, <1>6, <2>11 DEF Piped
<1> QED BY <1>7, <1>8

LEMMA EnginesPiped ==
  ASSUME TypeOK, PipeInv, ThinkInv, TurnInv, MissedInv, NEW e \in Players,
         Engine(e) \/ Fault(e) \/ Babble(e)
  PROVE  PipeInv' /\ ThinkInv' /\ TurnInv' /\ MissedInv'
<1>1. SameScene /\ last_info' = last_info
  BY DEF Engine, Fault, Babble, Read, Tell, Answer, Crash, Hang, StartBabbling, Break,
         UNCHANGED_Harness, SameScene, gameVars
<1>2. ASSUME NEW p \in Players, p # e PROVE Untouched(p)
  <2>1. proc'[p] = proc[p] /\ inbox'[p] = inbox[p] /\ search'[p] = search[p]
    BY <1>2 DEF Engine, Fault, Babble, Read, Tell, Answer, Crash, Hang, StartBabbling, Break,
         TypeOK, EngineTypeOK
  <2>2. out'[p] = out[p]
    BY <1>2 DEF Engine, Fault, Babble, Read, Tell, Answer, Crash, Hang, StartBabbling, Break,
         Write, TypeOK, EngineTypeOK
  <2> QED BY <1>1, <2>1, <2>2 DEF Untouched
<1>3. Piped(e) /\ Thinks(e)
  BY DEF PipeInv, ThinkInv
<1>4. CASE Read(e) \/ Tell(e) \/ Answer(e)
  BY <1>1, <1>2, <1>3, <1>4, ReadPiped, TellPiped, AnswerPiped, EngineStep
<1>5. CASE Fault(e) \/ Babble(e)
  <2>1. PICK x \in {Line("eof"), Line("info")} : out'[e] = Append(out[e], x) \/ out'[e] = out[e]
    BY <1>5 DEF Fault, Babble, Crash, Hang, StartBabbling, Break, Write, TypeOK, EngineTypeOK
  <2>2. x \in LineType /\ Dull(x)
    BY Lines DEF Dull
  <2>3. proc'[e] # "thinking" /\ (Dead(e) => Dead(e)') /\ inbox'[e] = inbox[e]
    BY <1>5 DEF Fault, Babble, Crash, Hang, StartBabbling, Break, Dead, TypeOK, EngineTypeOK
  <2>4. Piped(e)' /\ Thinks(e)'
    BY <1>1, <1>3, <2>1, <2>2, <2>3, DullLine
  <2> QED BY <1>1, <1>2, <2>4, EngineStep
<1> QED BY <1>4, <1>5 DEF Engine

-----------------------------------------------------------------------------
\* The worker.  Steps that leave the scene as it is.
LEMMA SceneKept ==
  ASSUME TypeOK, PipeInv, ThinkInv, TurnInv, MissedInv, SameScene,
         \A p \in Players : Untouched(p)
  PROVE  PipeInv' /\ ThinkInv' /\ TurnInv' /\ MissedInv'
<1>1. ASSUME NEW p \in Players PROVE Piped(p)' /\ Thinks(p)'
  <2>1. Untouched(p) /\ Piped(p) /\ Thinks(p)
    BY DEF PipeInv, ThinkInv
  <2> QED BY <2>1, OthersPiped
<1>0. Thinking' = Thinking /\ Mover' = Mover /\ Leaving' = Leaving
  BY Scene, PlayerTypes
<1>2. TurnInv'
  BY <1>0 DEF TurnInv, SameScene
<1>3. MissedInv'
  BY <1>0 DEF MissedInv, SameScene
<1> QED BY <1>1, <1>2, <1>3 DEF PipeInv, ThinkInv

LEMMA PassedOver ==
  ASSUME TypeOK, SameScene, NEW e \in Players, Piped(e), Thinks(e), out[e] # <<>>,
         out'[e] = Tail(out[e]), proc'[e] = proc[e], inbox'[e] = inbox[e],
         search'[e] = search[e],
         \/ last_info'[e] = last_info[e]
         \/ Head(out[e]).score # NoScore /\ last_info'[e].go = Head(out[e]).go
  PROVE  Piped(e)' /\ Thinks(e)'
<1>0. /\ Sound(e)' = Sound(e) /\ Asked(e)' = Asked(e) /\ Moving(e)' = Moving(e)
      /\ Expected' = Expected /\ Tag' = Tag
  BY Scene
<1>1. out[e] \in Seq(LineType)
  BY DEF TypeOK, EngineTypeOK
<1>2. /\ Quiets(out[e]) => Quiets(out'[e])
      /\ \A k : Final(out[e], k) => Final(out'[e], k)
  BY <1>1, QuietTail
<1>3. /\ \A i \in 1 .. Len(out'[e]) : out'[e][i] = out[e][i + 1] /\ i + 1 \in 1 .. Len(out[e])
      /\ Head(out[e]) = out[e][1] /\ 1 \in 1 .. Len(out[e])
  BY <1>1, TailFacts
<1>4. Rests(e) => Rests(e)'
  BY <1>2 DEF Rests
<1>5. Replies(e) => Replies(e)'
  BY <1>0, <1>2, <1>3 DEF Replies, SameScene
<1>6. ASSUME Plays(e) PROVE Plays(e)'
  <2>1. last_info'[e].score # NoScore => last_info'[e].go = Tag
    <3>1. Head(out[e]).score # NoScore => Head(out[e]).go = Tag
      BY <1>3, <1>6 DEF Plays, Dull
    <3> QED BY <1>6, <3>1 DEF Plays
  <2> QED BY <1>0, <1>2, <1>3, <1>6, <2>1 DEF Plays, SameScene
<1>7. Thinks(e)'
  BY <1>0 DEF Thinks, Dead
<1> QED BY <1>0, <1>4, <1>5, <1>6, <1>7 DEF Piped

LEMMA HearPiped ==
  ASSUME TypeOK, PipeInv, ThinkInv, TurnInv, MissedInv, HearOther \/ HearInfo
  PROVE  PipeInv' /\ ThinkInv' /\ TurnInv' /\ MissedInv'
<1>1. PICK e \in Players : e = who
  BY DEF TypeOK, WorkerTypeOK
<1>2. SameScene /\ proc' = proc /\ inbox' = inbox /\ search' = search
      /\ out' = [out EXCEPT ![e] = Tail(@)] /\ out[e] # <<>>
  BY <1>1 DEF HearOther, HearInfo, Heard, Receive, SameScene, gameVars
<1>3. /\ \A p \in Players : p # e => last_info'[p] = last_info[p]
      /\ \/ last_info'[e] = last_info[e]
         \/ Head(out[e]).score # NoScore /\ last_info'[e].go = Head(out[e]).go
  <2>1. CASE HearOther
    BY <2>1 DEF HearOther, gameVars
  <2>2. CASE HearInfo
    BY <1>1, <2>2 DEF HearInfo, TypeOK, GameTypeOK
  <2> QED BY <2>1, <2>2
<1>4. \A p \in Players : p # e => Untouched(p)
  BY <1>2, <1>3 DEF Untouched, TypeOK, EngineTypeOK
<1>5. out'[e] = Tail(out[e])
  BY <1>2 DEF TypeOK, EngineTypeOK
<1>6. Piped(e)' /\ Thinks(e)'
  BY <1>2, <1>3, <1>5, PassedOver DEF PipeInv, ThinkInv
<1> QED BY <1>2, <1>4, <1>6, EngineStep

-----------------------------------------------------------------------------
\* Steps that end a wait: no engine has anything left to say, or to think about.
Settled ==
  \A p \in Players :
    /\ Sound(p)' => inbox[p] = <<>> /\ Quiets(out'[p])
    /\ proc'[p] # "thinking" /\ (Dead(p) => Dead(p)')
    /\ \A i \in 1 .. Len(inbox[p]) : inbox[p][i].op = "go" => Dead(p)'

LEMMA SentHasNoGo ==
  ASSUME TypeOK, NEW e \in Players, NEW ops \in Seq(CommandType),
         \A i \in 1 .. Len(ops) : ops[i].op # "go",
         NEW p \in Players, NEW i \in 1 .. Len(Sent(e, ops)[p]), Sent(e, ops)[p][i].op = "go"
  PROVE  \E j \in 1 .. Len(inbox[p]) : inbox[p][j].op = "go"
<1>1. inbox \in [Players -> Seq(CommandType)] /\ inbox[e] \in Seq(CommandType)
  BY DEF TypeOK, EngineTypeOK
<1>2. CASE p # e \/ Dead(e)
  <2>1. Sent(e, ops)[p] = inbox[p]
    BY <1>1, <1>2 DEF Sent
  <2> QED BY <2>1
<1>3. CASE p = e /\ ~Dead(e)
  <2>1. Sent(e, ops)[p] = inbox[e] \o ops
    BY <1>1, <1>3 DEF Sent
  <2>2. /\ Len(inbox[e] \o ops) = Len(inbox[e]) + Len(ops)
        /\ Len(inbox[e]) \in Nat /\ Len(ops) \in Nat
        /\ \A k \in 1 .. Len(inbox[e]) + Len(ops) :
             (inbox[e] \o ops)[k] = IF k <= Len(inbox[e]) THEN inbox[e][k]
                                    ELSE ops[k - Len(inbox[e])]
    BY <1>1, ConcatProperties, LenProperties
  <2>3. i \in 1 .. Len(inbox[e]) \/ i - Len(inbox[e]) \in 1 .. Len(ops)
    BY <2>1, <2>2
  <2>4. i \in 1 .. Len(inbox[e]) + Len(ops)
    BY <2>1, <2>2
  <2>5. CASE i \in 1 .. Len(inbox[e])
    BY <1>3, <2>1, <2>2, <2>4, <2>5
  <2>6. CASE i \notin 1 .. Len(inbox[e])
    <3>1. ~(i <= Len(inbox[e]))
      BY <2>2, <2>4, <2>6
    <3> QED BY <2>1, <2>2, <2>3, <2>4, <2>6, <3>1
  <2> QED BY <2>5, <2>6
<1> QED BY <1>2, <1>3

LEMMA AllAsk ==
  ASSUME TypeOK, Settled, NEW stage, NEW ops, NEW e \in Players, Asking(stage, ops),
         Ask(stage, e, ops)
  PROVE  PipeInv' /\ ThinkInv' /\ TurnInv'
<1>1. /\ ops \in Seq(CommandType) /\ Len(ops) \in Nat \ {0}
      /\ ops[Len(ops)].op = (IF stage = "uciok" THEN "uci" ELSE "isready")
      /\ \A i \in 1 .. Len(ops) - 1 : ops[i].op \in {"setoption", "ucinewgame"}
      /\ \A i \in 1 .. Len(ops) : ops[i].op # "go"
      /\ stage \in {"uciok", "static", "options", "newgame"}
  BY Questions
<1>2. pc' = stage /\ who' = e /\ inbox' = Sent(e, ops)
  BY DEF Ask
<1>3. ~Thinking' /\ \A p \in Players : ~Moving(p)' /\ (Asked(p)' <=> p = e)
  BY <1>1, <1>2 DEF Thinking, Moving, Asked, Awaiting
<1>4. ASSUME NEW p \in Players PROVE Thinks(p)'
  <2>1. \A i \in 1 .. Len(inbox'[p]) : inbox'[p][i].op = "go" => Dead(p)'
    BY <1>1, <1>2, SentHasNoGo DEF Settled
  <2> QED BY <2>1 DEF Thinks, Settled
<1>5. ASSUME NEW p \in Players, Sound(p)' PROVE Piped(p)'
  <2>1. inbox[p] = <<>> /\ Quiets(out'[p])
    BY <1>5 DEF Settled
  <2>2. CASE p # e \/ Dead(e)
    <3>1. inbox'[p] = <<>>
      BY <1>1, <1>2, <2>1, <2>2, SentType DEF TypeOK
    <3>2. Rests(p)'
      BY <2>1, <3>1 DEF Rests
    <3>3. Replies(p)'
      BY <2>1, <3>1 DEF Replies, Quiets, Final
    <3> QED BY <1>3, <3>2, <3>3 DEF Piped
  <2>3. CASE p = e /\ ~Dead(e)
    <3>1. inbox'[p] = ops
      BY <1>1, <1>2, <2>1, <2>3, SentType DEF TypeOK
    <3>2. Replies(p)'
      BY <1>1, <1>2, <2>1, <3>1 DEF Replies, Quiets, Final
    <3> QED BY <1>3, <2>3, <3>2 DEF Piped
  <2> QED BY <2>2, <2>3
<1> QED BY <1>3, <1>4, <1>5 DEF PipeInv, Piped, ThinkInv, TurnInv

LEMMA AllStop ==
  ASSUME TypeOK, Settled, pc' \in {"ready", "paired"}, inbox' = inbox
  PROVE  PipeInv' /\ ThinkInv' /\ TurnInv'
<1>1. ~Thinking' /\ \A p \in Players : ~Moving(p)' /\ ~Asked(p)'
  BY DEF Thinking, Moving, Asked, Awaiting
<1>2. ASSUME NEW p \in Players PROVE Thinks(p)' /\ Piped(p)'
  BY <1>1 DEF Settled, Thinks, Piped, Rests
<1> QED BY <1>1, <1>2 DEF PipeInv, ThinkInv, TurnInv

LEMMA AllLeave ==
  ASSUME TypeOK, Leaving',
         \A p \in Players : /\ proc'[p] # "thinking" /\ (Dead(p) => Dead(p)')
                            /\ \A i \in 1 .. Len(inbox[p]) : inbox[p][i].op = "go" => Dead(p)',
         inbox' = inbox \/ \E e \in Players : inbox' = Sent(e, <<Cmd("quit")>>)
  PROVE  PipeInv' /\ ThinkInv' /\ TurnInv' /\ MissedInv'
<1>1. ~Thinking' /\ \A p \in Players : ~Moving(p)' /\ ~Sound(p)'
  BY DEF Thinking, Moving, Leaving, Sound
<1>2. ASSUME NEW p \in Players PROVE Thinks(p)'
  <2>1. \A i \in 1 .. Len(inbox'[p]) : inbox'[p][i].op = "go" => Dead(p)'
    <3>1. CASE inbox' = inbox
      BY <3>1
    <3>2. ASSUME NEW e \in Players, inbox' = Sent(e, <<Cmd("quit")>>)
          PROVE  \A i \in 1 .. Len(inbox'[p]) : inbox'[p][i].op = "go" => Dead(p)'
      <4>1. PICK ops \in Seq(CommandType) : ops = <<Cmd("quit")>>
        BY OtherCommands
      <4>2. \A i \in 1 .. Len(ops) : ops[i].op # "go"
        BY <4>1, OtherCommands
      <4> QED BY <3>2, <4>1, <4>2, SentHasNoGo
    <3> QED BY <3>1, <3>2
  <2> QED BY <2>1 DEF Thinks
<1> QED BY <1>1, <1>2 DEF PipeInv, Piped, ThinkInv, TurnInv, MissedInv

LEMMA AllGo ==
  ASSUME TypeOK, Settled, NEW p \in PositionType, NEW l \in {0, 1}, AskMove(p, l),
         pos' = p, leg' = l, pair' = pair, outcome' = GoesOn
  PROVE  PipeInv' /\ ThinkInv' /\ TurnInv'
<1>1. PICK e \in Players :
        /\ e = PlayerOf(side_to_move(p), l)
        /\ Ask("bestmove", e, <<GoCmd(GoTag(p, l), Last(p.history))>>)
        /\ last_info' = [last_info EXCEPT ![e] = NoInfo]
  BY NodeType, PlayerTypes DEF AskMove, ForgetInfo
<1>2. PICK ops \in Seq(CommandType) : ops = <<GoCmd(GoTag(p, l), Last(p.history))>>
  BY OtherCommands, NodeType, TagType DEF TypeOK
<1>3. pc' = "bestmove" /\ who' = e /\ inbox' = Sent(e, ops)
  BY <1>1, <1>2 DEF Ask
<1>4. Thinking' /\ \A q \in Players : (Moving(q)' <=> q = e) /\ ~Asked(q)'
  BY <1>3 DEF Thinking, Moving, Asked, Awaiting
<1>5. Tag' = GoTag(p, l)
  BY DEF Tag, GoTag
<1>6. TurnInv'
  BY <1>1, <1>3 DEF TurnInv, Mover, side_to_move, Node, PlayerOf
<1>7. ASSUME NEW q \in Players PROVE Piped(q)' /\ Thinks(q)'
  <2>1. CASE q # e
    <3>1. inbox'[q] = inbox[q]
      BY <1>3, <2>1, SentType DEF TypeOK
    <3> QED BY <1>4, <2>1, <3>1 DEF Settled, Thinks, Piped, Rests
  <2>2. CASE q = e
    <3>1. inbox'[q] \in {inbox[q], inbox[q] \o ops}
      BY <1>3, <2>2 DEF Sent, TypeOK, EngineTypeOK
    <3>2. Thinks(q)'
      BY <1>4, <2>2 DEF Thinks
    <3>3. ASSUME Sound(q)' PROVE Plays(q)'
      <4>1. inbox[q] = <<>> /\ Quiets(out'[q]) /\ proc'[q] # "thinking"
        BY <3>3 DEF Settled
      <4>2. inbox'[q] \in {<<>>, ops}
        BY <3>1, <4>1
      <4>3. last_info'[q].score = NoScore
        BY <1>1, <2>2 DEF NoInfo, TypeOK, GameTypeOK
      <4> QED BY <1>2, <1>5, <4>1, <4>2, <4>3 DEF Plays, Quiets, Final
    <3> QED BY <1>4, <2>2, <3>2, <3>3 DEF Piped
  <2> QED BY <2>1, <2>2
<1> QED BY <1>6, <1>7 DEF PipeInv, ThinkInv

LEMMA NobodyThinks ==
  ASSUME TypeOK, ThinkInv, ~Thinking
  PROVE  \A p \in Players :
           /\ proc[p] # "thinking"
           /\ \A i \in 1 .. Len(inbox[p]) : inbox[p][i].op = "go" => Dead(p)
  BY DEF ThinkInv, Thinks, Moving

LEMMA StaysSound ==
  ASSUME TypeOK, lost \subseteq lost', ~Leaving, NEW p \in Players, Sound(p)', missed => missed'
  PROVE  Sound(p) /\ ~Leaving'
  BY DEF Sound, Dirty

LEMMA AnsweredPiped ==
  ASSUME TypeOK, PipeInv, ThinkInv, MissedInv, HearAnswer
  PROVE  PipeInv' /\ ThinkInv' /\ TurnInv' /\ MissedInv'
<1>0. PICK e \in Players : e = who
  BY DEF TypeOK, WorkerTypeOK
<1>1. /\ ~Leaving /\ ~Thinking /\ Awaiting /\ lost' = lost /\ proc' = proc /\ pair' = pair
      /\ out[e] # <<>> /\ Head(out[e]).kind = Expected /\ out' = [out EXCEPT ![e] = Tail(@)]
  BY <1>0 DEF HearAnswer, Awaiting, Leaving, Thinking, Heard, Receive
<1>2. \A p \in Players : p # e => out'[p] = out[p]
  BY <1>1 DEF TypeOK, EngineTypeOK
<1>3. Sound(e) => inbox[e] = <<>> /\ Quiets(out'[e])
  <2> SUFFICES ASSUME Sound(e) PROVE inbox[e] = <<>> /\ Quiets(out'[e])
    OBVIOUS
  <2>1. Replies(e)
    BY <1>0, <1>1 DEF PipeInv, Piped, Asked
  <2>2. out[e] \in Seq(LineType) /\ out'[e] = Tail(out[e])
    BY <1>1 DEF TypeOK, EngineTypeOK
  <2>3. Quiets(out'[e])
    BY <1>1, <2>1, <2>2, QuietTail DEF Replies
  <2>4. Head(out[e]) = out[e][1] /\ 1 \in 1 .. Len(out[e])
    BY <1>1, <2>2, TailFacts
  <2>5. ~Quiets(out[e])
    BY <1>1, <2>4 DEF Quiets, Dull, Expected
  <2> QED BY <2>1, <2>3, <2>5 DEF Replies
<1>4. ASSUME missed => missed' PROVE Settled
  <2>1. ASSUME NEW p \in Players, Sound(p)' PROVE inbox[p] = <<>> /\ Quiets(out'[p])
    <3>1. Sound(p)
      BY <1>1, <1>4, <2>1, StaysSound
    <3>2. CASE p = e
      BY <1>3, <3>1, <3>2
    <3>3. CASE p # e
      <4>1. Rests(p)
        BY <1>0, <1>1, <3>1, <3>3 DEF PipeInv, Piped, Asked, Moving
      <4> QED BY <1>2, <3>3, <4>1 DEF Rests
    <3> QED BY <3>2, <3>3
  <2> QED BY <1>1, <2>1, NobodyThinks DEF Settled, Dead
<1>5. ASSUME NEW stage, NEW ops, NEW q \in Players, Asking(stage, ops), Ask(stage, q, ops),
             UNCHANGED missed, ~missed
      PROVE  PipeInv' /\ ThinkInv' /\ TurnInv' /\ MissedInv'
  BY <1>4, <1>5, AllAsk DEF MissedInv
<1>6. ASSUME NEW stage \in {"static", "newgame"}, NEW ops, Asking(stage, ops),
             InTurn(stage, ops, TRUE)
      PROVE  PipeInv' /\ ThinkInv' /\ TurnInv' /\ MissedInv'
  <2>1. who = "engine" /\ Ask(stage, "opponent", ops) /\ missed' = FALSE
    BY <1>6 DEF InTurn
  <2>2. ~missed
    BY <1>1, <2>1 DEF MissedInv
  <2>3. Settled
    BY <1>4, <2>2
  <2> QED BY <1>6, <2>1, <2>3, AllAsk, PlayerTypes DEF MissedInv
<1>7. pc \in {"uciok", "options"} \/ ~missed => ~missed
  BY <1>1 DEF MissedInv
<1> USE PlayerTypes
<1>11. CASE pc = "uciok" /\ Ask("uciok", "opponent", <<Cmd("uci")>>) /\ Keep /\ UNCHANGED missed
  BY <1>5, <1>7, <1>11 DEF Asking
<1>12. CASE pc = "uciok" /\ Ask("static", "engine", <<Cmd("isready")>>) /\ Keep /\ UNCHANGED missed
  BY <1>5, <1>7, <1>12 DEF Asking
<1>13. CASE InTurn("static", <<Cmd("isready")>>, TRUE)
  BY <1>6, <1>13 DEF Asking
<1>14. CASE ~missed /\ pc' = "ready" /\ Keep /\ UNCHANGED <<who, inbox, missed>>
  BY <1>4, <1>14, AllStop DEF MissedInv
<1>15. CASE pc = "options" /\ Ask("options", "opponent", Options) /\ Keep /\ UNCHANGED missed
  BY <1>5, <1>7, <1>15 DEF Asking
<1>16. CASE pc = "options" /\ Ask("newgame", "engine", NewGame) /\ Keep /\ UNCHANGED missed
  BY <1>5, <1>7, <1>16 DEF Asking
<1>17. CASE InTurn("newgame", NewGame, TRUE)
  BY <1>6, <1>17 DEF Asking
<1>18. CASE ~missed /\ StartGame /\ UNCHANGED seen
  <2>1. /\ AskMove(StartPosition, leg) /\ pos' = StartPosition /\ leg' = leg /\ outcome' = GoesOn
        /\ missed' = missed
    BY <1>18 DEF StartGame
  <2>2. PICK l \in {0, 1} : l = leg
    BY DEF TypeOK, WorkerTypeOK
  <2>3. PipeInv' /\ ThinkInv' /\ TurnInv'
    BY <1>1, <1>4, <2>1, <2>2, AllGo, StartType
  <2> QED BY <1>18, <2>1, <2>3 DEF MissedInv
<1>19. CASE Fail
  <2>1. Leaving' /\ inbox' = Sent("engine", <<Cmd("quit")>>)
    BY <1>19 DEF Fail, BeginShutdown, Ask, Leaving
  <2> QED BY <1>1, <2>1, NobodyThinks, AllLeave DEF Dead
<1> QED BY <1>11, <1>12, <1>13, <1>14, <1>15, <1>16, <1>17, <1>18, <1>19 DEF HearAnswer, Answered

LEMMA UnansweredPiped ==
  ASSUME TypeOK, PipeInv, ThinkInv, MissedInv, HearEnd \/ NoAnswer \/ Slow
  PROVE  PipeInv' /\ ThinkInv' /\ TurnInv' /\ MissedInv'
<1>1. /\ ~Leaving /\ ~Thinking /\ Awaiting /\ lost' = lost /\ proc' = proc /\ pair' = pair
      /\ out' = out /\ Unanswered
  BY DEF HearEnd, NoAnswer, Slow, Awaiting, Leaving, Thinking
<1>2. ASSUME NEW stage \in {"static", "newgame"}, NEW ops, Asking(stage, ops),
             InTurn(stage, ops, FALSE)
      PROVE  PipeInv' /\ ThinkInv' /\ TurnInv' /\ MissedInv'
  <2>1. who = "engine" /\ Ask(stage, "opponent", ops) /\ missed' = TRUE
    BY <1>2 DEF InTurn
  <2>2. ASSUME NEW p \in Players, Sound(p)' PROVE inbox[p] = <<>> /\ Quiets(out'[p])
    <3>1. Sound(p)
      BY <1>1, <2>1, <2>2, StaysSound
    <3>2. p # who
      BY <2>1, <2>2 DEF Sound, Dirty
    <3>3. Rests(p)
      BY <1>1, <3>1, <3>2 DEF PipeInv, Piped, Asked, Moving
    <3> QED BY <1>1, <3>3 DEF Rests
  <2>3. Settled
    BY <1>1, <2>2, NobodyThinks DEF Settled, Dead
  <2>4. MissedInv'
    BY <2>1 DEF MissedInv, Ask
  <2> QED BY <1>2, <2>1, <2>3, <2>4, AllAsk, PlayerTypes
<1>3. CASE Fail
  <2>1. Leaving' /\ inbox' = Sent("engine", <<Cmd("quit")>>)
    BY <1>3 DEF Fail, BeginShutdown, Ask, Leaving
  <2> QED BY <1>1, <2>1, NobodyThinks, AllLeave, PlayerTypes DEF Dead
<1>4. CASE InTurn("static", <<Cmd("isready")>>, FALSE)
  BY <1>2, <1>4 DEF Asking
<1>5. CASE InTurn("newgame", NewGame, FALSE)
  BY <1>2, <1>5 DEF Asking
<1> QED BY <1>1, <1>3, <1>4, <1>5 DEF Unanswered

LEMMA EndPiped ==
  ASSUME TypeOK, Settled, NEW o, End(o), missed' = missed, ~missed
  PROVE  PipeInv' /\ ThinkInv' /\ TurnInv' /\ MissedInv'
<1>1. CASE Ask("newgame", "engine", NewGame)
  BY <1>1, AllAsk, PlayerTypes DEF Asking, MissedInv
<1>2. CASE pc' = "paired" /\ UNCHANGED <<who, inbox>>
  BY <1>2, AllStop DEF MissedInv
<1> QED BY <1>1, <1>2 DEF End

LEMMA BestmovePiped ==
  ASSUME TypeOK, PipeInv, ThinkInv, TurnInv, MissedInv, LostInv, HearBestmove
  PROVE  PipeInv' /\ ThinkInv' /\ TurnInv' /\ MissedInv'
<1>0. PICK e \in Players : e = who
  BY DEF TypeOK, WorkerTypeOK
<1>1. /\ ~Leaving /\ Thinking /\ lost' = lost /\ proc' = proc /\ pair' = pair /\ missed' = missed
      /\ out[e] # <<>> /\ Head(out[e]).kind = "bestmove" /\ out' = [out EXCEPT ![e] = Tail(@)]
  BY <1>0 DEF HearBestmove, Leaving, Thinking, Heard, Receive
<1>2. ~missed /\ lost = {}
  BY <1>1 DEF MissedInv, LostInv, BothPlay, Thinking
<1>3. \A p \in Players : Sound(p)
  BY <1>1, <1>2 DEF Sound, Dirty
<1>4. Plays(e) /\ Moving(e)
  BY <1>0, <1>1, <1>3 DEF PipeInv, Piped, Moving
<1>5. out[e] \in Seq(LineType) /\ out'[e] = Tail(out[e])
  BY <1>1 DEF TypeOK, EngineTypeOK
<1>6. Quiets(out'[e])
  BY <1>1, <1>4, <1>5, QuietTail DEF Plays
<1>7. Head(out[e]) = out[e][1] /\ 1 \in 1 .. Len(out[e])
  BY <1>1, <1>5, TailFacts
<1>8. ~Quiets(out[e]) /\ proc[e] # "thinking"
  BY <1>1, <1>4, <1>7 DEF Quiets, Dull, Plays
<1>9. inbox[e] = <<>>
  BY <1>4, <1>8 DEF Plays
<1>10. Settled
  <2>1. ASSUME NEW p \in Players, p # e
        PROVE  /\ inbox[p] = <<>> /\ Quiets(out'[p]) /\ proc'[p] # "thinking"
    <3>1. ~Moving(p) /\ ~Asked(p)
      BY <1>0, <1>1, <2>1 DEF Moving, Asked, Awaiting, Thinking
    <3>2. Rests(p) /\ proc[p] # "thinking"
      BY <1>3, <3>1 DEF PipeInv, Piped, ThinkInv, Thinks
    <3>3. out'[p] = out[p]
      BY <1>1, <2>1 DEF TypeOK, EngineTypeOK
    <3> QED BY <1>1, <3>2, <3>3 DEF Rests
  <2>2. \A p \in Players : inbox[p] = <<>> /\ Quiets(out'[p]) /\ proc'[p] # "thinking"
    BY <1>1, <1>6, <1>8, <1>9, <2>1
  <2> QED BY <1>1, <2>2 DEF Settled, Dead
<1>11. CASE \E o : End(o)
  <2>1. PICK o : End(o)
    BY <1>11
  <2> QED BY <1>1, <1>2, <1>10, <2>1, EndPiped
<1>12. ASSUME IsLegal(pos, Head(out[e]).move),
              AskMove(MoveTo(pos, MoveOf(pos, Head(out[e]).move), last_info[e].score), leg),
              pos' = MoveTo(pos, MoveOf(pos, Head(out[e]).move), last_info[e].score),
              UNCHANGED <<reports, leg, outcome, won>>
       PROVE  PipeInv' /\ ThinkInv' /\ TurnInv' /\ MissedInv'
  <2>1. MoveOf(pos, Head(out[e]).move) \in MoveType /\ pos \in PositionType
        /\ last_info[e].score \in ScoreType
    BY <1>12, NodeType DEF IsLegal, MoveOf, TypeOK, GameTypeOK
  <2>2. PICK p \in PositionType : p = MoveTo(pos, MoveOf(pos, Head(out[e]).move), last_info[e].score)
    BY <2>1, MoveToType
  <2>3. PICK l \in {0, 1} : l = leg
    BY DEF TypeOK, WorkerTypeOK
  <2>4. AskMove(p, l) /\ pos' = p /\ leg' = l
    BY <1>12, <2>2, <2>3
  <2>5. outcome' = GoesOn
    BY <1>1, <1>12 DEF TurnInv
  <2> QED BY <1>1, <1>2, <1>10, <2>4, <2>5, AllGo DEF MissedInv
<1>13. \/ \E o : End(o)
       \/ /\ IsLegal(pos, Head(out[e]).move)
          /\ AskMove(MoveTo(pos, MoveOf(pos, Head(out[e]).move), last_info[e].score), leg)
          /\ pos' = MoveTo(pos, MoveOf(pos, Head(out[e]).move), last_info[e].score)
          /\ UNCHANGED <<reports, leg, outcome, won>>
  BY <1>0 DEF HearBestmove
<1> QED BY <1>11, <1>12, <1>13

LEMMA LosePiped ==
  ASSUME TypeOK, PipeInv, ThinkInv, MissedInv, LostInv, HearExit \/ WatchdogExpires
  PROVE  PipeInv' /\ ThinkInv' /\ TurnInv' /\ MissedInv'
<1>0. PICK e \in Players : e = who
  BY DEF TypeOK, WorkerTypeOK
<1>1. /\ ~Leaving /\ Thinking /\ missed' = missed /\ lost' = lost \cup {e}
      /\ End(Over("illegal", Mover))
  BY <1>0 DEF HearExit, WatchdogExpires, TimerFires, Lose, Leaving, Thinking
<1>2. /\ \A p \in Players : p # e => out'[p] = out[p] /\ proc'[p] = proc[p]
      /\ proc'[e] = "dead"
  BY <1>0 DEF HearExit, WatchdogExpires, KillEngine, Dead, TypeOK, EngineTypeOK
<1>3. ~missed /\ lost = {}
  BY <1>1 DEF MissedInv, LostInv, BothPlay, Thinking
<1>4. ASSUME NEW p \in Players, p # e
      PROVE  /\ inbox[p] = <<>> /\ Quiets(out'[p]) /\ proc'[p] # "thinking"
  <2>1. ~Moving(p) /\ ~Asked(p)
    BY <1>0, <1>1, <1>4 DEF Moving, Asked, Awaiting, Thinking
  <2>2. Rests(p) /\ proc[p] # "thinking"
    BY <1>1, <1>3, <2>1 DEF PipeInv, Piped, ThinkInv, Thinks, Sound, Dirty
  <2> QED BY <1>2, <1>4, <2>2 DEF Rests
<1>5. Settled
  <2>1. ~Sound(e)'
    BY <1>1 DEF Sound
  <2> QED BY <1>1, <1>2, <1>4, <2>1 DEF Settled, Dead
<1> QED BY <1>1, <1>3, <1>5, EndPiped

LEMMA BetweenPiped ==
  ASSUME TypeOK, PipeInv, ThinkInv, MissedInv, Take \/ HungUp \/ ReportPair
  PROVE  PipeInv' /\ ThinkInv' /\ TurnInv' /\ MissedInv'
<1>1. /\ pc \in {"ready", "paired"} /\ missed' = missed /\ lost' = lost /\ proc' = proc
      /\ out' = out
  BY DEF Take, HungUp, ReportPair, engineVars
<1>2. ~Leaving /\ ~Thinking /\ ~missed /\ \A p \in Players : ~Asked(p) /\ ~Moving(p)
  BY <1>1 DEF Leaving, Thinking, MissedInv, Asked, Awaiting, Moving
<1>3. Settled
  <2>1. ASSUME NEW p \in Players, Sound(p)' PROVE inbox[p] = <<>> /\ Quiets(out'[p])
    <3>1. Sound(p)
      BY <1>1, <1>2, <2>1, StaysSound
    <3>2. Rests(p)
      BY <1>2, <3>1 DEF PipeInv, Piped
    <3> QED BY <1>1, <3>2 DEF Rests
  <2> QED BY <1>1, <1>2, <2>1, NobodyThinks DEF Settled, Dead
<1>4. CASE BeginShutdown
  <2>1. Leaving' /\ inbox' = Sent("engine", <<Cmd("quit")>>)
    BY <1>4 DEF BeginShutdown, Ask, Leaving
  <2> QED BY <1>1, <1>2, <2>1, NobodyThinks, AllLeave, PlayerTypes DEF Dead
<1>5. CASE \E e \in Players : Ask("options", e, Options)
  <2>1. PICK e \in Players : Ask("options", e, Options)
    BY <1>5
  <2>2. PipeInv' /\ ThinkInv' /\ TurnInv'
    BY <1>3, <2>1, AllAsk DEF Asking
  <2> QED BY <1>1, <1>2, <2>2 DEF MissedInv
<1>6. CASE ReportPair
  <2>1. pc' = "ready" /\ inbox' = inbox
    BY <1>6 DEF ReportPair, engineVars
  <2> QED BY <1>1, <1>2, <1>3, <2>1, AllStop DEF MissedInv
<1> QED BY <1>4, <1>5, <1>6, PlayerTypes DEF Take, HungUp

LEMMA LeavingPiped ==
  ASSUME TypeOK, ThinkInv, Reap \/ JoinReader
  PROVE  PipeInv' /\ ThinkInv' /\ TurnInv' /\ MissedInv'
<1>1. ~Thinking /\ Leaving'
  BY DEF Reap, JoinReader, Leaving, Thinking, Ask
<1>2. \A p \in Players : /\ proc'[p] # "thinking" /\ (Dead(p) => Dead(p)')
                         /\ \A i \in 1 .. Len(inbox[p]) : inbox[p][i].op = "go" => Dead(p)'
  <2>1. \A p \in Players : proc'[p] = proc[p] \/ proc'[p] = "dead"
    BY DEF Reap, JoinReader, KillEngine, TypeOK, EngineTypeOK, WorkerTypeOK
  <2> QED BY <1>1, <2>1, NobodyThinks DEF Dead
<1>3. inbox' = inbox \/ \E e \in Players : inbox' = Sent(e, <<Cmd("quit")>>)
  BY PlayerTypes DEF Reap, JoinReader, Ask
<1> QED BY <1>1, <1>2, <1>3, AllLeave

LEMMA PipeStep ==
  ASSUME TypeOK, PipeInv, ThinkInv, TurnInv, MissedInv, LostInv, [Next]_vars
  PROVE  PipeInv' /\ ThinkInv' /\ TurnInv' /\ MissedInv'
<1>1. CASE HearAnswer
  BY <1>1, AnsweredPiped
<1>2. CASE HearOther \/ HearInfo
  BY <1>2, HearPiped
<1>3. CASE HearEnd \/ NoAnswer \/ Slow
  BY <1>3, UnansweredPiped
<1>4. CASE Take \/ HungUp \/ ReportPair
  BY <1>4, BetweenPiped
<1>5. CASE HearBestmove
  BY <1>5, BestmovePiped
<1>6. CASE HearExit \/ WatchdogExpires
  BY <1>6, LosePiped
<1>7. CASE Reap \/ JoinReader
  BY <1>7, LeavingPiped
<1>8. CASE WaitAgain \/ Tick \/ Nap \/ Command \/ Dismiss \/ Drop \/ UNCHANGED vars
  <2>1. SameScene /\ \A p \in Players : Untouched(p)
    BY <1>8 DEF WaitAgain, Tick, Nap, Command, Dismiss, Drop, UNCHANGED_Worker, vars, gameVars,
         engineVars, SameScene, Untouched
  <2> QED BY <2>1, SceneKept
<1>9. ASSUME NEW e \in Players, Engine(e) \/ Fault(e) \/ Babble(e)
      PROVE  PipeInv' /\ ThinkInv' /\ TurnInv' /\ MissedInv'
  BY <1>9, EnginesPiped
<1> QED BY <1>1, <1>2, <1>3, <1>4, <1>5, <1>6, <1>7, <1>8, <1>9
      DEF Next, Harness, Timer, Terminated

-----------------------------------------------------------------------------
\* An engine that was lost says nothing that the worker waits for, and is not played with.
LEMMA LostStays ==
  ASSUME TypeOK, LostInv, NEW e \in lost, [Next]_vars
  PROVE  Dead(e)' /\ e \in lost' /\ Mute(e)'
<1> USE DEF Mute
<1>1. e \in Players /\ proc[e] = "dead" /\ who \in Players /\ out \in [Players -> Seq(LineType)]
      /\ proc \in [Players -> {"idle", "thinking", "hung", "babbling", "dead"}]
  BY DEF LostInv, Dead, TypeOK, WorkerTypeOK, EngineTypeOK
<1>2. \A i \in 1 .. Len(out[e]) : out[e][i].kind \notin {"uciok", "readyok"}
  BY DEF LostInv
<1>3. CASE Harness \/ Timer
  <2>1. e \in lost'
    BY <1>3 DEF Harness, Timer, HearAnswer, HearOther, HearEnd, Take, HungUp, ReportPair,
         HearInfo, HearBestmove, HearExit, Reap, JoinReader, NoAnswer, WatchdogExpires,
         WaitAgain, Lose
  <2>2. proc'[e] = "dead"
    BY <1>1, <1>3 DEF Harness, Timer, HearAnswer, HearOther, HearEnd, Take, HungUp, ReportPair,
         HearInfo, HearBestmove, HearExit, Reap, JoinReader, NoAnswer, WatchdogExpires,
         WaitAgain, KillEngine, engineVars
  <2>3. out'[e] = out[e] \/ (out'[e] = Tail(out[e]) /\ out[e] # <<>>)
    <3>1. (Receive /\ out[who] # <<>>) \/ KillEngine \/ UNCHANGED out
      BY <1>3 DEF Harness, Timer, HearAnswer, HearOther, HearEnd, Take, HungUp, ReportPair,
         HearInfo, HearBestmove, HearExit, Reap, JoinReader, NoAnswer, WatchdogExpires,
         WaitAgain, engineVars, Heard
    <3>2. CASE Receive /\ out[who] # <<>>
      BY <1>1, <3>2 DEF Receive
    <3>3. CASE KillEngine
      BY <1>1, <3>3 DEF KillEngine, Dead
    <3> QED BY <3>1, <3>2, <3>3
  <2>4. out[e] # <<>> => \A i \in 1 .. Len(Tail(out[e])) :
          Tail(out[e])[i] = out[e][i + 1] /\ i + 1 \in 1 .. Len(out[e])
    BY <1>1, TailFacts
  <2>5. \A i \in 1 .. Len(out'[e]) : out'[e][i].kind \notin {"uciok", "readyok"}
    BY <1>2, <2>3, <2>4
  <2> QED BY <2>1, <2>2, <2>5 DEF Dead
<1>4. ASSUME NEW p \in Players, Engine(p) \/ Fault(p) \/ Babble(p)
      PROVE  lost' = lost /\ proc'[e] = proc[e] /\ out'[e] = out[e]
  <2>1. lost' = lost /\ p # e
    BY <1>1, <1>4 DEF Engine, Fault, Babble, Read, Tell, Answer, Crash, Hang, StartBabbling,
         Break, UNCHANGED_Harness
  <2>2. proc'[e] = proc[e]
    BY <1>1, <1>4, <2>1 DEF Engine, Fault, Babble, Read, Tell, Answer, Crash, Hang,
         StartBabbling, Break
  <2>3. out'[e] = out[e]
    BY <1>1, <1>4, <2>1 DEF Engine, Fault, Babble, Read, Tell, Answer, Crash, Hang,
         StartBabbling, Break, Write
  <2> QED BY <2>1, <2>2, <2>3
<1>5. CASE Slow \/ Tick \/ Nap \/ Command \/ Dismiss \/ Drop \/ UNCHANGED vars
  BY <1>1, <1>2, <1>5 DEF Slow, Tick, Nap, Command, Dismiss, Drop, UNCHANGED_Worker, vars,
       gameVars, engineVars, Dead
<1> QED BY <1>1, <1>2, <1>3, <1>4, <1>5 DEF Next, Terminated, Dead

LEMMA LostBySilence ==
  ASSUME TypeOK, PipeInv, MissedInv, LostInv, HearExit \/ WatchdogExpires
  PROVE  lost = {} /\ \E e \in Players : e = who /\ lost' = {e} /\ Dead(e)' /\ Mute(e)'
<1>0. PICK e \in Players : e = who
  BY DEF TypeOK, WorkerTypeOK
<1>1. ~Leaving /\ Thinking /\ lost' = lost \cup {e} /\ who' \in Players
  BY <1>0, PlayerTypes DEF HearExit, WatchdogExpires, TimerFires, Lose, Leaving, Thinking, End, Ask
<1>2. ~missed /\ lost = {}
  BY <1>1 DEF MissedInv, LostInv, BothPlay, Thinking
<1>3. Plays(e)
  BY <1>0, <1>1, <1>2 DEF PipeInv, Piped, Moving, Sound, Dirty
<1>4. proc'[e] = "dead" /\ out'[e] \in {out[e], Append(out[e], Line("eof"))}
  BY <1>0 DEF HearExit, WatchdogExpires, KillEngine, Dead, Ended, TypeOK, EngineTypeOK
<1>5. Mute(e)
  BY <1>3 DEF Plays, Dull, Mute
<1>6. Line("eof") \in LineType /\ Line("eof").kind = "eof" /\ out[e] \in Seq(LineType)
  BY Lines DEF TypeOK, EngineTypeOK
<1>7. /\ Len(Append(out[e], Line("eof"))) = Len(out[e]) + 1 /\ Len(out[e]) \in Nat
      /\ \A i \in 1 .. Len(out[e]) : Append(out[e], Line("eof"))[i] = out[e][i]
      /\ Append(out[e], Line("eof"))[Len(out[e]) + 1] = Line("eof")
  BY <1>6, AppendFacts
<1>8. \A i \in 1 .. Len(Append(out[e], Line("eof"))) : i \in 1 .. Len(out[e]) \/ i = Len(out[e]) + 1
  BY <1>7
<1>9. \A i \in 1 .. Len(Append(out[e], Line("eof"))) :
        Append(out[e], Line("eof"))[i].kind \notin {"uciok", "readyok"}
  BY <1>5, <1>6, <1>7, <1>8 DEF Mute
<1>10. Dead(e)' /\ Mute(e)'
  BY <1>4, <1>5, <1>9 DEF Dead, Mute
<1> QED BY <1>0, <1>1, <1>2, <1>10

LEMMA LostStep ==
  ASSUME TypeOK, PipeInv, MissedInv, LostInv, [Next]_vars
  PROVE  LostInv'
<1>0. who \in Players /\ lost \subseteq Players /\ who \in {"engine", "opponent"}
  BY DEF TypeOK, WorkerTypeOK, Players
<1>1. \A e \in lost' : Dead(e)' /\ Mute(e)'
  <2>1. CASE HearExit \/ WatchdogExpires
    BY <2>1, LostBySilence
  <2>2. CASE ~(HearExit \/ WatchdogExpires)
    <3>1. lost' = lost
      BY <2>2 DEF Next, vars, Harness, Timer, HearAnswer, HearOther, HearEnd, Take, HungUp,
           ReportPair, HearInfo, HearBestmove, Reap, JoinReader, NoAnswer, WaitAgain, Slow, Tick,
           Nap, Engine, Fault, Babble, Read, Tell, Answer, Crash, Hang, StartBabbling, Break,
           UNCHANGED_Harness, Command, Dismiss, Drop, UNCHANGED_Worker, Terminated
    <3> QED BY <3>1, LostStays
  <2> QED BY <2>1, <2>2
<1>2. CASE HearAnswer
  <2>1. who \notin lost
    <3>1. out[who] \in Seq(LineType) /\ out[who] # <<>> /\ Head(out[who]).kind = Expected
      BY <1>0, <1>2 DEF HearAnswer, Heard, TypeOK, EngineTypeOK
    <3>2. Head(out[who]) = out[who][1] /\ 1 \in 1 .. Len(out[who])
      BY <3>1, TailFacts
    <3> QED BY <3>1, <3>2 DEF LostInv, Mute, Expected
  <2>2. lost' = lost /\ sc' = sc /\ Answered
    BY <1>2 DEF HearAnswer
  <2>3. BothPlay'
    <3>1. CASE Fail
      BY <3>1 DEF Fail, BeginShutdown, Ask, BothPlay
    <3>2. CASE /\ pc = "newgame" /\ who = "opponent" /\ ~missed /\ StartGame
      <4>1. pc' = "bestmove"
        BY <3>2 DEF StartGame, AskMove, Ask
      <4>2. lost = {}
        BY <1>0, <2>1, <3>2 DEF LostInv, BothPlay, Players
      <4> QED BY <2>2, <4>1, <4>2 DEF BothPlay
    <3>3. CASE ~Fail /\ ~(pc = "newgame" /\ who = "opponent" /\ ~missed /\ StartGame)
      BY <1>0, <2>1, <2>2, <3>3 DEF Answered, InTurn, Ask, LostInv, BothPlay
    <3> QED BY <3>1, <3>2, <3>3
  <2> QED BY <1>1, <2>3 DEF LostInv
<1>3. CASE HearEnd \/ NoAnswer \/ Slow
  <2>1. lost' = lost /\ sc' = sc /\ Unanswered
    BY <1>3 DEF HearEnd, NoAnswer, Slow
  <2>2. BothPlay'
    BY <2>1 DEF Unanswered, InTurn, Fail, BeginShutdown, Ask, LostInv, BothPlay
  <2> QED BY <1>1, <2>2 DEF LostInv
<1>4. CASE Take
  <2>1. CASE BeginShutdown
    BY <1>1, <2>1 DEF BeginShutdown, Ask, LostInv, BothPlay
  <2>2. CASE ~BeginShutdown
    <3>1. pc' = "options" /\ who' = (IF sc.spsa THEN "engine" ELSE "opponent") /\ sc' = sc
      BY <1>4, <2>2 DEF Take, Ask
    <3>2. sc.spsa \in BOOLEAN
      BY ScenarioFacts DEF TypeOK
    <3> QED BY <1>1, <3>1, <3>2 DEF LostInv, BothPlay
  <2> QED BY <2>1, <2>2
<1>5. CASE HungUp \/ ReportPair \/ Reap \/ JoinReader
  BY <1>1, <1>5 DEF HungUp, BeginShutdown, ReportPair, Reap, JoinReader, Ask, LostInv, BothPlay
<1>6. CASE HearBestmove
  <2>1. lost' = lost /\ sc' = sc /\ pc = "bestmove" /\ pc' \in {"bestmove", "newgame", "paired"}
        /\ (pc' = "newgame" => who' = "engine")
    BY <1>6 DEF HearBestmove, Thinking, End, Ask, AskMove
  <2> QED BY <1>1, <2>1 DEF LostInv, BothPlay
<1>7. CASE HearExit \/ WatchdogExpires
  <2>1. sc' = sc /\ pc' \in {"newgame", "paired"} /\ (pc' = "newgame" => who' = "engine")
    BY <1>7 DEF HearExit, WatchdogExpires, Lose, End, Ask
  <2> QED BY <1>1, <2>1 DEF LostInv, BothPlay
<1>8. CASE UNCHANGED <<sc, pc, who, missed, lost>>
  BY <1>1, <1>8 DEF LostInv, BothPlay
<1>9. ASSUME NEW e \in Players, Engine(e) \/ Fault(e) \/ Babble(e)
      PROVE  UNCHANGED <<sc, pc, who, missed, lost>>
  BY <1>9 DEF Engine, Fault, Babble, Read, Tell, Answer, Crash, Hang, StartBabbling, Break,
       UNCHANGED_Harness
<1>10. HearOther \/ HearInfo \/ WaitAgain \/ Tick \/ Nap \/ Command \/ Dismiss \/ Drop
         \/ UNCHANGED vars => UNCHANGED <<sc, pc, who, missed, lost>>
  BY DEF HearOther, HearInfo, WaitAgain, Tick, Nap, Command, Dismiss, Drop, UNCHANGED_Worker, vars
<1> QED BY <1>2, <1>3, <1>4, <1>5, <1>6, <1>7, <1>8, <1>9, <1>10 DEF Next, Harness, Timer, Terminated

LEMMA SeenStep ==
  ASSUME TypeOK, PipeInv, MissedInv, LostInv, SeenInv, [Next]_vars
  PROVE  SeenInv'
<1>0. seen \in Nat
  BY DEF TypeOK, WorkerTypeOK
<1>1. CASE HearExit \/ WatchdogExpires
  <2>1. lost = {} /\ lost' # {} /\ seen' = seen + 1 /\ ~Leaving
    BY <1>1, LostBySilence DEF HearExit, WatchdogExpires, TimerFires, Thinking, Lose, Leaving
  <2> QED BY <1>0, <2>1 DEF SeenInv
<1>2. CASE HearAnswer \/ HearEnd \/ NoAnswer \/ Slow
  <2>1. ~Leaving /\ lost' = lost
    BY <1>2 DEF HearAnswer, HearEnd, NoAnswer, Slow, Awaiting, Leaving
  <2>2. CASE Fail
    <3>1. Leaving' /\ seen' \in {seen, seen + 1}
      BY <1>0, <2>2 DEF Fail, BeginShutdown, Ask, Leaving
    <3>2. seen \in {0, 1}
      BY <2>1 DEF SeenInv
    <3> QED BY <3>1, <3>2 DEF SeenInv
  <2>3. CASE ~Fail
    <3>1. seen' = seen
      BY <1>2, <2>3 DEF HearAnswer, HearEnd, NoAnswer, Slow, Answered, Unanswered, InTurn, Keep
    <3> QED BY <2>1, <3>1 DEF SeenInv
  <2> QED BY <2>2, <2>3
<1>3. ASSUME NEW e \in Players, Engine(e) \/ Fault(e) \/ Babble(e)
      PROVE  UNCHANGED <<pc, lost, seen>>
  BY <1>3 DEF Engine, Fault, Babble, Read, Tell, Answer, Crash, Hang, StartBabbling, Break,
       UNCHANGED_Harness
<1>4. CASE ~(HearAnswer \/ HearEnd \/ NoAnswer \/ Slow) /\ ~(HearExit \/ WatchdogExpires)
  <2>1. lost' = lost /\ seen' = seen /\ (Leaving => Leaving')
    BY <1>3, <1>4 DEF Next, vars, Harness, Timer, HearOther, Take, HungUp,
         ReportPair, HearInfo, HearBestmove, Reap, JoinReader, WaitAgain, Tick, Nap,
         Command, Dismiss, Drop, UNCHANGED_Worker, Terminated, Leaving, Thinking, Ask
  <2> QED BY <2>1 DEF SeenInv
<1> QED BY <1>1, <1>2, <1>4

-----------------------------------------------------------------------------
\* Options.
LEMMA HeardEmpties ==
  ASSUME TypeOK, PipeInv, HearAnswer, Sound(who)
  PROVE  inbox[who] = <<>>
<1>0. PICK e \in Players : e = who
  BY DEF TypeOK, WorkerTypeOK
<1>1. Replies(e)
  BY <1>0 DEF PipeInv, Piped, Asked, HearAnswer
<1>2. out[e] \in Seq(LineType) /\ out[e] # <<>> /\ Head(out[e]).kind = Expected
  BY <1>0 DEF HearAnswer, Heard, TypeOK, EngineTypeOK
<1>3. Head(out[e]) = out[e][1] /\ 1 \in 1 .. Len(out[e])
  BY <1>2, TailFacts
<1>4. ~Quiets(out[e])
  BY <1>2, <1>3 DEF Quiets, Dull, Expected
<1> QED BY <1>0, <1>1, <1>4 DEF Replies

LEMMA OptionsAsked ==
  ASSUME TypeOK, NEW e \in Players, inbox[e] = <<>>, ~Dead(e), Ask("options", e, Options)
  PROVE  inbox'[e] = Options
  BY SentType, Questions DEF Ask, Asking, TypeOK

LEMMA OptionsHead ==
  Options # <<>> /\ Head(Options).op = "setoption"
  BY DEF Options, Cmd

LEMMA AliveRests ==
  ASSUME TypeOK, PipeInv, LostInv, NEW e \in Players, Configurable(e), ~Leaving, ~missed,
         ~Asked(e), ~Moving(e)
  PROVE  inbox[e] = <<>> /\ ~Dead(e)
  BY DEF PipeInv, Piped, Rests, Sound, Dirty, LostInv, Configurable, Dead

LEMMA ConfigKept ==
  ASSUME TypeOK, ConfigInv, UNCHANGED <<sc, proc, configured>>,
         \/ pc' = pc /\ who' = who /\ inbox' = inbox
         \/ pc \in {"newgame", "bestmove", "paired"} /\ pc' \in {"newgame", "bestmove", "paired"}
         \/ pc' \in {"ready", "static", "uciok"} \/ Leaving'
  PROVE  ConfigInv'
  BY DEF ConfigInv, Configurable, Leaving

LEMMA ConfigStep ==
  ASSUME TypeOK, PipeInv, ThinkInv, MissedInv, LostInv, ConfigInv, [Next]_vars
  PROVE  ConfigInv'
<1>0. who \in Players /\ "engine" \in Players /\ "opponent" \in Players
  BY PlayerTypes DEF TypeOK, WorkerTypeOK
<1>1. CASE HearAnswer
  <2>0. /\ UNCHANGED <<sc, proc, configured>> /\ Awaiting /\ Answered
    BY <1>1 DEF HearAnswer
  <2>1. ASSUME pc = "options" PROVE Configurable(who) => configured[who]
    <3>1. ~missed /\ ~Leaving
      BY <2>1 DEF MissedInv, Leaving
    <3>2. Configurable(who) => Sound(who)
      BY <1>0, <3>1 DEF Sound, Dirty, LostInv, Configurable, Dead
    <3>3. Sound(who) => inbox[who] = <<>>
      BY <1>1, HeardEmpties
    <3> QED BY <1>0, <2>1, <3>2, <3>3, OptionsHead DEF ConfigInv
  <2>2. CASE pc = "options" /\ who = "engine" /\ Ask("options", "opponent", Options)
    <3>1. ASSUME NEW e \in Players, Configurable(e)' PROVE e = "engine" \/ inbox'[e] = Options
      <4>1. Configurable(e)
        BY <2>0, <3>1 DEF Configurable
      <4>2. CASE e = "opponent"
        <5>1. ~missed /\ ~Leaving /\ ~Asked(e) /\ ~Moving(e)
          BY <2>2, <4>2 DEF MissedInv, Leaving, Asked, Moving, Thinking
        <5> QED BY <2>2, <4>1, <4>2, <5>1, AliveRests, OptionsAsked
      <4> QED BY <4>2 DEF Players
    <3>2. pc' = "options" /\ who' = "opponent"
      BY <2>2 DEF Ask
    <3>3. ASSUME NEW e \in Players, Configurable(e)'
          PROVE  /\ e = "engine" => configured'[e]
                 /\ who' = e => configured'[e] \/ inbox'[e] = Options
      BY <2>0, <2>1, <2>2, <3>1, <3>2, <3>3 DEF Configurable
    <3> QED BY <3>2, <3>3 DEF ConfigInv
  <2>3. CASE pc = "options" /\ who = "opponent" /\ Ask("newgame", "engine", NewGame)
    <3>1. pc' = "newgame"
      BY <2>3 DEF Ask
    <3>2. ASSUME NEW e \in Players, Configurable(e)' PROVE configured'[e]
      BY <2>0, <2>1, <2>3, <3>2 DEF ConfigInv, Configurable, Players
    <3> QED BY <3>1, <3>2 DEF ConfigInv
  <2>4. CASE pc # "options"
    <3>1. \/ pc = "newgame" /\ pc' \in {"newgame", "bestmove"}
          \/ pc' \in {"ready", "static", "uciok"} \/ Leaving'
      BY <2>0, <2>4 DEF Answered, InTurn, Ask, StartGame, AskMove, Fail, BeginShutdown, Leaving
    <3> QED BY <2>0, <3>1, ConfigKept
  <2>5. CASE Fail
    BY <2>0, <2>5, ConfigKept DEF Fail, BeginShutdown, Ask, Leaving
  <2> QED BY <2>0, <2>2, <2>3, <2>4, <2>5 DEF Answered, InTurn
<1>2. CASE HearEnd \/ NoAnswer \/ Slow
  <2>1. UNCHANGED <<sc, proc, configured>> /\ Unanswered
    BY <1>2 DEF HearEnd, NoAnswer, Slow
  <2>2. \/ pc = "newgame" /\ pc' \in {"newgame", "bestmove"}
        \/ pc' \in {"ready", "static", "uciok"} \/ Leaving'
    BY <2>1 DEF Unanswered, InTurn, Ask, Fail, BeginShutdown, Leaving
  <2> QED BY <2>1, <2>2, ConfigKept
<1>3. CASE Take
  <2>0. proc' = proc /\ sc' = sc /\ pc = "ready"
    BY <1>3 DEF Take
  <2>1. CASE BeginShutdown
    BY <2>1 DEF BeginShutdown, Ask, ConfigInv
  <2>2. CASE ~BeginShutdown
    <3>1. PICK q \in Players : /\ Ask("options", q, Options)
                               /\ q = IF sc.spsa THEN "engine" ELSE "opponent"
      BY <1>0, <1>3, <2>2 DEF Take
    <3>2. pc' = "options" /\ who' = q
      BY <3>1 DEF Ask
    <3>3. q = "opponent" => configured'["engine"]
      BY <1>3, <2>2, <3>1 DEF Take, Players
    <3>4. ASSUME Configurable(q)' PROVE inbox'[q] = Options
      <4>1. Configurable(q)
        BY <2>0, <3>4 DEF Configurable
      <4>2. ~missed /\ ~Leaving /\ ~Asked(q) /\ ~Moving(q)
        BY <2>0 DEF MissedInv, Leaving, Asked, Awaiting, Moving, Thinking
      <4> QED BY <3>1, <4>1, <4>2, AliveRests, OptionsAsked
    <3>5. ASSUME NEW e \in Players, Configurable(e)'
          PROVE  /\ who' = "opponent" /\ e = "engine" => configured'[e]
                 /\ who' = e => configured'[e] \/ inbox'[e] = Options
      BY <3>2, <3>3, <3>4, <3>5
    <3> QED BY <3>2, <3>5 DEF ConfigInv
  <2> QED BY <2>1, <2>2
<1>4. CASE HungUp \/ ReportPair \/ HearBestmove \/ JoinReader
  <2>1. UNCHANGED <<sc, proc, configured>>
    BY <1>4 DEF HungUp, ReportPair, HearBestmove, JoinReader, engineVars
  <2>2. \/ pc = "bestmove" /\ pc' \in {"newgame", "bestmove", "paired"}
        \/ pc' \in {"ready", "static", "uciok"} \/ Leaving'
    BY <1>4 DEF HungUp, BeginShutdown, ReportPair, HearBestmove, JoinReader, Thinking, End, Ask,
         AskMove, Leaving
  <2> QED BY <2>1, <2>2, ConfigKept
<1>5. CASE Reap
  BY <1>5 DEF Reap, ConfigInv
<1>6. CASE HearExit \/ WatchdogExpires
  <2>1. pc = "bestmove" /\ pc' \in {"newgame", "paired"} /\ configured' = configured /\ sc' = sc
    BY <1>6 DEF HearExit, WatchdogExpires, TimerFires, Thinking, Lose, End, Ask
  <2>2. \A e \in Players : proc'[e] \in {proc[e], "dead"}
    BY <1>6 DEF HearExit, WatchdogExpires, KillEngine, TypeOK, EngineTypeOK
  <2>3. \A e \in Players : Configurable(e)' => Configurable(e)
    BY <2>1, <2>2 DEF Configurable
  <2> QED BY <2>1, <2>3 DEF ConfigInv
<1>7. ASSUME NEW q \in Players, Engine(q) \/ Fault(q) \/ Babble(q) PROVE ConfigInv'
  <2>0. /\ configured \in [Players -> BOOLEAN]
        /\ proc \in [Players -> {"idle", "thinking", "hung", "babbling", "dead"}]
        /\ inbox \in [Players -> Seq(CommandType)]
    BY DEF TypeOK, EngineTypeOK
  <2>1. UNCHANGED <<sc, pc, who>>
    BY <1>7 DEF Engine, Fault, Babble, Read, Tell, Answer, Crash, Hang, StartBabbling, Break,
         UNCHANGED_Harness
  <2>2. \A e \in Players : Configurable(e)' => Configurable(e)
    <3>1. \A e \in Players : proc'[e] \in {"idle", "thinking"} => proc[e] \in {"idle", "thinking"}
      BY <1>7, <2>0 DEF Engine, Fault, Babble, Read, Tell, Answer, Crash, Hang, StartBabbling,
           Break
    <3> QED BY <2>1, <3>1 DEF Configurable
  <2>3. CASE Read(q)
    <3>1. \A e \in Players : e # q => inbox'[e] = inbox[e] /\ configured'[e] = configured[e]
      BY <2>0, <2>3 DEF Read
    <3>2. ~sc.clears /\ configured[q] => configured'[q]
      BY <2>0, <2>3 DEF Read
    <3>3. inbox[q] = Options => configured'[q]
      BY <2>0, <2>3, OptionsHead DEF Read
    <3>4. \A e \in Players : Configurable(e) => (configured[e] => configured'[e])
      BY <3>1, <3>2 DEF Configurable
    <3>5. \A e \in Players : inbox[e] = Options => configured'[e] \/ inbox'[e] = Options
      BY <3>1, <3>3
    <3> QED BY <2>1, <2>2, <3>4, <3>5 DEF ConfigInv
  <2>4. CASE ~Read(q)
    <3>1. inbox' = inbox /\ configured' = configured
      BY <1>7, <2>4 DEF Engine, Fault, Babble, Tell, Answer, Crash, Hang, StartBabbling, Break
    <3> QED BY <2>1, <2>2, <3>1 DEF ConfigInv
  <2> QED BY <2>3, <2>4
<1>8. CASE HearOther \/ HearInfo \/ WaitAgain \/ Tick \/ Nap \/ Command \/ Dismiss \/ Drop
             \/ UNCHANGED vars
  BY <1>8, ConfigKept DEF HearOther, HearInfo, WaitAgain, Tick, Nap, Command, Dismiss, Drop,
       UNCHANGED_Worker, vars, engineVars
<1> QED BY <1>1, <1>2, <1>3, <1>4, <1>5, <1>6, <1>7, <1>8 DEF Next, Harness, Timer, Terminated

-----------------------------------------------------------------------------
\* The record of the game, and its clocks.
LEMMA GameSteps ==
  ASSUME TypeOK, [Next]_vars
  PROVE  \/ HearBestmove
         \/ HearAnswer /\ StartGame
         \/ /\ UNCHANGED <<pos, record, spent, clock, sc>> /\ (Thinking' => Thinking)
            /\ (Thinking' => leg' = leg)
<1>1. CASE HearAnswer
  BY <1>1 DEF HearAnswer, Answered, Thinking, InTurn, Ask, Keep, Fail, BeginShutdown, gameVars
<1>2. CASE HearEnd \/ NoAnswer \/ Slow
  BY <1>2 DEF HearEnd, NoAnswer, Slow, Unanswered, Thinking, InTurn, Ask, Keep, Fail,
       BeginShutdown, gameVars
<1>3. CASE Take \/ HungUp \/ ReportPair \/ Reap \/ JoinReader
  BY <1>3 DEF Take, HungUp, ReportPair, Reap, JoinReader, BeginShutdown, Thinking, Ask, gameVars
<1>4. CASE HearExit \/ WatchdogExpires
  BY <1>4 DEF HearExit, WatchdogExpires, Lose, End, Thinking, Ask
<1>5. ASSUME NEW e \in Players, Engine(e) \/ Fault(e) \/ Babble(e)
      PROVE  UNCHANGED <<pos, record, spent, clock, sc, pc, leg>>
  BY <1>5 DEF Engine, Fault, Babble, Read, Tell, Answer, Crash, Hang, StartBabbling, Break,
       UNCHANGED_Harness, gameVars
<1>6. CASE HearOther \/ HearInfo \/ WaitAgain \/ Tick \/ Nap \/ Command \/ Dismiss \/ Drop
             \/ UNCHANGED vars
  BY <1>6 DEF HearOther, HearInfo, WaitAgain, Tick, Nap, Command, Dismiss, Drop,
       UNCHANGED_Worker, vars, gameVars, Thinking
<1> QED BY <1>1, <1>2, <1>3, <1>4, <1>5, <1>6 DEF Next, Harness, Timer, Terminated, Thinking

\* A move that is accepted.
Played(e) ==
  /\ ~(sc.wallclock /\ Forfeited(clock[Mover]))
  /\ clock' = (IF sc.wallclock THEN [clock EXCEPT ![Mover] = ApplyMove(@)] ELSE clock)
  /\ \E move \in MoveType :
       record' = Append(record,
                  [side |-> Mover, move |-> move, score |-> last_info[e].score,
                   from |-> last_info[e].go, answers |-> Head(out[e]).go,
                   asked |-> GoTag(pos, leg)])

LEMMA BestmoveRecords ==
  ASSUME TypeOK, PipeInv, TurnInv, MissedInv, LostInv, HearBestmove
  PROVE  \E e \in Players :
           /\ e = who /\ e = PlayerOf(Mover, leg) /\ Plays(e)
           /\ Head(out[e]).go = Tag /\ Head(out[e]) \in LineType
           /\ spent' = [spent EXCEPT ![e] = @ + elapsed]
           /\ sc' = sc /\ (Thinking' => leg' = leg)
           /\ Played(e) \/ (record' = record /\ clock' = clock /\ ~Thinking')
<1>0. PICK e \in Players : e = who
  BY DEF TypeOK, WorkerTypeOK
<1>1. Thinking /\ out[e] # <<>> /\ Head(out[e]).kind = "bestmove"
  BY <1>0 DEF HearBestmove, Heard
<1>2. ~missed /\ lost = {} /\ ~Leaving
  BY <1>1 DEF MissedInv, LostInv, BothPlay, Thinking, Leaving
<1>3. Plays(e)
  BY <1>0, <1>1, <1>2 DEF PipeInv, Piped, Moving, Sound, Dirty
<1>4. out[e] \in Seq(LineType)
  BY DEF TypeOK, EngineTypeOK
<1>5. Head(out[e]) = out[e][1] /\ 1 \in 1 .. Len(out[e]) /\ Head(out[e]) \in LineType
  BY <1>1, <1>4, TailFacts
<1>6. Head(out[e]).go = Tag
  BY <1>1, <1>3, <1>5 DEF Plays, Dull
<1>7. e = PlayerOf(Mover, leg)
  BY <1>0, <1>1 DEF TurnInv
<1>8. spent' = [spent EXCEPT ![e] = @ + elapsed] /\ sc' = sc /\ (Thinking' => leg' = leg)
  BY <1>0 DEF HearBestmove, End, Thinking, Ask
<1>9. CASE (sc.wallclock /\ Forfeited(clock[Mover])) \/ ~IsLegal(pos, Head(out[e]).move)
  <2>1. record' = record /\ clock' = clock /\ ~Thinking'
    BY <1>0, <1>9 DEF HearBestmove, End, Ask, Thinking
  <2> QED BY <1>0, <1>3, <1>5, <1>6, <1>7, <1>8, <2>1
<1>10. CASE ~(sc.wallclock /\ Forfeited(clock[Mover])) /\ IsLegal(pos, Head(out[e]).move)
  <2>1. PICK move : move = MoveOf(pos, Head(out[e]).move)
    OBVIOUS
  <2>2. move \in MoveType
    BY <1>10, <2>1, NodeType DEF IsLegal, MoveOf, TypeOK, GameTypeOK
  <2>3. /\ clock' = (IF sc.wallclock THEN [clock EXCEPT ![Mover] = ApplyMove(@)] ELSE clock)
        /\ record' = Append(record,
                  [side |-> Mover, move |-> move, score |-> last_info[e].score,
                   from |-> last_info[e].go, answers |-> Head(out[e]).go,
                   asked |-> GoTag(pos, leg)])
    BY <1>0, <1>10, <2>1 DEF HearBestmove
  <2>4. Played(e)
    BY <1>10, <2>2, <2>3 DEF Played
  <2> QED BY <1>0, <1>3, <1>5, <1>6, <1>7, <1>8, <2>4
<1> QED BY <1>9, <1>10

LEMMA RecordStep ==
  ASSUME TypeOK, PipeInv, TurnInv, MissedInv, LostInv, RecordInv, [Next]_vars
  PROVE  RecordInv'
<1>1. CASE HearBestmove
  <2>1. PICK e \in Players : /\ Plays(e) /\ Head(out[e]).go = Tag /\ Head(out[e]) \in LineType
                             /\ Played(e) \/ record' = record
    BY <1>1, BestmoveRecords
  <2>2. CASE Played(e)
    <3>1. PICK move \in MoveType :
            record' = Append(record,
                  [side |-> Mover, move |-> move, score |-> last_info[e].score,
                   from |-> last_info[e].go, answers |-> Head(out[e]).go,
                   asked |-> GoTag(pos, leg)])
      BY <2>2 DEF Played
    <3> DEFINE x == [side |-> Mover, move |-> move, score |-> last_info[e].score,
                     from |-> last_info[e].go, answers |-> Head(out[e]).go,
                     asked |-> GoTag(pos, leg)]
               R == [side : Colors, move : MoveType, score : ScoreType, from : Tags,
                     answers : Tags, asked : Tags]
    <3>2. x.answers = x.asked /\ (x.score # NoScore => x.from = x.asked)
      BY <2>1 DEF Tag, Plays
    <3>3. record \in Seq(R)
      BY DEF TypeOK, GameTypeOK
    <3>4. x \in R
      <4>1. /\ pos \in PositionType /\ leg \in {0, 1}
            /\ last_info[e].score \in ScoreType /\ last_info[e].go \in Tags
        BY DEF TypeOK, GameTypeOK, WorkerTypeOK
      <4>2. Mover \in Colors /\ GoTag(pos, leg) \in Tags
        BY <4>1, NodeType, TagType DEF TypeOK, Mover
      <4>3. Head(out[e]).go \in Tags
        BY <2>1 DEF LineType
      <4> QED BY <4>1, <4>2, <4>3
    <3> HIDE DEF x, R
    <3>5. /\ Len(record') = Len(record) + 1 /\ Len(record) \in Nat
          /\ \A i \in 1 .. Len(record) : record'[i] = record[i]
          /\ record'[Len(record) + 1] = x
      BY <3>1, <3>3, <3>4, AppendFacts DEF x
    <3>6. \A i \in 1 .. Len(record') : i \in 1 .. Len(record) \/ i = Len(record) + 1
      BY <3>5
    <3> QED BY <3>2, <3>5, <3>6 DEF RecordInv
  <2> QED BY <2>1, <2>2 DEF RecordInv
<1>2. CASE StartGame
  BY <1>2 DEF StartGame, RecordInv
<1>3. CASE record' = record
  BY <1>3 DEF RecordInv
<1> QED BY <1>1, <1>2, <1>3, GameSteps

LEMMA MovesCounted ==
  ASSUME TypeOK, NEW x, x.side \in Colors, record' = Append(record, x),
         x \in [side : Colors, move : MoveType, score : ScoreType, from : Tags,
                answers : Tags, asked : Tags],
         NEW c \in Colors
  PROVE  /\ MovesBy(c) \in Nat
         /\ MovesBy(c)' = IF x.side = c THEN MovesBy(c) + 1 ELSE MovesBy(c)
<1> DEFINE n == Len(record)
           S == {i \in DOMAIN record : record[i].side = c}
           T == {i \in DOMAIN record' : record'[i].side = c}
<1>1. record \in Seq([side : Colors, move : MoveType, score : ScoreType, from : Tags,
                      answers : Tags, asked : Tags])
  BY DEF TypeOK, GameTypeOK
<1>2. /\ Len(record') = n + 1 /\ n \in Nat
      /\ \A i \in 1 .. n : record'[i] = record[i]
      /\ record'[n + 1] = x
      /\ DOMAIN record = 1 .. n /\ DOMAIN record' = 1 .. n + 1
  BY <1>1, AppendProperties, LenProperties
<1>3. IsFiniteSet(S) /\ Cardinality(S) \in Nat
  <2>1. IsFiniteSet(1 .. n)
    <3>1. 1 \in Int /\ n \in Int
      BY <1>2
    <3> HIDE DEF n
    <3> QED BY <3>1, FS_Interval
  <2>2. S \subseteq 1 .. n
    BY <1>2
  <2> QED BY <2>1, <2>2, FS_Subset, FS_CardinalityType
<1>4. n + 1 \notin S
  BY <1>2
<1>5. T = IF x.side = c THEN S \cup {n + 1} ELSE S
  <2>1. ASSUME NEW i \in T PROVE i \in (IF x.side = c THEN S \cup {n + 1} ELSE S)
    <3>1. i \in 1 .. n \/ i = n + 1
      BY <1>2
    <3> QED BY <1>2, <2>1, <3>1
  <2>2. ASSUME NEW i \in (IF x.side = c THEN S \cup {n + 1} ELSE S) PROVE i \in T
    <3>1. \A j \in 1 .. n : j \in 1 .. n + 1
      BY <1>2
    <3>2. n + 1 \in 1 .. n + 1
      BY <1>2
    <3> QED BY <1>2, <2>2, <3>1, <3>2
  <2> QED BY <2>1, <2>2
<1>6. Cardinality(S \cup {n + 1}) = Cardinality(S) + 1
  BY <1>3, <1>4, FS_AddElement
<1>7. MovesBy(c) = Cardinality(S) /\ MovesBy(c)' = Cardinality(T)
  BY DEF MovesBy
<1> QED BY <1>3, <1>5, <1>6, <1>7

LEMMA NoMoves ==
  ASSUME record' = <<>>, NEW c \in Colors
  PROVE  MovesBy(c)' = 0
<1>1. {i \in DOMAIN record' : record'[i].side = c} = {}
  OBVIOUS
<1> QED BY <1>1, FS_EmptySet DEF MovesBy

LEMMA StartClocks ==
  ASSUME TypeOK, StartGame, sc' = sc
  PROVE  ClockInv'
<1>1. leg' = leg /\ leg \in {0, 1} /\ clock' = Clocks(leg) /\ record' = <<>>
      /\ spent' = [p \in Players |-> 0]
  BY DEF StartGame, TypeOK, WorkerTypeOK
<1>2. ASSUME NEW c \in Colors, NEW p \in Players, p = PlayerOf(c, leg)
      PROVE  /\ clock'[c].increment = sc'.tc[p].increment
             /\ clock'[c].remaining = (IF sc'.wallclock THEN Budget(p, MovesBy(c))'
                                       ELSE sc'.tc[p].initial)
             /\ clock'[c].remaining >= -HARNESS_OVERHEAD
  <2>1. clock'[c] = [remaining |-> sc.tc[p].initial, increment |-> sc.tc[p].increment]
    BY <1>1, <1>2 DEF Clocks, StartClock
  <2>2. MovesBy(c)' = 0
    BY <1>1, NoMoves
  <2>3. sc.tc[p].initial \in Nat /\ sc.tc[p].increment \in Nat /\ HARNESS_OVERHEAD \in Nat
    BY ScenarioFacts DEF TypeOK
  <2>4. Budget(p, MovesBy(c))' = sc.tc[p].initial + sc.tc[p].increment * 0 - 0
    BY <1>1, <2>2 DEF Budget
  <2>5. \A a, b, h \in Nat : a + b * 0 - 0 = a /\ a >= -h
    OBVIOUS
  <2> QED BY <2>1, <2>3, <2>4, <2>5
<1>3. \A c \in Colors : PlayerOf(c, leg) \in Players /\ PlayerOf(c, leg)' = PlayerOf(c, leg')
  BY <1>1, PlayerTypes
<1> QED BY <1>1, <1>2, <1>3 DEF ClockInv, PlayerOf

LEMMA ClockStep ==
  ASSUME TypeOK, PipeInv, TurnInv, MissedInv, LostInv, ClockInv, [Next]_vars
  PROVE  ClockInv'
<1>1. CASE HearAnswer /\ StartGame
  BY <1>1, StartClocks DEF HearAnswer
<1>2. CASE /\ UNCHANGED <<record, spent, clock, sc>> /\ (Thinking' => Thinking)
           /\ (Thinking' => leg' = leg)
  BY <1>2 DEF ClockInv, MovesBy, Budget, PlayerOf
<1>3. CASE HearBestmove
  <2>1. PICK e \in Players :
           /\ e = PlayerOf(Mover, leg) /\ Head(out[e]).go = Tag /\ Head(out[e]) \in LineType
           /\ spent' = [spent EXCEPT ![e] = @ + elapsed]
           /\ sc' = sc /\ (Thinking' => leg' = leg)
           /\ Played(e) \/ (record' = record /\ clock' = clock /\ ~Thinking')
    BY <1>3, BestmoveRecords
  <2>2. CASE ~Thinking'
    BY <2>2 DEF ClockInv
  <2>3. CASE Thinking' /\ Played(e)
    <3>1. PICK x \in [side : Colors, move : MoveType, score : ScoreType, from : Tags,
                      answers : Tags, asked : Tags] :
            record' = Append(record, x) /\ x.side = Mover
      <4>1. PICK move \in MoveType :
            record' = Append(record,
                  [side |-> Mover, move |-> move, score |-> last_info[e].score,
                   from |-> last_info[e].go, answers |-> Head(out[e]).go,
                   asked |-> GoTag(pos, leg)])
        BY <2>3 DEF Played
      <4>2. /\ pos \in PositionType /\ leg \in {0, 1}
            /\ last_info[e].score \in ScoreType /\ last_info[e].go \in Tags
        BY DEF TypeOK, GameTypeOK, WorkerTypeOK
      <4>3. Mover \in Colors /\ GoTag(pos, leg) \in Tags
        BY <4>2, NodeType, TagType DEF TypeOK, Mover
      <4>4. Head(out[e]).go \in Tags
        BY <2>1 DEF LineType
      <4>5. [side |-> Mover, move |-> move, score |-> last_info[e].score,
                   from |-> last_info[e].go, answers |-> Head(out[e]).go,
                   asked |-> GoTag(pos, leg)]
            \in [side : Colors, move : MoveType, score : ScoreType, from : Tags,
                 answers : Tags, asked : Tags]
        BY <4>2, <4>3, <4>4
      <4> QED BY <4>1, <4>5
    <3>2. leg' = leg /\ Thinking /\ leg \in {0, 1}
      BY <1>3, <2>1, <2>3 DEF HearBestmove, TypeOK, WorkerTypeOK
    <3>3. ASSUME NEW c \in Colors, NEW p \in Players, p = PlayerOf(c, leg)
          PROVE  /\ clock'[c].increment = sc'.tc[p].increment
                 /\ clock'[c].remaining = (IF sc'.wallclock THEN Budget(p, MovesBy(c))'
                                           ELSE sc'.tc[p].initial)
                 /\ clock'[c].remaining >= -HARNESS_OVERHEAD
      <4>0. /\ clock \in [Colors -> [remaining : Int, increment : Nat]] /\ elapsed \in Nat
            /\ spent \in [Players -> Nat] /\ sc.tc[p].initial \in Nat
            /\ sc.tc[p].increment \in Nat /\ HARNESS_OVERHEAD \in Nat
            /\ sc.wallclock \in BOOLEAN
        BY SMTT(40), ScenarioFacts DEF TypeOK, GameTypeOK
      <4>1. /\ clock[c].increment = sc.tc[p].increment
            /\ clock[c].remaining = (IF sc.wallclock THEN Budget(p, MovesBy(c))
                                     ELSE sc.tc[p].initial)
            /\ clock[c].remaining >= -HARNESS_OVERHEAD
        BY <3>2, <3>3 DEF ClockInv
      <4>2. CASE ~sc.wallclock
        BY <2>1, <2>3, <4>1, <4>2 DEF Played
      <4>3. CASE sc.wallclock /\ c # Mover
        <5>1. clock'[c] = clock[c]
          BY <2>3, <4>0, <4>3 DEF Played
        <5>2. p # e
          <6>1. \A a, b \in Colors : a # b => PlayerOf(a, leg) # PlayerOf(b, leg)
            BY <3>2 DEF PlayerOf, Colors
          <6>2. Mover \in Colors
            BY <3>1
          <6> QED BY <2>1, <3>3, <4>3, <6>1, <6>2
        <5>3. spent'[p] = spent[p]
          BY <2>1, <4>0, <5>2
        <5>4. MovesBy(c)' = MovesBy(c)
          BY <3>1, <4>3, MovesCounted
        <5>5. Budget(p, MovesBy(c))' = Budget(p, MovesBy(c))
          BY <2>1, <5>3, <5>4 DEF Budget
        <5> QED BY <2>1, <4>1, <4>3, <5>1, <5>5
      <4>4. CASE sc.wallclock /\ c = Mover
        <5>1. clock'[c] = ApplyMove(clock[c]) /\ ~Forfeited(clock[c])
          BY <2>3, <4>0, <4>4 DEF Played
        <5>2. p = e
          BY <2>1, <3>3, <4>4
        <5>3. spent'[p] = spent[p] + elapsed
          BY <2>1, <4>0, <5>2
        <5>4. MovesBy(c)' = MovesBy(c) + 1 /\ MovesBy(c) \in Nat
          BY <3>1, <4>4, MovesCounted
        <5>5. /\ clock'[c].remaining = clock[c].remaining - elapsed + clock[c].increment
              /\ clock'[c].increment = clock[c].increment
          BY <4>0, <5>1 DEF ApplyMove
        <5>6. clock'[c].remaining >= -HARNESS_OVERHEAD
          BY <4>0, <5>1, <5>5 DEF Forfeited
        <5>7. Budget(p, MovesBy(c))' = sc.tc[p].initial + sc.tc[p].increment * (MovesBy(c) + 1)
                                        - (spent[p] + elapsed)
          BY <2>1, <5>3, <5>4 DEF Budget
        <5>8. clock[c].remaining = sc.tc[p].initial + sc.tc[p].increment * MovesBy(c) - spent[p]
          BY <4>1, <4>4 DEF Budget
        <5>9. \A a, b, n, s, t \in Nat :
                (a + b * n - s) - t + b = a + b * (n + 1) - (s + t)
          OBVIOUS
        <5>10. Budget(p, MovesBy(c))' = clock[c].remaining - elapsed + clock[c].increment
          BY <4>0, <4>1, <5>4, <5>7, <5>8, <5>9
        <5> QED BY <2>1, <4>1, <4>4, <5>5, <5>6, <5>10
      <4> QED BY <4>2, <4>3, <4>4
    <3>4. \A c \in Colors : PlayerOf(c, leg) \in Players /\ PlayerOf(c, leg)' = PlayerOf(c, leg')
      BY <3>2, PlayerTypes
    <3> QED BY <3>2, <3>3, <3>4 DEF ClockInv, PlayerOf
  <2> QED BY <2>1, <2>2, <2>3
<1> QED BY <1>1, <1>2, <1>3, GameSteps
-----------------------------------------------------------------------------
\* The verdict.
LEMMA SideFacts ==
  ASSUME NEW r, NEW c, NEW k \in Nat
  PROVE  IsFiniteSet(Side(r, c, k)) /\ Rank(r, c, k) \in Nat /\ Rank(r, c, k) <= k
<1>1. IsFiniteSet(1 .. k) /\ Cardinality(1 .. k) = k
  <2>1. 1 \in Int /\ k \in Int
    OBVIOUS
  <2> QED BY <2>1, FS_Interval
<1>2. Side(r, c, k) \subseteq 1 .. k
  BY DEF Side
<1> QED BY <1>1, <1>2, FS_Subset, FS_CardinalityType DEF Rank

\* The ranks of a side's moves grow with the plies.
LEMMA RankGrows ==
  ASSUME NEW r, NEW c, NEW j \in Nat, NEW k \in Nat, j <= k
  PROVE  /\ Rank(r, c, j) <= Rank(r, c, k)
         /\ Cardinality({i \in Side(r, c, k) : i > j}) = Rank(r, c, k) - Rank(r, c, j)
<1> DEFINE W == {i \in Side(r, c, k) : i > j}
<1>1. Side(r, c, k) = Side(r, c, j) \cup W /\ Side(r, c, j) \cap W = {}
  BY DEF Side
<1>2. /\ IsFiniteSet(Side(r, c, j)) /\ IsFiniteSet(Side(r, c, k))
      /\ Rank(r, c, j) \in Nat /\ Rank(r, c, k) \in Nat
  BY SideFacts
<1>3. W \subseteq Side(r, c, k) /\ Side(r, c, j) \subseteq Side(r, c, k)
  BY <1>1
<1>4. IsFiniteSet(W) /\ Cardinality(W) \in Nat
  BY <1>2, <1>3, FS_Subset, FS_CardinalityType
<1> HIDE DEF W
<1>5. Cardinality(Side(r, c, j) \cup W)
        = Cardinality(Side(r, c, j)) + Cardinality(W) - Cardinality(Side(r, c, j) \cap W)
  BY <1>2, <1>4, FS_Union
<1>6. Cardinality({}) = 0
  BY FS_EmptySet
<1>7. Rank(r, c, k) = Rank(r, c, j) + Cardinality(W)
  <2>1. Cardinality(Side(r, c, j) \cap W) = 0
    BY <1>1, <1>6
  <2>2. Cardinality(Side(r, c, k)) = Cardinality(Side(r, c, j)) + Cardinality(W) - 0
    BY <1>1, <1>5, <2>1
  <2>3. Rank(r, c, k) = Rank(r, c, j) + Cardinality(W) - 0
    BY <2>2 DEF Rank
  <2> QED BY <1>2, <1>4, <2>3
<1>8. Rank(r, c, j) <= Rank(r, c, k) /\ Cardinality(W) = Rank(r, c, k) - Rank(r, c, j)
  BY <1>2, <1>4, <1>7
<1> QED BY <1>8 DEF W

\* One more move of a side has the next rank, and that of the other changes nothing.
LEMMA RankOfNext ==
  ASSUME NEW r \in Seq(RecordType), NEW x \in RecordType, NEW c, NEW n \in Nat, n = Len(r)
  PROVE  /\ \A k \in 0 .. n : Side(Append(r, x), c, k) = Side(r, c, k)
         /\ \A k \in 0 .. n : Rank(Append(r, x), c, k) = Rank(r, c, k)
         /\ x.side = c => /\ Side(Append(r, x), c, n + 1) = Side(r, c, n) \cup {n + 1}
                          /\ Rank(Append(r, x), c, n + 1) = Rank(r, c, n) + 1
         /\ x.side # c => /\ Side(Append(r, x), c, n + 1) = Side(r, c, n)
                          /\ Rank(Append(r, x), c, n + 1) = Rank(r, c, n)
<1> DEFINE q == Append(r, x)
<1>1. \A i \in 1 .. n : q[i] = r[i]
  BY AppendFacts
<1>2. q[n + 1] = x
  BY AppendFacts
<1> HIDE DEF q
<1>3. ASSUME NEW k \in 0 .. n PROVE Side(q, c, k) = Side(r, c, k)
  <2>1. \A i \in 1 .. k : i \in 1 .. n
    OBVIOUS
  <2> QED BY <1>1, <2>1 DEF Side
<1>4. \A i \in 1 .. n + 1 : i \in 1 .. n \/ i = n + 1
  OBVIOUS
<1>5. \A i \in 1 .. n : i \in 1 .. n + 1 /\ i # n + 1
  OBVIOUS
<1>6. n + 1 \in 1 .. n + 1
  OBVIOUS
<1>7. CASE x.side = c
  <2>1. Side(q, c, n + 1) = Side(r, c, n) \cup {n + 1}
    BY <1>1, <1>2, <1>4, <1>5, <1>6, <1>7 DEF Side
  <2>2. n + 1 \notin Side(r, c, n)
    BY <1>5 DEF Side
  <2>3. Rank(q, c, n + 1) = Rank(r, c, n) + 1
    BY <2>1, <2>2, SideFacts, FS_AddElement DEF Rank
  <2> QED BY <1>3, <1>7, <2>1, <2>3 DEF q, Rank
<1>8. CASE x.side # c
  <2>1. Side(q, c, n + 1) = Side(r, c, n)
    BY <1>1, <1>2, <1>4, <1>5, <1>8 DEF Side
  <2> QED BY <1>3, <1>8, <2>1 DEF q, Rank
<1> QED BY <1>7, <1>8

\* A game begins with nothing to show.
LEMMA ShowsStart == Shows(StartPosition, <<>>)
<1>1. Len(<<>>) = 0
  OBVIOUS
<1>2. StartPosition.history = <<1>> /\ StartPosition.halfmove = 0 /\ StartPosition.number = 1
      /\ \A c \in Colors : StartPosition.scores[c] = <<>>
  BY DEF StartPosition
<1>3. \A c : Side(<<>>, c, 0) = {} /\ Rank(<<>>, c, 0) = 0
  BY FS_EmptySet DEF Side, Rank
<1>4. ShowsKeys(StartPosition, <<>>)
  BY <1>1, <1>2 DEF ShowsKeys, KeyOf
<1>5. ShowsCounters(StartPosition, <<>>)
  BY <1>1, <1>2, <1>3 DEF ShowsCounters
<1>6. ShowsScores(StartPosition, <<>>)
  BY <1>1, <1>2, <1>3 DEF ShowsScores
<1> QED BY <1>4, <1>5, <1>6 DEF Shows

LEMMA KeysShown ==
  ASSUME NEW p \in PositionType, NEW r \in Seq(RecordType), NEW x \in RecordType,
         ShowsKeys(p, r), x.move \in Node(p).moves, x.side = side_to_move(p),
         NEW q \in PositionType, q.history = Append(p.history, x.move.to)
  PROVE  ShowsKeys(q, Append(r, x))
<1> DEFINE n == Len(r)
           s == Append(r, x)
<1>1. /\ n \in Nat /\ Len(s) = n + 1 /\ \A i \in 1 .. n : s[i] = r[i]
      /\ s[n + 1] = x
  BY AppendFacts
<1>2. p.history \in Seq(DOMAIN Graph) /\ x.move.to \in DOMAIN Graph /\ Last(p.history) \in DOMAIN Graph
  BY NodeType DEF PositionType, RecordType, MoveType
<1>3. /\ Len(p.history) = n + 1 /\ Len(q.history) = n + 2
      /\ \A k \in 1 .. n + 1 : q.history[k] = p.history[k]
      /\ q.history[n + 2] = x.move.to
  <2>1. Len(p.history) = n + 1
    BY DEF ShowsKeys
  <2>2. /\ Len(q.history) = Len(p.history) + 1
        /\ \A k \in 1 .. Len(p.history) : q.history[k] = p.history[k]
        /\ q.history[Len(p.history) + 1] = x.move.to
    BY <1>2, AppendFacts
  <2> QED BY <1>1, <2>1, <2>2
<1> HIDE DEF n, s
<1>4. \A k \in 0 .. n : KeyOf(s, k) = KeyOf(r, k)
  <2> SUFFICES ASSUME NEW k \in 0 .. n PROVE KeyOf(s, k) = KeyOf(r, k)
    OBVIOUS
  <2>1. CASE k = 0
    BY <2>1 DEF KeyOf
  <2>2. CASE k # 0
    <3>1. k \in 1 .. n
      BY <1>1, <2>2
    <3> QED BY <1>1, <2>2, <3>1 DEF KeyOf
  <2> QED BY <2>1, <2>2
<1>5. KeyOf(s, n + 1) = x.move.to
  BY <1>1 DEF KeyOf
<1>6. ASSUME NEW k \in 0 .. Len(s) PROVE q.history[k + 1] = KeyOf(s, k)
  <2>1. CASE k \in 0 .. n
    <3>1. k + 1 \in 1 .. n + 1
      BY <1>1, <2>1
    <3>2. p.history[k + 1] = KeyOf(r, k)
      BY <2>1 DEF ShowsKeys, n
    <3> QED BY <1>3, <1>4, <2>1, <3>1, <3>2
  <2>2. CASE k = n + 1
    <3>1. k + 1 = n + 2
      BY <1>1, <2>2
    <3> QED BY <1>3, <1>5, <2>2, <3>1
  <2>3. k \in 0 .. n \/ k = n + 1
    BY <1>1
  <2> QED BY <2>1, <2>2, <2>3
<1>7. ASSUME NEW i \in 1 .. Len(s) PROVE Graph[KeyOf(s, i)].side = Opposite(s[i].side)
  <2>1. CASE i \in 1 .. n
    <3>1. i \in 0 .. n
      BY <1>1, <2>1
    <3>2. Graph[KeyOf(r, i)].side = Opposite(r[i].side)
      BY <2>1 DEF ShowsKeys, n
    <3> QED BY <1>1, <1>4, <2>1, <3>1, <3>2
  <2>2. CASE i = n + 1
    <3>1. x.side = Graph[Last(p.history)].side
      BY DEF side_to_move, Node
    <3>2. Graph[x.move.to].side = Opposite(Graph[Last(p.history)].side)
      BY <1>2, GraphAssumption DEF Node
    <3> QED BY <1>1, <1>5, <2>2, <3>1, <3>2
  <2> QED BY <1>1, <2>1, <2>2
<1>8. Len(q.history) = Len(s) + 1
  BY <1>1, <1>3
<1> QED BY <1>6, <1>7, <1>8 DEF ShowsKeys, s

LEMMA CountersShown ==
  ASSUME NEW p \in PositionType, NEW r \in Seq(RecordType), NEW x \in RecordType,
         ShowsCounters(p, r), NEW q \in PositionType,
         q.halfmove = (IF x.move.zeroes THEN 0 ELSE p.halfmove + 1),
         q.number = p.number + (IF x.side = "black" THEN 1 ELSE 0)
  PROVE  ShowsCounters(q, Append(r, x))
<1> DEFINE n == Len(r)
           s == Append(r, x)
<1>1. /\ n \in Nat /\ Len(s) = n + 1 /\ \A i \in 1 .. n : s[i] = r[i]
      /\ s[n + 1] = x
  BY AppendFacts
<1>2. /\ x.side = "black" => Rank(s, "black", n + 1) = Rank(r, "black", n) + 1
      /\ x.side # "black" => Rank(s, "black", n + 1) = Rank(r, "black", n)
      /\ Rank(r, "black", n) \in Nat
  BY <1>1, RankOfNext, SideFacts
<1>3. /\ p.number = 1 + Rank(r, "black", n) /\ p.halfmove \in 0 .. n
      /\ \A i \in 1 .. n : i > n - p.halfmove => ~r[i].move.zeroes
      /\ p.halfmove < n => r[n - p.halfmove].move.zeroes
  BY DEF ShowsCounters
<1> HIDE DEF n, s
<1>4. q.number = 1 + Rank(s, "black", n + 1)
  BY <1>2, <1>3
<1>5. CASE x.move.zeroes
  <2>1. q.halfmove = 0 /\ (n + 1) - q.halfmove = n + 1
    BY <1>1, <1>5
  <2>2. q.halfmove \in 0 .. n + 1
    BY <1>1, <2>1
  <2>3. \A i \in 1 .. n + 1 : ~(i > n + 1)
    BY <1>1
  <2> QED BY <1>1, <1>4, <1>5, <2>1, <2>2, <2>3 DEF ShowsCounters, s
<1>6. CASE ~x.move.zeroes
  <2>1. q.halfmove = p.halfmove + 1 /\ (n + 1) - q.halfmove = n - p.halfmove
        /\ q.halfmove \in 0 .. n + 1
    <3>1. q.halfmove = p.halfmove + 1 /\ p.halfmove \in 0 .. n
      BY <1>3, <1>6
    <3>2. \A h \in 0 .. n : (n + 1) - (h + 1) = n - h /\ h + 1 \in 0 .. n + 1
      BY <1>1
    <3> QED BY <3>1, <3>2
  <2>2. ASSUME NEW i \in 1 .. n + 1, i > n - p.halfmove PROVE ~s[i].move.zeroes
    <3>1. CASE i \in 1 .. n
      BY <1>1, <1>3, <2>2, <3>1
    <3>2. CASE i = n + 1
      BY <1>1, <1>6, <3>2
    <3> QED BY <1>1, <3>1, <3>2
  <2>3. q.halfmove < n + 1 => s[n - p.halfmove].move.zeroes
    <3> SUFFICES ASSUME q.halfmove < n + 1 PROVE s[n - p.halfmove].move.zeroes
      OBVIOUS
    <3>1. p.halfmove < n /\ n - p.halfmove \in 1 .. n
      BY <1>1, <1>3, <2>1
    <3> QED BY <1>1, <1>3, <3>1
  <2> QED BY <1>1, <1>4, <2>1, <2>2, <2>3 DEF ShowsCounters, s
<1> QED BY <1>5, <1>6

LEMMA ScoresShown ==
  ASSUME NEW p \in PositionType, NEW r \in Seq(RecordType), NEW x \in RecordType,
         ShowsScores(p, r), NEW q \in PositionType,
         q.scores = [p.scores EXCEPT ![x.side] = Append(@, x.score)]
  PROVE  ShowsScores(q, Append(r, x))
<1> DEFINE n == Len(r)
           s == Append(r, x)
<1>1. /\ n \in Nat /\ Len(s) = n + 1 /\ \A i \in 1 .. n : s[i] = r[i]
      /\ s[n + 1] = x /\ x.side \in Colors /\ x.score \in ScoreType
  BY AppendFacts DEF RecordType
<1>2. p.scores \in [Colors -> Seq(ScoreType)]
  BY DEF PositionType
<1> SUFFICES ASSUME NEW c \in Colors
             PROVE  /\ Len(q.scores[c]) = Rank(s, c, Len(s))
                    /\ \A i \in Side(s, c, Len(s)) :
                         /\ Rank(s, c, i) \in 1 .. Len(q.scores[c])
                         /\ q.scores[c][Rank(s, c, i)] = s[i].score
                    /\ \A j \in 1 .. Len(q.scores[c]) :
                         \E i \in Side(s, c, Len(s)) : Rank(s, c, i) = j
  BY DEF ShowsScores
<1> DEFINE t == p.scores[c]
           m == Len(t)
<1>3. /\ m = Rank(r, c, n) /\ m \in Nat
      /\ \A i \in Side(r, c, n) : Rank(r, c, i) \in 1 .. m /\ t[Rank(r, c, i)] = r[i].score
      /\ \A j \in 1 .. m : \E i \in Side(r, c, n) : Rank(r, c, i) = j
  BY <1>1, SideFacts DEF ShowsScores
<1>4. \A i \in Side(r, c, n) : i \in 1 .. n /\ i \in 0 .. n
  BY <1>1 DEF Side
<1>5. /\ \A k \in 0 .. n : Rank(s, c, k) = Rank(r, c, k)
      /\ x.side = c => /\ Side(s, c, n + 1) = Side(r, c, n) \cup {n + 1}
                       /\ Rank(s, c, n + 1) = Rank(r, c, n) + 1
      /\ x.side # c => /\ Side(s, c, n + 1) = Side(r, c, n)
                       /\ Rank(s, c, n + 1) = Rank(r, c, n)
  BY <1>1, RankOfNext
<1>6. x.side # c => q.scores[c] = t
  BY <1>1, <1>2
<1>7. x.side = c => /\ Len(q.scores[c]) = m + 1 /\ q.scores[c][m + 1] = x.score
                    /\ \A j \in 1 .. m : q.scores[c][j] = t[j]
  <2> SUFFICES ASSUME x.side = c PROVE  /\ Len(q.scores[c]) = m + 1 /\ q.scores[c][m + 1] = x.score
                    /\ \A j \in 1 .. m : q.scores[c][j] = t[j]
    OBVIOUS
  <2>1. q.scores[c] = Append(t, x.score) /\ t \in Seq(ScoreType)
    BY <1>1, <1>2
  <2> QED BY <1>1, <2>1, AppendFacts
<1> HIDE DEF n, s, t, m
<1>8. CASE x.side # c
  BY ZenonT(40), <1>1, <1>3, <1>4, <1>5, <1>6, <1>8 DEF m
<1>9. CASE x.side = c
  <2>1. Len(q.scores[c]) = Rank(s, c, n + 1)
    BY <1>3, <1>5, <1>7, <1>9
  <2>2. ASSUME NEW i \in Side(s, c, n + 1)
        PROVE  /\ Rank(s, c, i) \in 1 .. m + 1
               /\ q.scores[c][Rank(s, c, i)] = s[i].score
    <3>1. CASE i \in Side(r, c, n)
      <4>1. Rank(s, c, i) = Rank(r, c, i) /\ s[i] = r[i] /\ Rank(r, c, i) \in 1 .. m
        BY <1>1, <1>3, <1>4, <1>5, <3>1
      <4>2. Rank(r, c, i) \in 1 .. m + 1
        BY <1>3, <4>1
      <4> QED BY <1>3, <1>7, <1>9, <3>1, <4>1, <4>2
    <3>2. CASE i = n + 1
      <4>1. Rank(s, c, i) = m + 1 /\ m + 1 \in 1 .. m + 1
        BY <1>3, <1>5, <1>9, <3>2
      <4> QED BY <1>1, <1>7, <1>9, <3>2, <4>1
    <3> QED BY <1>5, <1>9, <3>1, <3>2
  <2>3. ASSUME NEW j \in 1 .. m + 1 PROVE \E i \in Side(s, c, n + 1) : Rank(s, c, i) = j
    <3>1. CASE j \in 1 .. m
      <4>1. PICK i \in Side(r, c, n) : Rank(r, c, i) = j
        BY <1>3, <3>1
      <4>2. Rank(s, c, i) = j /\ i \in Side(s, c, n + 1)
        BY <1>4, <1>5, <1>9, <4>1
      <4> QED BY <4>2
    <3>2. CASE j = m + 1
      <4>1. Rank(s, c, n + 1) = j /\ n + 1 \in Side(s, c, n + 1)
        BY <1>3, <1>5, <1>9, <3>2
      <4> QED BY <4>1
    <3> QED BY <1>3, <3>1, <3>2
  <2> QED BY <1>1, <1>7, <1>9, <2>1, <2>2, <2>3
<1> QED BY <1>8, <1>9

LEMMA ShowsNext ==
  ASSUME NEW p \in PositionType, NEW r \in Seq(RecordType), NEW x \in RecordType,
         Shows(p, r), x.move \in Node(p).moves, x.side = side_to_move(p)
  PROVE  Shows(MoveTo(p, x.move, x.score), Append(r, x))
<1>1. PICK q : q = MoveTo(p, x.move, x.score)
  OBVIOUS
<1>2. q \in PositionType
  BY <1>1, MoveToType DEF RecordType
<1>3. /\ q.history = Append(p.history, x.move.to)
      /\ q.halfmove = (IF x.move.zeroes THEN 0 ELSE p.halfmove + 1)
      /\ q.number = p.number + (IF x.side = "black" THEN 1 ELSE 0)
      /\ q.scores = [p.scores EXCEPT ![x.side] = Append(@, x.score)]
  BY <1>1 DEF MoveTo
<1> QED BY <1>1, <1>2, <1>3, KeysShown, CountersShown, ScoresShown DEF Shows

\* The last n scores of a side are those of its last n moves.
LEMMA WindowShown ==
  ASSUME NEW p \in PositionType, NEW r \in Seq(RecordType), ShowsScores(p, r),
         NEW c \in Colors, NEW n \in Nat \ {0}, NEW X
  PROVE  (Len(p.scores[c]) >= n /\ \A s \in Range(LastOf(p.scores[c], n)) : s \in X)
           <=> (\E from \in 0 .. Len(r) :
                  /\ Cardinality({i \in Side(r, c, Len(r)) : i > from}) = n
                  /\ \A i \in {i \in Side(r, c, Len(r)) : i > from} : r[i].score \in X)
<1> DEFINE t == p.scores[c]
           m == Len(t)
           k == Len(r)
           S == Side(r, c, k)
           W(from) == {i \in S : i > from}
<1>1. /\ k \in Nat /\ m \in Nat /\ t \in Seq(ScoreType) /\ m = Rank(r, c, k)
      /\ \A i \in S : Rank(r, c, i) \in 1 .. m /\ t[Rank(r, c, i)] = r[i].score
      /\ \A j \in 1 .. m : \E i \in S : Rank(r, c, i) = j
  <2>1. t \in Seq(ScoreType)
    BY DEF PositionType
  <2> QED BY <2>1, LenProperties DEF ShowsScores
<1>2. \A i \in S : i \in 1 .. k
  BY DEF Side
<1>3. \A j \in 0 .. k : Rank(r, c, j) \in Nat /\ Rank(r, c, j) <= m
                        /\ Cardinality(W(j)) = m - Rank(r, c, j)
  <2> SUFFICES ASSUME NEW j \in 0 .. k
               PROVE  Rank(r, c, j) \in Nat /\ Rank(r, c, j) <= m
                        /\ Cardinality(W(j)) = m - Rank(r, c, j)
    OBVIOUS
  <2>1. j \in Nat /\ j <= k
    BY <1>1
  <2> QED BY SMTT(40), <1>1, <2>1, SideFacts, RankGrows
<1>4. \A i \in S, j \in 0 .. k : i > j <=> Rank(r, c, i) > Rank(r, c, j)
  <2> SUFFICES ASSUME NEW i \in S, NEW j \in 0 .. k
               PROVE  i > j <=> Rank(r, c, i) > Rank(r, c, j)
    OBVIOUS
  <2>1. i \in 1 .. k /\ i \in Nat /\ i \in Int /\ j \in Nat /\ i - 1 \in Nat /\ i - 1 <= i
    BY <1>1, <1>2
  <2>2. Rank(r, c, i) \in Nat /\ Rank(r, c, j) \in Nat /\ Rank(r, c, i - 1) \in Nat
    BY <2>1, SideFacts
  <2>3. CASE i > j
    <3>1. j <= i - 1
      BY <2>1, <2>3
    <3>2. Rank(r, c, j) <= Rank(r, c, i - 1)
      BY <2>1, <3>1, RankGrows
    <3>3. Cardinality({l \in Side(r, c, i) : l > i - 1}) = Rank(r, c, i) - Rank(r, c, i - 1)
          /\ Rank(r, c, i - 1) <= Rank(r, c, i)
      BY <2>1, RankGrows
    <3>4. i \in {l \in Side(r, c, i) : l > i - 1}
      <4>1. i \in 1 .. i /\ i > i - 1 /\ r[i].side = c
        BY <2>1 DEF Side
      <4> QED BY <4>1 DEF Side
    <3>5. IsFiniteSet({l \in Side(r, c, i) : l > i - 1})
      BY <2>1, SideFacts, FS_Subset
    <3>6. Cardinality({l \in Side(r, c, i) : l > i - 1}) # 0
      BY <3>4, <3>5, FS_EmptySet
    <3> QED BY <2>2, <2>3, <3>2, <3>3, <3>6
  <2>4. CASE ~(i > j)
    <3>1. i <= j
      BY <2>1, <2>4
    <3>2. Rank(r, c, i) <= Rank(r, c, j)
      BY <2>1, <3>1, RankGrows
    <3> QED BY <2>2, <2>4, <3>2
  <2> QED BY <2>3, <2>4
<1>5. LastOf(t, n) = SubSeq(t, m - n + 1, m)
  BY DEF LastOf
<1> HIDE DEF t, m, k, S, W
<1>6. m >= n => Range(LastOf(t, n)) = {t[j] : j \in m - n + 1 .. m}
  <2> SUFFICES ASSUME m >= n PROVE Range(LastOf(t, n)) = {t[j] : j \in m - n + 1 .. m}
    OBVIOUS
  <2>1. m - n + 1 \in 1 .. m + 1 /\ m \in m - n .. m /\ m - n + 1 <= m
    BY <1>1
  <2>2. /\ Len(LastOf(t, n)) = n
        /\ \A i \in 1 .. n : LastOf(t, n)[i] = t[m - n + 1 + i - 1]
        /\ DOMAIN LastOf(t, n) = 1 .. n
    <3>1. LastOf(t, n) \in Seq(ScoreType) /\ Len(LastOf(t, n)) = m - (m - n + 1) + 1
          /\ \A i \in 1 .. m - (m - n + 1) + 1 : LastOf(t, n)[i] = t[m - n + 1 + i - 1]
      BY SMTT(40), <1>1, <1>5, <2>1, SubSeqProperties DEF m
    <3>2. m - (m - n + 1) + 1 = n
      BY <1>1
    <3>3. DOMAIN LastOf(t, n) = 1 .. Len(LastOf(t, n))
      BY <3>1, LenProperties
    <3> QED BY <3>1, <3>2, <3>3
  <2>3. \A i \in 1 .. n : m - n + 1 + i - 1 \in m - n + 1 .. m
    BY <1>1
  <2>4. \A j \in m - n + 1 .. m : j - (m - n) \in 1 .. n /\ m - n + 1 + (j - (m - n)) - 1 = j
    BY SMTT(40), <1>1
  <2> QED BY <2>2, <2>3, <2>4 DEF Range
<1>7. ASSUME m >= n, \A s \in Range(LastOf(t, n)) : s \in X
      PROVE  \E from \in 0 .. k : Cardinality(W(from)) = n /\ \A i \in W(from) : r[i].score \in X
  <2>1. PICK from \in 0 .. k : Rank(r, c, from) = m - n
    <3>1. CASE m = n
      <4>1. Rank(r, c, 0) <= 0 /\ Rank(r, c, 0) \in Nat
        BY SideFacts
      <4>2. Rank(r, c, 0) = m - n /\ 0 \in 0 .. k
        BY <1>1, <3>1, <4>1
      <4> QED BY <4>2
    <3>2. CASE m # n
      <4>1. m - n \in 1 .. m
        BY <1>1, <1>7, <3>2
      <4>2. PICK i \in S : Rank(r, c, i) = m - n
        BY <1>1, <4>1
      <4>3. i \in 0 .. k
        BY <1>1, <1>2
      <4> QED BY <4>2, <4>3
    <3> QED BY <3>1, <3>2
  <2>2. Cardinality(W(from)) = n
    BY <1>1, <1>3, <1>7, <2>1
  <2>3. ASSUME NEW i \in W(from) PROVE r[i].score \in X
    <3>1. i \in S /\ i > from
      BY DEF W
    <3>2. Rank(r, c, i) > m - n /\ Rank(r, c, i) \in 1 .. m
      BY <1>1, <1>4, <2>1, <3>1
    <3>3. Rank(r, c, i) \in m - n + 1 .. m
      BY <1>1, <3>2
    <3> QED BY <1>1, <1>6, <1>7, <3>1, <3>3
  <2> QED BY <2>2, <2>3
<1>8. ASSUME NEW from \in 0 .. k, Cardinality(W(from)) = n, \A i \in W(from) : r[i].score \in X
      PROVE  m >= n /\ \A s \in Range(LastOf(t, n)) : s \in X
  <2>1. m >= n /\ Rank(r, c, from) = m - n
    BY <1>1, <1>3, <1>8
  <2>2. ASSUME NEW j \in m - n + 1 .. m PROVE t[j] \in X
    <3>1. j \in 1 .. m /\ j > m - n
      BY <1>1, <2>1
    <3>2. PICK i \in S : Rank(r, c, i) = j
      BY <1>1, <3>1
    <3>3. i > from
      BY <1>4, <2>1, <3>1, <3>2
    <3> QED BY <1>1, <1>8, <3>2, <3>3 DEF W
  <2> QED BY <1>6, <2>1, <2>2
<1>9. (m >= n /\ \A s \in Range(LastOf(t, n)) : s \in X)
           <=> (\E from \in 0 .. k : Cardinality(W(from)) = n /\ \A i \in W(from) : r[i].score \in X)
  BY <1>7, <1>8
<1> QED BY <1>9 DEF t, m, k, S, W

\* A position occurred three times: the last and two others.
LEMMA ThriceMeansTwice ==
  ASSUME NEW S, NEW h \in Seq(S), NEW n \in Nat, Len(h) = n + 1
  PROVE  is_threefold_repetition_for_adjudication(h)
           <=> \E i, j \in 0 .. n - 1 : i < j /\ h[i + 1] = h[n + 1] /\ h[j + 1] = h[n + 1]
<1> DEFINE T == {i \in DOMAIN h : h[i] = Last(h)}
<1>1. DOMAIN h = 1 .. n + 1 /\ Last(h) = h[n + 1]
  BY LenProperties DEF Last
<1>2. T = {i \in 1 .. n + 1 : h[i] = h[n + 1]}
  BY <1>1
<1>3. IsFiniteSet(T) /\ Cardinality(T) \in Nat
  <2>1. 1 \in Int /\ n + 1 \in Int
    OBVIOUS
  <2>2. IsFiniteSet(1 .. n + 1) /\ T \subseteq 1 .. n + 1
    BY <1>2, <2>1, FS_Interval
  <2> QED BY <2>2, FS_Subset, FS_CardinalityType
<1>4. is_threefold_repetition_for_adjudication(h) <=> Cardinality(T) >= 3
  BY DEF is_threefold_repetition_for_adjudication
<1> HIDE DEF T
<1>5. ASSUME Cardinality(T) >= 3
      PROVE  \E i, j \in 0 .. n - 1 : i < j /\ h[i + 1] = h[n + 1] /\ h[j + 1] = h[n + 1]
  <2> DEFINE A == T \ {n + 1}
  <2>1. IsFiniteSet(A) /\ Cardinality(A) >= 2 /\ Cardinality(A) \in Nat
    <3>1. IsFiniteSet(A)
          /\ Cardinality(A) = IF n + 1 \in T THEN Cardinality(T) - 1 ELSE Cardinality(T)
      BY <1>3, FS_RemoveElement
    <3>2. Cardinality(A) \in Nat
      BY <3>1, FS_CardinalityType
    <3> QED BY <1>3, <1>5, <3>1, <3>2
  <2>2. PICK a \in A : TRUE
    <3>1. A # {}
      BY <2>1, FS_EmptySet
    <3> QED BY <3>1
  <2>3. IsFiniteSet(A \ {a}) /\ Cardinality(A \ {a}) >= 1
    <3> HIDE DEF A
    <3>1. IsFiniteSet(A \ {a})
          /\ Cardinality(A \ {a}) = IF a \in A THEN Cardinality(A) - 1 ELSE Cardinality(A)
      BY <2>1, FS_RemoveElement
    <3> QED BY <2>1, <3>1
  <2>4. PICK b \in A \ {a} : TRUE
    <3>1. A \ {a} # {}
      BY <2>3, FS_EmptySet
    <3> QED BY <3>1
  <2>5. /\ a \in 1 .. n + 1 /\ b \in 1 .. n + 1 /\ a # n + 1 /\ b # n + 1 /\ a # b
        /\ h[a] = h[n + 1] /\ h[b] = h[n + 1]
    BY <1>2, <2>4
  <2>6. /\ a - 1 \in 0 .. n - 1 /\ b - 1 \in 0 .. n - 1 /\ a - 1 + 1 = a /\ b - 1 + 1 = b
        /\ a - 1 < b - 1 \/ b - 1 < a - 1
    BY <2>5
  <2> QED BY <2>5, <2>6
<1>6. ASSUME NEW i \in 0 .. n - 1, NEW j \in 0 .. n - 1, i < j,
             h[i + 1] = h[n + 1], h[j + 1] = h[n + 1]
      PROVE  Cardinality(T) >= 3
  <2>1. i + 1 \in T /\ j + 1 \in T /\ n + 1 \in T
    <3>1. i + 1 \in 1 .. n + 1 /\ j + 1 \in 1 .. n + 1 /\ n + 1 \in 1 .. n + 1
      OBVIOUS
    <3> QED BY <1>2, <1>6, <3>1
  <2>2. j + 1 \notin {i + 1} /\ n + 1 \notin {i + 1} \cup {j + 1}
    BY <1>6
  <2>3. IsFiniteSet({i + 1}) /\ Cardinality({i + 1}) = 1
    BY FS_Singleton
  <2>4. IsFiniteSet({i + 1} \cup {j + 1}) /\ Cardinality({i + 1} \cup {j + 1}) = 2
    <3>1. Cardinality({i + 1} \cup {j + 1}) = Cardinality({i + 1}) + 1
          /\ IsFiniteSet({i + 1} \cup {j + 1})
      BY <2>2, <2>3, FS_AddElement
    <3> QED BY <2>3, <3>1
  <2>5. Cardinality(({i + 1} \cup {j + 1}) \cup {n + 1}) = 3
    <3>1. Cardinality(({i + 1} \cup {j + 1}) \cup {n + 1})
            = Cardinality({i + 1} \cup {j + 1}) + 1
      BY <2>2, <2>4, FS_AddElement
    <3> QED BY <2>4, <3>1
  <2>6. ({i + 1} \cup {j + 1}) \cup {n + 1} \subseteq T
    BY <2>1
  <2>7. Cardinality(({i + 1} \cup {j + 1}) \cup {n + 1}) <= Cardinality(T)
    BY <1>3, <2>6, FS_Subset
  <2> QED BY <1>3, <2>5, <2>7
<1> QED BY <1>4, <1>5, <1>6

LEMMA LastScores ==
  ASSUME NEW t \in Seq(ScoreType), NEW n \in Nat \ {0}, Len(t) >= n
  PROVE  \A s \in Range(LastOf(t, n)) : s \in ScoreType
<1>1. Len(t) \in Nat
  BY LenProperties
<1>2. Len(t) - n + 1 \in 1 .. Len(t) + 1 /\ Len(t) \in Len(t) - n .. Len(t)
      /\ Len(t) - n + 1 - 1 <= Len(t)
  BY <1>1
<1>3. LastOf(t, n) \in Seq(ScoreType)
  BY <1>2, SubSeqProperties DEF LastOf
<1> QED BY <1>3 DEF Range

\* The halfmove clock counts the plies since the last move that resets it.
LEMMA StillShown ==
  ASSUME NEW p, NEW r \in Seq(RecordType), ShowsCounters(p, r)
  PROVE  Cardinality({i \in 0 .. Len(r) : \A j \in i + 1 .. Len(r) : ~r[j].move.zeroes})
           = p.halfmove + 1
<1> DEFINE k == Len(r)
           h == p.halfmove
           still == {i \in 0 .. k : \A j \in i + 1 .. k : ~r[j].move.zeroes}
<1>1. /\ k \in Nat /\ h \in 0 .. k /\ \A i \in 1 .. k : i > k - h => ~r[i].move.zeroes
      /\ h < k => r[k - h].move.zeroes
  BY LenProperties DEF ShowsCounters
<1> HIDE DEF k, h
<1>2. ASSUME NEW i \in k - h .. k PROVE i \in still
  <2>1. i \in 0 .. k
    BY <1>1
  <2>2. ASSUME NEW j \in i + 1 .. k PROVE ~r[j].move.zeroes
    <3>1. j \in 1 .. k /\ j > k - h
      BY <1>1, <2>1
    <3> QED BY <1>1, <3>1
  <2> QED BY <2>1, <2>2
<1>3. ASSUME NEW i \in still PROVE i \in k - h .. k
  <2>1. i \in 0 .. k /\ \A j \in i + 1 .. k : ~r[j].move.zeroes
    OBVIOUS
  <2>2. CASE h = k
    BY <1>1, <2>1, <2>2
  <2>3. CASE h < k
    <3>1. ~(k - h \in i + 1 .. k)
      BY <1>1, <2>1, <2>3
    <3> HIDE DEF still
    <3> QED BY <1>1, <2>1, <2>3, <3>1
  <2> QED BY <1>1, <2>2, <2>3
<1>4. still = k - h .. k
  BY <1>2, <1>3
<1>5. k - h \in Int /\ k \in Int /\ ~(k - h > k) /\ k - (k - h) + 1 = h + 1
  BY <1>1
<1>6. Cardinality(k - h .. k) = k - (k - h) + 1
  BY <1>5, FS_Interval
<1> QED BY <1>4, <1>5, <1>6 DEF k, h

\* What the code asks of the position is what the rules ask of the game.
ReasonIs(i) ==
  LET side == record[Len(record)].side
  IN  CASE i = 1 -> Node(pos).moves = {} /\ Node(pos).check
        [] i = 2 -> Node(pos).moves = {} /\ ~Node(pos).check
        [] i = 3 -> pos.halfmove >= FIFTY_MOVES
        [] i = 4 -> is_threefold_repetition_for_adjudication(pos.history)
        [] i = 5 -> Node(pos).bare
        [] i = 6 -> resign_threshold_check(pos.scores[side])
        [] i = 7 -> draw_threshold_check(pos)
        [] i = 8 -> Len(pos.history) - 1 >= sc.max_plies

LEMMA ReasonsAre ==
  ASSUME TypeOK, Shows(pos, record), record # <<>>
  PROVE  Reasons(Plies) = {i \in 1 .. 8 : ReasonIs(i)}
<1> DEFINE k == Len(record)
           side == record[k].side
<1>0. pos \in PositionType /\ record \in Seq(RecordType)
  BY DEF TypeOK, GameTypeOK, RecordType
<1>1. k \in Nat \ {0} /\ side \in Colors /\ k \in 1 .. k
  <2>1. k \in Nat \ {0}
    BY <1>0, EmptySeq, LenProperties
  <2>2. k \in 1 .. k
    BY <2>1
  <2>3. record[k] \in RecordType
    BY <1>0, <2>2, ElementOfSeq
  <2> QED BY <2>1, <2>2, <2>3 DEF RecordType
<1>2. \A j \in 0 .. k : KeyAt(j) = KeyOf(record, j) /\ pos.history[j + 1] = KeyAt(j)
  BY DEF KeyAt, KeyOf, Shows, ShowsKeys
<1>3. Len(pos.history) = k + 1 /\ Last(pos.history) = KeyAt(k) /\ pos.history \in Seq(DOMAIN Graph)
  <2>1. Len(pos.history) = k + 1 /\ k \in 0 .. k
    BY <1>1 DEF Shows, ShowsKeys
  <2> QED BY <1>0, <1>2, <2>1 DEF Last, PositionType
<1>4. Graph[KeyAt(k)] = Node(pos)
  BY <1>3 DEF Node
<1>5. \A c \in Colors : By(c, k) = Side(record, c, k)
  BY DEF By, Side
<1>6. /\ {FIFTY_MOVES, RESIGN_SCORE, DRAW_SCORE, DRAW_MOVENUMBER} \subseteq Nat
      /\ {RESIGN_MOVECOUNT, DRAW_MOVECOUNT} \subseteq Nat \ {0}
  BY MatchGameAssumption
<1>7. \A i \in 1 .. k : record[i].score \in ScoreType
  <2> SUFFICES ASSUME NEW i \in 1 .. k PROVE record[i].score \in ScoreType
    OBVIOUS
  <2>1. record[i] \in RecordType
    BY <1>0, ElementOfSeq
  <2> QED BY <2>1 DEF RecordType
<1>8. \A c \in Colors : pos.scores[c] \in Seq(ScoreType)
  BY <1>0 DEF PositionType
<1> DEFINE rule == Rule(k)
<1>9. rule.checkmate = ReasonIs(1) /\ rule.stalemate = ReasonIs(2) /\ rule.insufficient = ReasonIs(5)
  BY <1>4 DEF Rule, ReasonIs
<1>10. rule.fifty = ReasonIs(3)
  <2>1. Cardinality({i \in 0 .. k : \A j \in i + 1 .. k : ~record[j].move.zeroes})
           = pos.halfmove + 1
    BY <1>0, StillShown DEF Shows
  <2>2. pos.halfmove \in Nat
    BY <1>0 DEF PositionType
  <2>3. (pos.halfmove + 1 > FIFTY_MOVES) = (pos.halfmove >= FIFTY_MOVES)
    BY <1>6, <2>2
  <2>4. rule.fifty = (Cardinality({i \in 0 .. k : \A j \in i + 1 .. k : ~record[j].move.zeroes})
                       > FIFTY_MOVES)
    BY DEF Rule
  <2> QED BY <2>1, <2>3, <2>4 DEF ReasonIs
<1>11. rule.threefold = ReasonIs(4)
  <2>1. rule.threefold = (\E i, j \in 0 .. k - 1 :
                             i < j /\ KeyAt(i) = KeyAt(k) /\ KeyAt(j) = KeyAt(k))
    BY DEF Rule
  <2>2. is_threefold_repetition_for_adjudication(pos.history)
           <=> \E i, j \in 0 .. k - 1 : /\ i < j /\ pos.history[i + 1] = pos.history[k + 1]
                                        /\ pos.history[j + 1] = pos.history[k + 1]
    BY <1>1, <1>3, ThriceMeansTwice
  <2>3. \A i \in 0 .. k - 1 : pos.history[i + 1] = KeyAt(i)
    BY <1>1, <1>2
  <2>4. pos.history[k + 1] = KeyAt(k)
    BY <1>1, <1>2
  <2>5. is_threefold_repetition_for_adjudication(pos.history) <=> rule.threefold
    BY <2>1, <2>2, <2>3, <2>4
  <2>6. rule.threefold \in BOOLEAN /\ is_threefold_repetition_for_adjudication(pos.history) \in BOOLEAN
    BY <2>1 DEF is_threefold_repetition_for_adjudication
  <2> QED BY <2>5, <2>6 DEF ReasonIs
<1>12. rule.resign = ReasonIs(6)
  <2> DEFINE X == {s \in ScoreType : Losing(s)}
  <2>1. Streak(side, RESIGN_MOVECOUNT, k, Losing)
          <=> (\E from \in 0 .. k :
                  /\ Cardinality({i \in Side(record, side, k) : i > from}) = RESIGN_MOVECOUNT
                  /\ \A i \in {i \in Side(record, side, k) : i > from} : record[i].score \in X)
    <3>1. \A i \in By(side, k) : record[i].score \in X <=> Losing(record[i].score)
      BY <1>7 DEF By
    <3> HIDE DEF X
    <3> QED BY <1>1, <1>5, <3>1 DEF Streak
  <2>2. Streak(side, RESIGN_MOVECOUNT, k, Losing)
          <=> (/\ Len(pos.scores[side]) >= RESIGN_MOVECOUNT
               /\ \A s \in Range(LastOf(pos.scores[side], RESIGN_MOVECOUNT)) : s \in X)
    <3> HIDE DEF X, side
    <3>1. ShowsScores(pos, record) /\ side \in Colors /\ RESIGN_MOVECOUNT \in Nat \ {0}
      BY <1>1, <1>6 DEF Shows
    <3>2. (Len(pos.scores[side]) >= RESIGN_MOVECOUNT
             /\ \A s \in Range(LastOf(pos.scores[side], RESIGN_MOVECOUNT)) : s \in X)
          <=> (\E from \in 0 .. k :
                  /\ Cardinality({i \in Side(record, side, k) : i > from}) = RESIGN_MOVECOUNT
                  /\ \A i \in {i \in Side(record, side, k) : i > from} : record[i].score \in X)
      BY <1>0, <3>1, WindowShown
    <3> QED BY <2>1, <3>2
  <2>3. Len(pos.scores[side]) >= RESIGN_MOVECOUNT
          => \A s \in Range(LastOf(pos.scores[side], RESIGN_MOVECOUNT)) : s \in ScoreType
    BY <1>1, <1>6, <1>8, LastScores
  <2>4. resign_threshold_check(pos.scores[side])
          <=> (/\ Len(pos.scores[side]) >= RESIGN_MOVECOUNT
               /\ \A s \in Range(LastOf(pos.scores[side], RESIGN_MOVECOUNT)) : s \in X)
    BY <2>3 DEF resign_threshold_check, Losing
  <2>5. rule.resign = Streak(side, RESIGN_MOVECOUNT, k, Losing)
    BY DEF Rule
  <2>6. /\ Streak(side, RESIGN_MOVECOUNT, k, Losing) \in BOOLEAN
        /\ resign_threshold_check(pos.scores[side]) \in BOOLEAN
    BY DEF Streak, resign_threshold_check
  <2>7. ReasonIs(6) = resign_threshold_check(pos.scores[side])
    BY DEF ReasonIs
  <2> HIDE DEF X, side
  <2> QED BY <2>2, <2>4, <2>5, <2>6, <2>7
<1>13. rule.draw = ReasonIs(7)
  <2> DEFINE X == {s \in ScoreType : Level(s)}
  <2>1. ASSUME NEW c \in Colors
        PROVE  Streak(c, DRAW_MOVECOUNT, k, Level)
          <=> (/\ Len(pos.scores[c]) >= DRAW_MOVECOUNT
               /\ \A s \in Range(LastOf(pos.scores[c], DRAW_MOVECOUNT)) :
                    s.kind = "cp" /\ s.value \in -DRAW_SCORE .. DRAW_SCORE)
    <3>1. Streak(c, DRAW_MOVECOUNT, k, Level)
          <=> (\E from \in 0 .. k :
                  /\ Cardinality({i \in Side(record, c, k) : i > from}) = DRAW_MOVECOUNT
                  /\ \A i \in {i \in Side(record, c, k) : i > from} : record[i].score \in X)
      <4>1. \A i \in By(c, k) : record[i].score \in X <=> Level(record[i].score)
        BY <1>7 DEF By
      <4> HIDE DEF X
      <4> QED BY <1>1, <1>5, <4>1 DEF Streak
    <3>2. Streak(c, DRAW_MOVECOUNT, k, Level)
          <=> (/\ Len(pos.scores[c]) >= DRAW_MOVECOUNT
               /\ \A s \in Range(LastOf(pos.scores[c], DRAW_MOVECOUNT)) : s \in X)
      <4> HIDE DEF X
      <4>1. ShowsScores(pos, record) /\ DRAW_MOVECOUNT \in Nat \ {0}
        BY <1>6 DEF Shows
      <4>2. (Len(pos.scores[c]) >= DRAW_MOVECOUNT
               /\ \A s \in Range(LastOf(pos.scores[c], DRAW_MOVECOUNT)) : s \in X)
            <=> (\E from \in 0 .. k :
                    /\ Cardinality({i \in Side(record, c, k) : i > from}) = DRAW_MOVECOUNT
                    /\ \A i \in {i \in Side(record, c, k) : i > from} : record[i].score \in X)
        BY <1>0, <4>1, WindowShown
      <4> QED BY <3>1, <4>2
    <3>3. Len(pos.scores[c]) >= DRAW_MOVECOUNT
          => \A s \in Range(LastOf(pos.scores[c], DRAW_MOVECOUNT)) : s \in ScoreType
      BY <1>1, <1>6, <1>8, LastScores
    <3>4. \A s \in ScoreType : s \in X <=> s.kind = "cp" /\ s.value \in -DRAW_SCORE .. DRAW_SCORE
      BY <1>6 DEF Level, ScoreType
    <3> HIDE DEF X
    <3> QED BY <3>2, <3>3, <3>4
  <2>2. NumberAt(k) = pos.number
    <3>1. "black" \in Colors
      BY DEF Colors
    <3> QED BY <1>5, <3>1 DEF NumberAt, Shows, ShowsCounters, Rank
  <2>3. rule.draw = (/\ NumberAt(k) >= DRAW_MOVENUMBER
                     /\ \A c \in Colors : Streak(c, DRAW_MOVECOUNT, k, Level))
    BY DEF Rule
  <2>4. rule.draw <=> draw_threshold_check(pos)
    BY <2>1, <2>2, <2>3 DEF draw_threshold_check
  <2>5. rule.draw \in BOOLEAN /\ draw_threshold_check(pos) \in BOOLEAN
    BY <2>3 DEF draw_threshold_check
  <2> QED BY <2>4, <2>5 DEF ReasonIs
<1>14. rule.max_plies = ReasonIs(8)
  <2>1. Len(pos.history) - 1 = k
    BY <1>1, <1>3
  <2> QED BY <2>1 DEF Rule, ReasonIs
<1>15. DOMAIN Precedence = 1 .. 8
  BY DEF Precedence
<1> HIDE DEF k
<1>16. Reasons(k) = {i \in 1 .. 8 : rule[Precedence[i]]}
  BY <1>15 DEF Reasons
<1>17. \A i \in 1 .. 8 : i \in {1, 2, 3, 4, 5, 6, 7, 8}
  OBVIOUS
<1> HIDE DEF rule
<1>18. /\ rule[Precedence[1]] = rule.checkmate /\ rule[Precedence[2]] = rule.stalemate
       /\ rule[Precedence[3]] = rule.fifty /\ rule[Precedence[4]] = rule.threefold
       /\ rule[Precedence[5]] = rule.insufficient /\ rule[Precedence[6]] = rule.resign
       /\ rule[Precedence[7]] = rule.draw /\ rule[Precedence[8]] = rule.max_plies
  BY DEF Precedence
<1>19. \A i \in 1 .. 8 : rule[Precedence[i]] = ReasonIs(i)
  BY <1>9, <1>10, <1>11, <1>12, <1>13, <1>14, <1>17, <1>18
<1>20. {i \in 1 .. 8 : rule[Precedence[i]]} = {i \in 1 .. 8 : ReasonIs(i)}
  BY <1>19
<1> QED BY <1>16, <1>20 DEF Plies, k

\* The verdict is the first of the reasons, and for the side it is about.
LEMMA VerdictEarned ==
  ASSUME TypeOK, Shows(pos, record), record # <<>>,
         outcome = Verdict(pos, record[Plies].side)
  PROVE  Earned
<1> DEFINE R == Reasons(Plies)
           side == record[Plies].side
<1>1. R = {i \in 1 .. 8 : ReasonIs(i)} /\ R \subseteq 1 .. 8
  BY ReasonsAre
<1>2. Opposite(side_to_move(pos)) = side
  <2>1. pos \in PositionType /\ record \in Seq(RecordType)
    BY DEF TypeOK, GameTypeOK, RecordType
  <2>2. Plies \in Nat \ {0} /\ Plies \in 1 .. Plies /\ Plies \in 0 .. Plies
    <3>1. Plies \in Nat \ {0}
      BY <2>1, EmptySeq, LenProperties DEF Plies
    <3> QED BY <3>1
  <2>3. Len(pos.history) = Plies + 1 /\ pos.history[Plies + 1] = KeyOf(record, Plies)
        /\ Graph[KeyOf(record, Plies)].side = Opposite(side)
    BY <2>2 DEF Plies, Shows, ShowsKeys
  <2>4. side_to_move(pos) = Opposite(side)
    BY <2>1, <2>3 DEF side_to_move, Node, Last, PositionType
  <2>5. side \in Colors
    <3>1. record[Plies] \in RecordType
      BY <2>1, <2>2, ElementOfSeq DEF Plies
    <3> QED BY <3>1 DEF RecordType
  <2> QED BY <2>4, <2>5 DEF Opposite, Colors
<1>3. /\ ReasonIs(1) <=> Node(pos).moves = {} /\ Node(pos).check
      /\ ReasonIs(2) <=> Node(pos).moves = {} /\ ~Node(pos).check
      /\ ReasonIs(3) <=> pos.halfmove >= FIFTY_MOVES
      /\ ReasonIs(4) <=> is_threefold_repetition_for_adjudication(pos.history)
      /\ ReasonIs(5) <=> Node(pos).bare
      /\ ReasonIs(6) <=> resign_threshold_check(pos.scores[side])
      /\ ReasonIs(7) <=> draw_threshold_check(pos)
      /\ ReasonIs(8) <=> Len(pos.history) - 1 >= sc.max_plies
  BY DEF ReasonIs, Plies
<1>4. \A i \in 1 .. 8 : i \in {1, 2, 3, 4, 5, 6, 7, 8}
  OBVIOUS
<1>5. /\ Precedence[1] = "checkmate" /\ Precedence[2] = "stalemate" /\ Precedence[3] = "fifty"
      /\ Precedence[4] = "threefold" /\ Precedence[5] = "insufficient" /\ Precedence[6] = "resign"
      /\ Precedence[7] = "draw" /\ Precedence[8] = "max_plies"
  BY DEF Precedence
<1> HIDE DEF R, side
<1>6. ASSUME NEW i \in R, \A j \in 1 .. 8 : j < i => ~ReasonIs(j),
             outcome.kind = Precedence[i], Precedence[i] \notin {"none", "time", "illegal"},
             Precedence[i] \in {"checkmate", "resign"} => outcome.color = side
      PROVE  Earned
  <2>1. \A j \in R : i <= j
    BY <1>1, <1>6
  <2> QED BY <1>6, <2>1 DEF Earned, R, side
<1>7. CASE ReasonIs(1) \/ ReasonIs(2)
  <2>1. Node(pos).moves = {}
    BY <1>3, <1>7
  <2>2. detect_native_game_over(pos)
          = (IF Node(pos).check THEN Over("checkmate", side) ELSE Over("stalemate", "white"))
    BY <1>2, <2>1 DEF detect_native_game_over
  <2>3. detect_native_game_over(pos) # GoesOn
    BY <2>2 DEF GoesOn, Over
  <2>4. outcome = detect_native_game_over(pos)
    BY <2>3 DEF Verdict
  <2>5. CASE ReasonIs(1)
    <3>1. outcome.kind = "checkmate" /\ outcome.color = side
      BY <1>3, <2>2, <2>4, <2>5 DEF Over
    <3>2. 1 \in R /\ \A j \in 1 .. 8 : ~(j < 1)
      BY <1>1, <2>5
    <3> QED BY <1>5, <1>6, <3>1, <3>2
  <2>6. CASE ReasonIs(2) /\ ~ReasonIs(1)
    <3>1. outcome.kind = "stalemate"
      BY <1>3, <2>2, <2>4, <2>6 DEF Over
    <3>2. 2 \in R /\ \A j \in 1 .. 8 : j < 2 => j = 1
      BY <1>1, <2>6
    <3> QED BY <1>5, <1>6, <2>6, <3>1, <3>2
  <2> QED BY <1>7, <2>5, <2>6
<1>8. CASE ~ReasonIs(1) /\ ~ReasonIs(2) /\ (ReasonIs(3) \/ ReasonIs(4) \/ ReasonIs(5))
  <2>1. Node(pos).moves # {}
    BY <1>3, <1>8
  <2>2. detect_native_game_over(pos) =
          IF ReasonIs(3) THEN Over("fifty", "white")
          ELSE IF ReasonIs(4) THEN Over("threefold", "white") ELSE Over("insufficient", "white")
    BY <1>3, <1>8, <2>1 DEF detect_native_game_over
  <2>3. detect_native_game_over(pos) # GoesOn
    BY <2>2 DEF GoesOn, Over
  <2>4. outcome = detect_native_game_over(pos)
    BY <2>3 DEF Verdict
  <2>5. CASE ReasonIs(3)
    <3>1. outcome.kind = "fifty"
      BY <2>2, <2>4, <2>5 DEF Over
    <3>2. 3 \in R /\ \A j \in 1 .. 8 : j < 3 => j \in {1, 2}
      BY <1>1, <2>5
    <3> QED BY <1>5, <1>6, <1>8, <3>1, <3>2
  <2>6. CASE ReasonIs(4) /\ ~ReasonIs(3)
    <3>1. outcome.kind = "threefold"
      BY <2>2, <2>4, <2>6 DEF Over
    <3>2. 4 \in R /\ \A j \in 1 .. 8 : j < 4 => j \in {1, 2, 3}
      BY <1>1, <2>6
    <3> QED BY <1>5, <1>6, <1>8, <2>6, <3>1, <3>2
  <2>7. CASE ReasonIs(5) /\ ~ReasonIs(3) /\ ~ReasonIs(4)
    <3>1. outcome.kind = "insufficient"
      BY <2>2, <2>4, <2>7 DEF Over
    <3>2. 5 \in R /\ \A j \in 1 .. 8 : j < 5 => j \in {1, 2, 3, 4}
      BY <1>1, <2>7
    <3> QED BY <1>5, <1>6, <1>8, <2>7, <3>1, <3>2
  <2> QED BY <1>8, <2>5, <2>6, <2>7
<1>9. CASE ~ReasonIs(1) /\ ~ReasonIs(2) /\ ~ReasonIs(3) /\ ~ReasonIs(4) /\ ~ReasonIs(5)
  <2>1. detect_native_game_over(pos) = GoesOn
    BY <1>3, <1>9 DEF detect_native_game_over
  <2>2. outcome = (IF ReasonIs(6) THEN Over("resign", side)
                   ELSE IF ReasonIs(7) THEN Over("draw", "white")
                   ELSE IF ReasonIs(8) THEN Over("max_plies", "white") ELSE GoesOn)
    BY <1>3, <2>1 DEF Verdict, side
  <2>3. CASE ReasonIs(6)
    <3>1. outcome.kind = "resign" /\ outcome.color = side
      BY <2>2, <2>3 DEF Over
    <3>2. 6 \in R /\ \A j \in 1 .. 8 : j < 6 => j \in {1, 2, 3, 4, 5}
      BY <1>1, <2>3
    <3> QED BY <1>5, <1>6, <1>9, <3>1, <3>2
  <2>4. CASE ReasonIs(7) /\ ~ReasonIs(6)
    <3>1. outcome.kind = "draw"
      BY <2>2, <2>4 DEF Over
    <3>2. 7 \in R /\ \A j \in 1 .. 8 : j < 7 => j \in {1, 2, 3, 4, 5, 6}
      BY <1>1, <2>4
    <3> QED BY <1>5, <1>6, <1>9, <2>4, <3>1, <3>2
  <2>5. CASE ReasonIs(8) /\ ~ReasonIs(6) /\ ~ReasonIs(7)
    <3>1. outcome.kind = "max_plies"
      BY <2>2, <2>5 DEF Over
    <3>2. 8 \in R /\ \A j \in 1 .. 8 : j < 8 => j \in {1, 2, 3, 4, 5, 6, 7}
      BY <1>1, <2>5
    <3> QED BY <1>5, <1>6, <1>9, <2>5, <3>1, <3>2
  <2>6. CASE ~ReasonIs(6) /\ ~ReasonIs(7) /\ ~ReasonIs(8)
    <3>1. R = {}
      BY <1>1, <1>4, <1>9, <2>6
    <3>2. outcome.kind = "none"
      BY <2>2, <2>6 DEF GoesOn, Over
    <3> QED BY <3>1, <3>2 DEF Earned, R
  <2> QED BY <2>3, <2>4, <2>5, <2>6
<1> QED BY <1>7, <1>8, <1>9

\* A move that is played is shown, and its verdict is that of the code.
LEMMA BestmoveShows ==
  ASSUME TypeOK, PipeInv, TurnInv, MissedInv, LostInv, PosInv, HearBestmove, record' # record
  PROVE  /\ Shows(pos, record)' /\ record' # <<>> /\ sc' = sc
         /\ outcome' = Verdict(pos, record[Plies].side)'
<1>0. PICK e \in Players : e = who
  BY DEF TypeOK, WorkerTypeOK
<1>1. PICK f \in Players :
           /\ f = who /\ Head(out[f]).go = Tag /\ Head(out[f]) \in LineType
           /\ Played(f) \/ (record' = record /\ clock' = clock /\ ~Thinking')
  BY BestmoveRecords
<1>2. /\ ~(sc.wallclock /\ Forfeited(clock[Mover])) /\ IsLegal(pos, Head(out[e]).move)
  BY <1>0 DEF HearBestmove
<1> DEFINE move == MoveOf(pos, Head(out[e]).move)
           x == [side |-> Mover, move |-> move, score |-> last_info[e].score,
                 from |-> last_info[e].go, answers |-> Head(out[e]).go,
                 asked |-> GoTag(pos, leg)]
<1>3. PICK next : next = MoveTo(pos, move, last_info[e].score)
  OBVIOUS
<1>4. /\ pos' = next /\ record' = Append(record, x) /\ sc' = sc
      /\ IF Verdict(next, Mover) # GoesOn THEN outcome' = Verdict(next, Mover)
         ELSE outcome' = outcome
  BY <1>0, <1>2, <1>3 DEF HearBestmove, End
<1>5. pos \in PositionType /\ record \in Seq(RecordType) /\ leg \in {0, 1}
  BY DEF TypeOK, GameTypeOK, WorkerTypeOK, RecordType
<1>6. move \in Node(pos).moves
  BY <1>2 DEF IsLegal, MoveOf
<1>7. x \in RecordType
  <2>1. last_info[e].score \in ScoreType /\ last_info[e].go \in Tags
    BY DEF TypeOK, GameTypeOK
  <2>2. Mover \in Colors /\ GoTag(pos, leg) \in Tags
    BY <1>5, NodeType, TagType DEF TypeOK, Mover
  <2>3. Head(out[e]).go \in Tags
    BY <1>0, <1>1 DEF LineType
  <2>4. move \in MoveType
    BY <1>5, <1>6, NodeType
  <2> HIDE DEF move
  <2> QED BY <2>1, <2>2, <2>3, <2>4 DEF RecordType
<1>8. x.move = move /\ x.score = last_info[e].score /\ x.side = Mover
  OBVIOUS
<1> HIDE DEF x, move
<1>9. Thinking /\ outcome = GoesOn
  BY DEF HearBestmove, TurnInv
<1>10. Shows(next, Append(record, x))
  BY <1>3, <1>5, <1>6, <1>7, <1>8, <1>9, ShowsNext DEF PosInv, Mover
<1>11. Shows(pos', record')
  BY <1>4, <1>10
<1>12. /\ Len(record') = Len(record) + 1 /\ record'[Len(record) + 1] = x
       /\ record' # <<>>
  BY <1>4, <1>5, <1>7, AppendFacts
<1>13. outcome' = Verdict(next, Mover)
  BY <1>4, <1>9
<1>14. PICK m : m = Mover
  OBVIOUS
<1>15. record'[Plies'].side = m
  BY <1>8, <1>12, <1>14 DEF Plies
<1>16. outcome' = Verdict(pos, record[Plies].side)'
  BY <1>4, <1>13, <1>14, <1>15 DEF Verdict, draw_threshold_check, resign_threshold_check
<1>17. Shows(pos, record)'
  BY <1>11
<1> QED BY <1>4, <1>12, <1>16, <1>17

LEMMA PosStep ==
  ASSUME TypeOK, PipeInv, TurnInv, MissedInv, LostInv, PosInv, [Next]_vars
  PROVE  PosInv'
<1>1. CASE HearBestmove /\ record' # record
  BY <1>1, BestmoveShows DEF PosInv
<1>2. CASE HearBestmove /\ record' = record
  <2>1. ~Thinking'
    <3>1. PICK e \in Players : Played(e) \/ (record' = record /\ clock' = clock /\ ~Thinking')
      BY <1>2, BestmoveRecords
    <3>2. ~Played(e)
      <4> SUFFICES ASSUME NEW y, record' = Append(record, y) PROVE FALSE
        BY DEF Played
      <4>1. Len(record') = Len(record) + 1 /\ Len(record) \in Nat
        BY AppendFacts, LenProperties DEF TypeOK, GameTypeOK
      <4> QED BY <1>2, <4>1
    <3> QED BY <3>1, <3>2
  <2> QED BY <2>1 DEF PosInv
<1>3. CASE StartGame
  BY <1>3, ShowsStart DEF StartGame, PosInv
<1>4. CASE UNCHANGED <<record, pos>> /\ (Thinking' => Thinking)
  BY <1>4 DEF PosInv
<1> QED BY <1>1, <1>2, <1>3, <1>4, GameSteps


-----------------------------------------------------------------------------
LEMMA InitInv == Init => IInv
<1> SUFFICES ASSUME Init PROVE IInv
  OBVIOUS
<1>1. TypeOK
  BY TypeInit
<1>2. /\ pc = "uciok" /\ who = "engine" /\ leg = 0 /\ missed = FALSE /\ lost = {} /\ seen = 0
      /\ proc = [p \in Players |-> "idle"] /\ out = [p \in Players |-> <<>>]
      /\ inbox = [p \in Players |-> IF p = "engine" THEN <<Cmd("uci")>> ELSE <<>>]
      /\ configured = [p \in Players |-> FALSE] /\ record = <<>> /\ outcome = GoesOn
  BY DEF Init
<1>3. ~Thinking /\ ~Leaving /\ MissedInv /\ TurnInv /\ RecordInv /\ ClockInv /\ SeenInv
  BY <1>2 DEF Thinking, Leaving, MissedInv, TurnInv, RecordInv, ClockInv, SeenInv
<1>31. PosInv
  BY <1>3 DEF PosInv
<1>4. LostInv
  BY <1>2 DEF LostInv, BothPlay
<1>5. ConfigInv
  BY <1>2 DEF ConfigInv
<1>6. ASSUME NEW e \in Players PROVE Piped(e) /\ Thinks(e)
  <2>0. out[e] = <<>> /\ ~Moving(e) /\ (Asked(e) <=> e = "engine") /\ proc[e] = "idle"
    BY <1>2, <1>3 DEF Moving, Asked, Awaiting
  <2>1. CASE e = "engine"
    <3>1. PICK ops : ops = <<Cmd("uci")>>
      OBVIOUS
    <3>2. /\ ops[Len(ops)].op = "uci" /\ \A i \in 1 .. Len(ops) : ops[i].op # "go"
          /\ \A i \in 1 .. Len(ops) - 1 : ops[i].op \in {"setoption", "ucinewgame"}
      BY ZenonT(40), <3>1, Questions DEF Asking
    <3>3. inbox[e] = ops
      BY <1>2, <2>1, <3>1
    <3>4. Replies(e)
      <4>1. Quiets(out[e]) /\ Final(out[e], Expected)
            /\ \A i \in 1 .. Len(out[e]) : out[e][i].kind = Expected \/ Dull(out[e][i])
        BY <2>0 DEF Quiets, Final
      <4> QED BY <1>2, <3>2, <3>3, <4>1 DEF Replies
    <3> QED BY <2>0, <2>1, <3>2, <3>3, <3>4 DEF Piped, Thinks
  <2>2. CASE e # "engine"
    <3>1. inbox[e] = <<>>
      BY <1>2, <2>2
    <3> QED BY <2>0, <2>2, <3>1 DEF Piped, Thinks, Rests, Quiets
  <2> QED BY <2>1, <2>2
<1> QED BY <1>1, <1>3, <1>31, <1>4, <1>5, <1>6 DEF IInv, PipeInv, ThinkInv

LEMMA StepInv == IInv /\ [Next]_vars => IInv'
  BY TypeStep, PipeStep, LostStep, SeenStep, ConfigStep, RecordStep, ClockStep, PosStep DEF IInv

LEMMA InvHolds == Spec => []IInv
  BY InitInv, StepInv, PTL DEF Spec

\* Engines that do not forget their options when they hear ucinewgame.
KeepsOptions == \A s \in Scenarios : ~s.clears

\* A move that is played, and a score that adjudication reads, is the answer to the go
\* of the position it is played in; and an engine that keeps its options over
\* ucinewgame thinks with those of its pair (recv_until_bestmove, play_one_game).
THEOREM AnswersCorrect == KeepsOptions => (Spec => []AnswersItsGo)
<1> SUFFICES ASSUME KeepsOptions PROVE Spec => []AnswersItsGo
  OBVIOUS
<1>1. IInv => AnswersItsGo
  <2> SUFFICES ASSUME IInv PROVE AnswersItsGo
    OBVIOUS
  <2>1. ~sc.clears
    BY DEF KeepsOptions, IInv, TypeOK, WorkerTypeOK
  <2>2. ASSUME NEW e \in Players, proc[e] = "thinking" PROVE configured[e]
    <3>1. pc = "bestmove"
      BY <2>2 DEF IInv, ThinkInv, Thinks, Moving, Thinking
    <3> QED BY <2>1, <2>2, <3>1 DEF IInv, ConfigInv, Configurable
  <2>3. DOMAIN record = 1 .. Len(record)
    BY DEF IInv, TypeOK, GameTypeOK
  <2> QED BY <2>2, <2>3 DEF AnswersItsGo, IInv, RecordInv
<1> QED BY <1>1, InvHolds, PTL

\* The clock of each side at the start of its move is its base, less what its engine
\* has used and plus an increment for each move, and is never below what the
\* overhead forgives (play_one_game and apply_move).
THEOREM ClocksCorrect == Spec => []ClocksAreTrue
<1>1. IInv => ClocksAreTrue
  <2> SUFFICES ASSUME IInv, Playing, NEW p \in Players
               PROVE  /\ clock[ColorOf(p)].remaining =
                           IF sc.wallclock THEN Budget(p, MovesBy(ColorOf(p)))
                           ELSE sc.tc[p].initial
                      /\ sc.wallclock => Budget(p, MovesBy(ColorOf(p))) >= -HARNESS_OVERHEAD
    BY DEF ClocksAreTrue
  <2>1. leg \in {0, 1}
    BY DEF IInv, TypeOK, WorkerTypeOK
  <2>2. ColorOf(p) \in Colors /\ PlayerOf(ColorOf(p), leg) = p
    BY <2>1 DEF ColorOf, PlayerOf, Colors, Players
  <2> QED BY <2>2 DEF IInv, ClockInv, Playing
<1> QED BY <1>1, InvHolds, PTL

\* A process that is alive is given up only after a wait of the whole watchdog, less the
\* slack, with the host awake (recv_until_bestmove and its suspend check).
THEOREM OnlyTheHungAreHung == Spec => HungIsHung
<1>1. TypeOK /\ [Next]_vars =>
        [(Thinking /\ lost' # lost /\ ~Dead(who)) => elapsed >= WATCHDOG - SUSPEND_SLACK]_vars
  <2> SUFFICES ASSUME TypeOK, [Next]_vars, lost' # lost, ~Dead(who)
               PROVE  elapsed >= WATCHDOG - SUSPEND_SLACK
    OBVIOUS
  <2>1. WatchdogExpires
    BY DEF Next, vars, Harness, Timer, HearAnswer, HearOther, HearEnd, Take, HungUp,
         ReportPair, HearInfo, HearBestmove, HearExit, Reap, JoinReader, NoAnswer, WaitAgain,
         Slow, Tick, Nap, Engine, Fault, Babble, Read, Tell, Answer, Crash, Hang, StartBabbling,
         Break, UNCHANGED_Harness, Command, Dismiss, Drop, UNCHANGED_Worker, Terminated
  <2>2. elapsed \in Nat /\ WATCHDOG \in Nat /\ SUSPEND_SLACK \in Nat
    BY ScenarioFacts, MatchGameAssumption DEF TypeOK, GameTypeOK
  <2>3. elapsed >= WATCHDOG \/ ~(WATCHDOG - elapsed > SUSPEND_SLACK)
    BY <2>1 DEF WatchdogExpires, timeout_was_suspend
  <2> QED BY <2>2, <2>3
<1> QED BY <1>1, TypeCorrect, PTL DEF Spec, HungIsHung

\* A position that shows the game so far, and the verdict of the code on it.
Decided ==
  Shows(pos, record) /\ record # <<>> /\ outcome = Verdict(pos, record[Plies].side)

\* A game ends with the first ply that fulfils a rule, by the first of the rules it
\* fulfils and for the right side, and with no other ply (play_one_game, adjudicate.rs).
THEOREM VerdictsEarned == Spec => VerdictIsEarned
<1>1. TypeOK /\ Decided => Earned
  BY VerdictEarned DEF Decided
<1>2. (TypeOK /\ Decided)' => Earned'
  BY <1>1, PTL
<1>3. IInv /\ IInv' /\ [Next]_vars => [(record' # record /\ record' # <<>>) => Earned']_vars
  <2> SUFFICES ASSUME IInv, IInv', [Next]_vars, record' # record, record' # <<>>
               PROVE  Earned'
    OBVIOUS
  <2>1. ~StartGame
    BY DEF StartGame
  <2>2. HearBestmove
    BY <2>1, GameSteps DEF IInv
  <2>3. Decided'
    BY <2>2, BestmoveShows DEF IInv, Decided
  <2>4. TypeOK'
    BY DEF IInv
  <2> QED BY <1>2, <2>3, <2>4
<1> QED BY <1>3, InvHolds, PTL DEF Spec, VerdictIsEarned


-----------------------------------------------------------------------------
\* The worker implements that of WorkerPool, step by step.
Mapped == Pool!WorkerStep(0, sc.spsa) \/ Command \/ Dismiss \/ Drop
PoolScene == <<PoolPc, pair, leg, lost, cmds, open, reports, won, seen>>
Worker == [pc |-> PoolPc, pair |-> pair, leg |-> leg]

LEMMA Stutters ==
  ASSUME UNCHANGED PoolScene
  PROVE  UNCHANGED Pool!poolVars
  BY DEF PoolScene, Pool!poolVars

LEMMA PoolMap ==
  /\ \A k : Pool!At(0, k) <=> PoolPc = k
  /\ \A k : PoolPc' = k /\ UNCHANGED <<pair, leg>> => Pool!Go(0, k)
<1>1. ASSUME NEW k PROVE Pool!At(0, k) <=> PoolPc = k
  BY DEF Pool!At
<1>2. ASSUME NEW k, PoolPc' = k, UNCHANGED <<pair, leg>> PROVE Pool!Go(0, k)
  BY <1>2 DEF Pool!Go
<1> QED BY <1>1, <1>2

LEMMA PoolAnswered ==
  ASSUME TypeOK, pc \in {"uciok", "static", "options", "newgame"}
  PROVE  Pool!Answered(0, sc.spsa) <=> lost \subseteq (IF OnlyOpponent THEN {"engine"} ELSE {})
<1>1. PoolPc = "syncing" <=> pc = "options"
  BY DEF PoolPc
<1>2. Pool!At(0, "syncing") <=> pc = "options"
  BY <1>1, PoolMap
<1>3. lost \subseteq {"engine", "opponent"} /\ sc.spsa \in BOOLEAN
  BY ScenarioFacts DEF TypeOK, WorkerTypeOK, Players
<1>4. Pool!Answered(0, sc.spsa) <=>
        (IF pc = "options" /\ ~sc.spsa THEN {"opponent"} ELSE Players) \subseteq Players \ lost
  BY <1>2 DEF Pool!Answered, Pool!Awaited, Pool!Players, Players
<1> QED BY <1>3, <1>4 DEF OnlyOpponent, Players

LEMMA FailStarves ==
  ASSUME IInv, Fail, pc \in {"uciok", "static", "options", "newgame"},
         UNCHANGED <<pair, cmds, open, lost>>
  PROVE  Pool!Starved(0, sc.spsa)
<1>1. /\ PoolPc \in {"starting", "syncing", "newgame"} /\ PoolPc' = "leaving" /\ leg' = leg
      /\ reports' = Append(reports, Failure) /\ won' = won
  BY DEF PoolPc, Fail, BeginShutdown, Ask, Say
<1>2. seen \in {0, 1}
  BY DEF IInv, SeenInv, Leaving
<1>3. IF Pool!Answered(0, sc.spsa) THEN seen < 4 /\ seen' = seen + 1 ELSE seen' = seen
  BY <1>2, PoolAnswered DEF Fail, IInv
<1>4. Pool!Go(0, "leaving") /\ Pool!Say(Pool!Failure(0))
  BY <1>1, PoolMap DEF Pool!Say, Pool!Failure, Failure
<1>5. Pool!At(0, "starting") \/ Pool!At(0, "syncing") \/ Pool!At(0, "newgame")
  BY <1>1, PoolMap
<1> QED BY <1>1, <1>3, <1>4, <1>5 DEF Pool!Starved

LEMMA EndEnds ==
  ASSUME IInv, Thinking, NEW o \in Outcomes, End(o), pair' = pair
  PROVE  Pool!Ends(0, Winner(o)) /\ Winner(o) \in Players \cup {"draw"}
<1>1. lost = {} /\ leg \in {0, 1}
  BY DEF IInv, LostInv, BothPlay, Thinking, TypeOK, WorkerTypeOK
<1>2. PoolPc = "newgame" /\ PoolPc' = (IF leg = 0 THEN "newgame" ELSE "paired") /\ leg' = 1
      /\ won' = [won EXCEPT ![game_index] = Winner(o)]
      /\ reports' = Append(reports, GameComplete(compute_clawfish_score(o, leg = 0)))
  BY DEF PoolPc, Thinking, End, Ask, Say
<1>3. compute_clawfish_score(o, leg = 0) =
        Pool!compute_clawfish_score(
          IF Winner(o) = "draw" THEN "draw" ELSE Pool!ColorOf(Winner(o), leg), leg = 0)
      /\ Winner(o) \in Players \cup {"draw"}
  BY <1>1, ScoreIsWinners
<1>4. Pool!At(0, "newgame")
  BY <1>2, PoolMap
<1>5. Pool!game_index(pair, leg) = game_index
  BY DEF Pool!game_index, game_index
<1>6. [w \in {0} |-> [pc |-> PoolPc, pair |-> pair, leg |-> leg]]' =
        [[w \in {0} |-> [pc |-> PoolPc, pair |-> pair, leg |-> leg]] EXCEPT
           ![0].pc = IF leg = 0 THEN "newgame" ELSE "paired", ![0].leg = 1]
  BY <1>2
<1>7. GameComplete(compute_clawfish_score(o, leg = 0)) =
        Pool!GameComplete(0, game_index, compute_clawfish_score(o, leg = 0))
  BY DEF GameComplete, Pool!GameComplete
<1> QED BY <1>1, <1>2, <1>3, <1>4, <1>5, <1>6, <1>7 DEF Pool!Ends, Pool!Say, Pool!Players, Players

LEMMA HarnessMaps ==
  ASSUME IInv, HearAnswer \/ HearEnd \/ NoAnswer \/ Slow
  PROVE  Mapped \/ UNCHANGED PoolScene
<1>0. UNCHANGED <<pair, cmds, open, lost, sc>> /\ pc \in {"uciok", "static", "options", "newgame"}
  BY DEF HearAnswer, HearEnd, NoAnswer, Slow, Awaiting
<1>1. CASE Fail
  BY <1>0, <1>1, FailStarves DEF Mapped, Pool!WorkerStep
<1>2. CASE ~Fail /\ PoolPc' = PoolPc
  BY <1>0, <1>2 DEF PoolScene, HearAnswer, HearEnd, NoAnswer, Slow, Answered, Unanswered, InTurn,
       Keep, StartGame
<1>3. CASE ~Fail /\ PoolPc' # PoolPc
  <2>1. HearAnswer /\ Keep
        /\ \/ pc = "static" /\ pc' = "ready"
           \/ pc = "options" /\ who = "opponent" /\ pc' = "newgame"
    BY <1>3 DEF HearAnswer, HearEnd, NoAnswer, Slow, Answered, Unanswered, InTurn, Ask, StartGame,
         AskMove, PoolPc
  <2>2. UNCHANGED <<leg, reports, won, seen>>
    BY <2>1 DEF Keep
  <2>3. CASE pc = "static" /\ pc' = "ready"
    <3>1. PoolPc = "starting" /\ PoolPc' = "ready"
      BY <2>3 DEF PoolPc
    <3>2. Pool!Handshake(0)
      BY <1>0, <2>2, <3>1, PoolMap DEF Pool!Handshake
    <3> QED BY <3>2 DEF Mapped, Pool!WorkerStep
  <2>4. CASE pc = "options" /\ who = "opponent" /\ pc' = "newgame"
    <3>1. PoolPc = "syncing" /\ PoolPc' = "newgame"
      BY <2>4 DEF PoolPc
    <3>2. "opponent" \notin lost
      <4>1. who \in Players /\ out[who] \in Seq(LineType) /\ out[who] # <<>>
            /\ Head(out[who]).kind = Expected
        BY <2>1 DEF IInv, HearAnswer, Heard, TypeOK, WorkerTypeOK, EngineTypeOK
      <4>2. Head(out[who]) = out[who][1] /\ 1 \in 1 .. Len(out[who])
        BY <4>1, TailFacts
      <4> QED BY <2>4, <4>1, <4>2 DEF IInv, LostInv, Mute, Expected
    <3>3. lost \subseteq (IF OnlyOpponent THEN {"engine"} ELSE {})
      BY <2>4, <3>2 DEF IInv, LostInv, BothPlay, OnlyOpponent, TypeOK, WorkerTypeOK, Players
    <3>4. Pool!Answered(0, sc.spsa)
      BY <1>0, <3>3, PoolAnswered DEF IInv
    <3>5. Pool!Sync(0, sc.spsa)
      BY <1>0, <2>2, <3>1, <3>4, PoolMap DEF Pool!Sync
    <3> QED BY <3>5 DEF Mapped, Pool!WorkerStep
  <2> QED BY <2>1, <2>3, <2>4
<1> QED BY <1>1, <1>2, <1>3

LEMMA GamesMap ==
  ASSUME IInv, HearBestmove \/ HearExit \/ WatchdogExpires
  PROVE  Mapped \/ UNCHANGED PoolScene
<1>0. UNCHANGED <<pair, cmds, open, sc>> /\ Thinking /\ TypeOK
      /\ Mover \in Colors /\ leg \in {0, 1} /\ pos \in PositionType
  BY NodeType DEF HearBestmove, HearExit, WatchdogExpires, TimerFires, Lose, IInv, Mover, TypeOK,
       GameTypeOK, WorkerTypeOK
<1>1. CASE HearBestmove
  <2>1. lost' = lost /\ seen' = seen
    BY <1>1 DEF HearBestmove
  <2>2. CASE UNCHANGED <<reports, leg, won>> /\ pc' = "bestmove"
    BY <1>0, <2>1, <2>2 DEF PoolScene, PoolPc, Thinking
  <2>3. ASSUME NEW o \in Outcomes, End(o) PROVE Mapped
    <3>1. Pool!Ends(0, Winner(o)) /\ Winner(o) \in Players \cup {"draw"}
      BY <1>0, <2>3, EndEnds
    <3>2. Pool!Play(0)
      BY <1>0, <2>1, <3>1 DEF Pool!Play
    <3> QED BY <3>2 DEF Mapped, Pool!WorkerStep
  <2>4. (UNCHANGED <<reports, leg, won>> /\ pc' = "bestmove") \/ \E o \in Outcomes : End(o)
    <3>1. CASE IsLegal(pos, Head(out[who]).move)
      <4>1. MoveOf(pos, Head(out[who]).move) \in MoveType /\ last_info[who].score \in ScoreType
        BY <1>0, <3>1, NodeType DEF IsLegal, MoveOf, TypeOK, GameTypeOK, WorkerTypeOK
      <4>2. MoveTo(pos, MoveOf(pos, Head(out[who]).move), last_info[who].score) \in PositionType
        BY <1>0, <4>1, MoveToType
      <4>3. Verdict(MoveTo(pos, MoveOf(pos, Head(out[who]).move), last_info[who].score), Mover)
              \in Outcomes /\ Over("time", Mover) \in Outcomes /\ Over("illegal", Mover) \in Outcomes
        BY <1>0, <4>2, OutcomeTypes
      <4> QED BY <1>1, <4>3 DEF HearBestmove, AskMove, Ask
    <3>2. CASE ~IsLegal(pos, Head(out[who]).move)
      <4>1. Over("time", Mover) \in Outcomes /\ Over("illegal", Mover) \in Outcomes
        BY <1>0, OutcomeTypes
      <4> QED BY <1>1, <3>2, <4>1 DEF HearBestmove
    <3> QED BY <3>1, <3>2
  <2> QED BY <2>2, <2>3, <2>4
<1>2. CASE HearExit \/ WatchdogExpires
  <2>1. PICK e \in Players : e = who
    BY DEF IInv, TypeOK, WorkerTypeOK
  <2>2. End(Over("illegal", Mover)) /\ lost' = lost \cup {e} /\ seen' = seen + 1
    BY <1>2, <2>1 DEF HearExit, WatchdogExpires, Lose
  <2>3. Over("illegal", Mover) \in Outcomes /\ Winner(Over("illegal", Mover)) = Rival(e)
    <3>1. e = PlayerOf(Mover, leg)
      BY <1>0, <2>1 DEF IInv, TurnInv
    <3> QED BY <1>0, <3>1, OutcomeTypes DEF Winner, Over
  <2>4. Pool!Ends(0, Rival(e)) /\ Rival(e) \in Players \ {e}
    BY <1>0, <2>2, <2>3, EndEnds DEF Rival, Players
  <2>5. seen \in Nat /\ seen < 4
    BY DEF IInv, SeenInv, TypeOK, WorkerTypeOK
  <2>6. [w \in {0} |-> Players \ lost]' = [[w \in {0} |-> Players \ lost] EXCEPT ![0] = @ \ {e}]
    BY <2>2
  <2>7. Pool!Spoil(0)
    BY <1>0, <2>2, <2>4, <2>5, <2>6 DEF Pool!Spoil, Pool!Players, Players
  <2> QED BY <2>7 DEF Mapped, Pool!WorkerStep
<1> QED BY <1>1, <1>2

LEMMA BetweenMaps ==
  ASSUME IInv, Take \/ HungUp \/ ReportPair \/ Reap \/ JoinReader
  PROVE  Mapped \/ UNCHANGED PoolScene
<1>0. UNCHANGED <<open, won, lost, seen>>
  BY DEF Take, HungUp, ReportPair, Reap, JoinReader
<1>1. CASE Take
  <2>0. PoolPc = "ready" /\ cmds # <<>> /\ reports' = reports /\ cmds' = Tail(cmds)
    BY <1>1 DEF Take, PoolPc
  <2>1. Worker' = IF Head(cmds).op = "quit" THEN [Worker EXCEPT !.pc = "leaving"]
                  ELSE [pc |-> "syncing", pair |-> Head(cmds).pair, leg |-> 0]
    <3>1. CASE Head(cmds).op = "quit"
      <4>1. PoolPc' = "leaving" /\ UNCHANGED <<pair, leg>>
        BY <1>1, <3>1 DEF Take, BeginShutdown, Ask, PoolPc
      <4> QED BY <3>1, <4>1 DEF Worker
    <3>2. CASE Head(cmds).op # "quit"
      <4>1. PoolPc' = "syncing" /\ pair' = Head(cmds).pair /\ leg' = 0
        BY <1>1, <3>2 DEF Take, Ask, PoolPc
      <4> QED BY <3>2, <4>1 DEF Worker
    <3> QED BY <3>1, <3>2
  <2>2. Pool!At(0, "ready")
    BY <2>0, PoolMap
  <2>3. [w \in {0} |-> Worker]' = [[w \in {0} |-> Worker] EXCEPT ![0] =
          IF Head(cmds).op = "quit" THEN [@ EXCEPT !.pc = "leaving"]
          ELSE [pc |-> "syncing", pair |-> Head(cmds).pair, leg |-> 0]]
    BY <2>1
  <2>4. Pool!Take(0)
    BY <1>0, <2>0, <2>2, <2>3 DEF Pool!Take, Worker
  <2> QED BY <2>4 DEF Mapped, Pool!WorkerStep
<1>2. CASE HungUp
  <2>1. PoolPc = "ready" /\ PoolPc' = "leaving" /\ cmds = <<>> /\ ~open
        /\ UNCHANGED <<pair, leg, cmds, reports>>
    BY <1>2 DEF HungUp, BeginShutdown, Ask, PoolPc
  <2>2. Pool!Disconnected(0)
    BY <1>0, <2>1, PoolMap DEF Pool!Disconnected
  <2> QED BY <2>2 DEF Mapped, Pool!WorkerStep
<1>3. CASE ReportPair
  <2>1. PoolPc = "paired" /\ PoolPc' = "ready" /\ reports' = Append(reports, PairComplete)
        /\ UNCHANGED <<pair, leg, cmds>>
    BY <1>3 DEF ReportPair, Say, PoolPc
  <2>2. Pool!ReportPair(0)
    BY <1>0, <2>1, PoolMap DEF Pool!ReportPair, Pool!Say, Pool!PairComplete, PairComplete
  <2> QED BY <2>2 DEF Mapped, Pool!WorkerStep
<1>4. CASE Reap \/ JoinReader
  <2>1. PoolPc = "leaving" /\ PoolPc' \in {"leaving", "gone"} /\ UNCHANGED <<pair, leg, cmds, reports>>
    BY <1>4 DEF Reap, JoinReader, Ask, PoolPc
  <2>2. CASE PoolPc' = "leaving"
    BY <1>0, <2>1, <2>2 DEF PoolScene
  <2>3. CASE PoolPc' = "gone"
    <3>1. Pool!Shutdown(0)
      BY <1>0, <2>1, <2>3, PoolMap DEF Pool!Shutdown
    <3> QED BY <3>1 DEF Mapped, Pool!WorkerStep
  <2> QED BY <2>1, <2>2, <2>3
<1> QED BY <1>1, <1>2, <1>3, <1>4

LEMMA MappedStep ==
  ASSUME IInv, [Next]_vars
  PROVE  Mapped \/ UNCHANGED Pool!poolVars
<1>1. Mapped \/ UNCHANGED PoolScene
  <2>1. CASE HearAnswer \/ HearEnd \/ NoAnswer \/ Slow
    BY <2>1, HarnessMaps
  <2>2. CASE HearBestmove \/ HearExit \/ WatchdogExpires
    BY <2>2, GamesMap
  <2>3. CASE Take \/ HungUp \/ ReportPair \/ Reap \/ JoinReader
    BY <2>3, BetweenMaps
  <2>4. CASE Command \/ Dismiss \/ Drop
    BY <2>4 DEF Mapped
  <2>5. ASSUME NEW e \in Players, Engine(e) \/ Fault(e) \/ Babble(e)
        PROVE  UNCHANGED PoolScene
    BY <2>5 DEF Engine, Fault, Babble, Read, Tell, Answer, Crash, Hang, StartBabbling, Break,
         UNCHANGED_Harness, PoolScene, PoolPc
  <2>6. CASE HearOther \/ HearInfo \/ WaitAgain \/ Tick \/ Nap \/ UNCHANGED vars
    BY <2>6 DEF HearOther, HearInfo, WaitAgain, Tick, Nap, vars, PoolScene, PoolPc
  <2> QED BY <2>1, <2>2, <2>3, <2>4, <2>5, <2>6 DEF Next, Harness, Timer, Terminated
<1> QED BY <1>1, Stutters

LEMMA PoolStarts == Init => Pool!PoolInit
<1> SUFFICES ASSUME Init PROVE Pool!PoolInit
  OBVIOUS
<1>1. Pool!WorkerIds = {0}
  BY DEF Pool!WorkerIds
<1>2. Pool!Games = 1 .. 2 * MaxPairs
  <2>0. MaxPairs \in Nat
    BY MatchGameAssumption
  <2>1. ASSUME NEW i \in Pool!Games PROVE i \in 1 .. 2 * MaxPairs
    <3>1. PICK p \in 0 .. MaxPairs - 1, l \in {0, 1} : i = 2 * p + l + 1
      BY <2>1 DEF Pool!Games, Pool!game_index
    <3> QED BY <2>0, <3>1
  <2>2. ASSUME NEW i \in 1 .. 2 * MaxPairs PROVE i \in Pool!Games
    <3>1. PICK p \in 0 .. MaxPairs - 1, l \in {0, 1} : i = 2 * p + l + 1
      <4>1. (i - 1) \div 2 \in 0 .. MaxPairs - 1 /\ (i - 1) % 2 \in {0, 1}
            /\ i = 2 * ((i - 1) \div 2) + ((i - 1) % 2) + 1
        BY <2>0
      <4> QED BY <4>1
    <3> QED BY <3>1 DEF Pool!Games, Pool!game_index
  <2> QED BY <2>1, <2>2
<1>3. /\ PoolPc = "starting" /\ pair = 0 /\ leg = 0 /\ lost = {} /\ cmds = <<>> /\ open = TRUE
      /\ reports = <<>> /\ won = [i \in 1 .. 2 * MaxPairs |-> "none"] /\ seen = 0
  BY DEF Init, PoolPc
<1> QED BY <1>1, <1>2, <1>3 DEF Pool!PoolInit, Pool!Players, Players

\* Seen from its controller the worker is that of WorkerPool: every step of it is one
\* that WorkerPool has for a worker, or none (worker_loop and worker_spsa_loop).
THEOREM PoolImplemented == Spec => ImplementsPool
<1>1. IInv /\ [Next]_vars =>
        [Pool!WorkerStep(0, sc.spsa) \/ Command \/ Dismiss \/ Drop]_(Pool!poolVars)
  BY MappedStep DEF Mapped
<1> QED BY <1>1, PoolStarts, InvHolds, PTL DEF Spec, ImplementsPool
=====================
