----------------------------- MODULE ChessRules -----------------------------
(***************************************************************************)
(* What making moves promises, against a definition of the rules that uses *)
(* none of the masks: a move is legal when it is one the piece can make    *)
(* and the king is not attacked on the board it leaves.  Only the mailbox, *)
(* the side, the castling rights and the en passant target are looked at,  *)
(* and squares are compared by file and rank, never by a table.            *)
(***************************************************************************)
EXTENDS MakeMove

Diff(a, b) == <<File(b) - File(a), Rank(b) - Rank(a)>>

Sign(n) == IF n > 0 THEN 1 ELSE IF n < 0 THEN -1 ELSE 0

(* Is the way from a to b, along a line, free of pieces of board m? *)
ClearWay(m, a, b) ==
  LET d == Diff(a, b)
      n == IF Abs(d[1]) > Abs(d[2]) THEN Abs(d[1]) ELSE Abs(d[2])
  IN \A k \in 1..(n - 1) : m[a + k * (8 * Sign(d[2]) + Sign(d[1]))] = NoPiece

(* Does the piece that stands on a attack b? *)
Attacks(m, a, b) ==
  LET d == Diff(a, b)
      straight == d[1] = 0 \/ d[2] = 0
      diagonal == Abs(d[1]) = Abs(d[2])
  IN /\ a # b
     /\ CASE m[a].kind = "Pawn"   -> Abs(d[1]) = 1 /\ d[2] = (IF m[a].color = "White" THEN 1 ELSE -1)
          [] m[a].kind = "Knight" -> Abs(d[1] * d[2]) = 2
          [] m[a].kind = "King"   -> Abs(d[1]) <= 1 /\ Abs(d[2]) <= 1
          [] m[a].kind = "Bishop" -> diagonal /\ ClearWay(m, a, b)
          [] m[a].kind = "Rook"   -> straight /\ ClearWay(m, a, b)
          [] m[a].kind = "Queen"  -> (straight \/ diagonal) /\ ClearWay(m, a, b)

AttackedBy(m, c, s) == \E a \in Square : m[a].color = c /\ Attacks(m, a, s)

KingAttacked(m, c) ==
  AttackedBy(m, Flip(c), CHOOSE s \in Square : m[s] = [color |-> c, kind |-> "King"])

(* The board after a move, with the en passant victim and the castling rook. *)
BoardAfter(m, a, b, piece, victim) ==
  [s \in Square |-> IF s = b THEN piece ELSE IF s \in {a, victim} THEN NoPiece ELSE m[s]]

(* <<from, to, promotion kind>> of the moves the rules allow. *)
PawnReach(p, a, b) ==
  LET m == p.mailbox
      us == p.side
      step == Rank(b) - Rank(a)
      forward == IF us = "White" THEN 1 ELSE -1
  IN \/ Attacks(m, a, b) /\ (m[b].color = Flip(us) \/ b = p.ep)
     \/ /\ File(a) = File(b) /\ m[b] = NoPiece
        /\ \/ step = forward
           \/ step = 2 * forward /\ Rank(a) = (IF us = "White" THEN 1 ELSE 6) /\ ClearWay(m, a, b)

PieceMoves(p) ==
  LET m == p.mailbox
      us == p.side
      reach(a, b) ==
        /\ m[a].color = us /\ m[b].color # us
        /\ IF m[a].kind = "Pawn" THEN PawnReach(p, a, b) ELSE Attacks(m, a, b)
      promos(a, b) == IF m[a].kind = "Pawn" /\ Rank(b) \in {0, 7} THEN {"Knight", "Bishop", "Rook", "Queen"} ELSE {"None"}
      victim(a, b) == IF m[a].kind = "Pawn" /\ b = p.ep THEN 8 * Rank(a) + File(b) ELSE b
      legal(a, b) == reach(a, b) /\ ~KingAttacked(BoardAfter(m, a, b, m[a], victim(a, b)), us)
  IN UNION {UNION {{<<a, b, k>> : k \in promos(a, b)} : b \in {b \in Square : legal(a, b)}} :
              a \in {s \in Square : m[s].color = us}}

(* The king goes two squares towards the rook: right kept, nothing between *)
(* them, no square of the king's way attacked.                             *)
CastlingReference(p) ==
  LET m == p.mailbox
      us == p.side
      home == IF us = "White" THEN E1 ELSE E8
      castle(right, rook, to) ==
        /\ right \in p.castling
        /\ \A s \in {s \in Square : Rank(s) = Rank(home) /\ (s - home) * (s - rook) < 0} : m[s] = NoPiece
        /\ \A s \in {home, (home + to) \div 2, to} : ~AttackedBy(m, Flip(us), s)
      short == IF us = "White" THEN "WhiteKing" ELSE "BlackKing"
      long == IF us = "White" THEN "WhiteQueen" ELSE "BlackQueen"
  IN (IF castle(short, home + 3, home + 2) THEN {<<home, home + 2, "None">>} ELSE {})
       \cup (IF castle(long, home - 4, home - 2) THEN {<<home, home - 2, "None">>} ELSE {})

LegalReference(p) == PieceMoves(p) \cup CastlingReference(p)

(* Each text names one of the moves, and no move is left over. *)
NamesOneEach(texts, moves) ==
  /\ \A text \in texts : Cardinality(NamedBy(moves, text)) = 1
  /\ Cardinality(moves) = Cardinality(texts)

-----------------------------------------------------------------------------
(* Properties *)

(* The masks, pins and evasions generate exactly the legal moves: none is  *)
(* missing, none leaves the king attacked, and the text of a move          *)
(* (from, to, promotion) names one move only, as from_uci takes for        *)
(* granted.                                                                *)
GeneratesLegalMoves == NamesOneEach(LegalReference(pos), GenerateMoves(pos))

(* A position that moves were made and taken back on is the position a     *)
(* fresh parse of its own FEN would build: keys, evaluation, bitboards and *)
(* king squares are what a full computation gives, the en passant target   *)
(* is one a pawn can use, the castling rights have their king and rook.    *)
(* This is what debug_assert_consistent and the from_scratch asserts test  *)
(* in debug builds only.                                                   *)
IsWhatItsFenSays ==
  LET parsed == Parse(Format(pos))
  IN  pos \in PositionType /\ Consistent(pos) /\ parsed.err = "None" /\ parsed.pos = pos

(* Taking the last move back gives the very position it was made in, the   *)
(* key, the clocks and the counters included.                              *)
UnmakeRestores == [][Len(line') < Len(line) => pos' = before[Len(line)]]_vars

=============================================================================
