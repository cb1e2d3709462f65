--------------------------- MODULE MakeMove_proofs ---------------------------
(***************************************************************************)
(* Moves are taken back exactly (UnmakeRestores), and a position is what   *)
(* its own FEN says (IsWhatItsFenSays), from any FEN that the parser       *)
(* accepts and along any line of moves, passes and takebacks.              *)
(*                                                                         *)
(* Unmake recomputes nothing, so it is right only for moves that made      *)
(* sense: a king that captures on its own square, a pawn that pushes onto  *)
(* a piece or a castling rook that is not at home could not be taken back. *)
(* Hence two invariants.  Legal says what a position is: its copies of the *)
(* board agree (Sound), a king is where kingSq says (KingInv), the rights  *)
(* have their king and rook (RightsInv), the en passant target lies behind *)
(* a pawn that one of the other side can take (EpInv), and no pawn stands  *)
(* on a last rank (PawnInv).  StepInv says what the emitters of MoveGen    *)
(* promise of a move: what stands on its squares.  The line itself is tied *)
(* together by LineOf: each token holds what the position it was made in   *)
(* had, and each position was made from the one before.                    *)
(*                                                                         *)
(* ValuesInv adds that the keys and the sums are what a full computation   *)
(* gives: every small step of make_move adds and takes away the terms of   *)
(* the squares it changes, and no others.                                  *)
(*                                                                         *)
(* That a parsed position is Legal is shown along the fold over its tokens *)
(* (Reading).  What a fold gives over a finite set is reached by taking a  *)
(* smallest set for which it would be otherwise (SmallestSet).  That what  *)
(* format writes is read back follows the writer along a rank: after each  *)
(* square the reader of the tokens so far has built that much of the rank. *)
(***************************************************************************)
EXTENDS ChessRules, FiniteSetTheorems, SequenceTheorems, WellFoundedInduction, TLAPS

King(c) == [color |-> c, kind |-> "King"]
Rook(c) == [color |-> c, kind |-> "Rook"]
Pawn(c) == [color |-> c, kind |-> "Pawn"]

\* The type of a position, but for the bound on its phase.
Shape ==
  [pieceBb : [PieceKind -> SUBSET Square], colorBb : [Color -> SUBSET Square],
   mailbox : [Square -> Piece \cup {NoPiece}], kingSq : [Color -> Square],
   side : Color, castling : SUBSET Right, ep : Square \cup {NoSquare},
   halfmove : 0..HalfmoveMax, fullmove : 0..(FullmoveSpan - 1),
   zobrist : Keys, pawnZobrist : Keys, score : Int \X Int, phase : Int]

\* The bitboards are the mailbox read by kinds and by colours.
BoardInv(p) ==
  /\ \A s \in Square, k \in PieceKind : s \in p.pieceBb[k] <=> p.mailbox[s].kind = k
  /\ \A s \in Square, c \in Color : s \in p.colorBb[c] <=> p.mailbox[s].color = c
Sound(p) == p \in Shape /\ BoardInv(p)

\* What the two updates of the board leave alone.
Rest(p) == <<p.side, p.castling, p.ep, p.halfmove, p.fullmove, p.zobrist, p.pawnZobrist,
             p.score, p.phase>>

-----------------------------------------------------------------------------
LEMMA Pieces1 ==
  /\ \A piece \in Piece : piece.color \in Color /\ piece.kind \in PieceKind
       /\ piece # NoPiece /\ piece = [color |-> piece.color, kind |-> piece.kind]
  /\ NoPiece.kind \notin PieceKind /\ NoPiece.color \notin Color
  /\ \A c \in Color : King(c) \in Piece /\ Rook(c) \in Piece /\ Pawn(c) \in Piece
  /\ \A c \in Color, k \in PieceKind : [color |-> c, kind |-> k] \in Piece
BY DEF Piece, NoPiece, Color, PieceKind, King, Rook, Pawn

WithBoard(p, kinds, colors, m, kings) ==
  [p EXCEPT !.pieceBb = kinds, !.colorBb = colors, !.mailbox = m, !.kingSq = kings]

LEMMA BoardChanged ==
  ASSUME NEW p \in Shape, NEW kinds \in [PieceKind -> SUBSET Square],
         NEW colors \in [Color -> SUBSET Square], NEW m \in [Square -> Piece \cup {NoPiece}],
         NEW kings \in [Color -> Square], NEW q, q = WithBoard(p, kinds, colors, m, kings)
  PROVE  /\ q \in Shape /\ Rest(q) = Rest(p)
         /\ q.pieceBb = kinds /\ q.colorBb = colors /\ q.mailbox = m /\ q.kingSq = kings
<1>1. q \in Shape
  BY DEF Shape, WithBoard
<1>2. q.pieceBb = kinds /\ q.colorBb = colors /\ q.mailbox = m /\ q.kingSq = kings
  BY DEF Shape, WithBoard
<1>3. Rest(q) = Rest(p)
  BY DEF Rest, Shape, WithBoard
<1> QED BY <1>1, <1>2, <1>3

Put(m, s, piece) == [m EXCEPT ![s] = piece]
KingPut(kings, s, piece) ==
  IF piece.kind = "King" THEN [kings EXCEPT ![piece.color] = s] ELSE kings

LEMMA ClearSquareIs ==
  ASSUME NEW p, Sound(p), NEW s \in Square, NEW q, q = ClearSquare(p, s)
  PROVE  /\ Sound(q) /\ Rest(q) = Rest(p)
         /\ q.mailbox = Put(p.mailbox, s, NoPiece)
         /\ q.kingSq = p.kingSq
<1> DEFINE prev == p.mailbox[s]
<1>0. /\ p \in Shape /\ p.mailbox \in [Square -> Piece \cup {NoPiece}]
      /\ p.pieceBb \in [PieceKind -> SUBSET Square] /\ p.colorBb \in [Color -> SUBSET Square]
      /\ p.kingSq \in [Color -> Square]
  BY DEF Sound, Shape
<1>1. CASE prev = NoPiece
  BY <1>0, <1>1 DEF ClearSquare, Put
<1>2. CASE prev # NoPiece
  <2>1. prev.kind \in PieceKind /\ prev.color \in Color
    BY <1>0, <1>2, Pieces1
  <2> DEFINE kinds == [p.pieceBb EXCEPT ![prev.kind] = @ \ {s}]
             colors == [p.colorBb EXCEPT ![prev.color] = @ \ {s}]
             m == [p.mailbox EXCEPT ![s] = NoPiece]
  <2>2. q = WithBoard(p, kinds, colors, m, p.kingSq)
    BY <1>0, <1>2 DEF ClearSquare, Shape, WithBoard
  <2>3. /\ kinds \in [PieceKind -> SUBSET Square] /\ colors \in [Color -> SUBSET Square]
        /\ m \in [Square -> Piece \cup {NoPiece}]
    BY <1>0, <2>1
  <2>4. /\ q \in Shape /\ Rest(q) = Rest(p)
        /\ q.pieceBb = kinds /\ q.colorBb = colors /\ q.mailbox = m /\ q.kingSq = p.kingSq
    <3> HIDE DEF kinds, colors, m
    <3> QED BY <1>0, <2>2, <2>3, BoardChanged
  <2>5. /\ \A t \in Square : m[t] = IF t = s THEN NoPiece ELSE p.mailbox[t]
        /\ \A k \in PieceKind : kinds[k] = IF k = prev.kind THEN p.pieceBb[k] \ {s} ELSE p.pieceBb[k]
        /\ \A c \in Color : colors[c] = IF c = prev.color THEN p.colorBb[c] \ {s} ELSE p.colorBb[c]
    BY <1>0
  <2>6. BoardInv(q)
    <3> HIDE DEF kinds, colors, m
    <3>1. ASSUME NEW t \in Square, NEW k \in PieceKind PROVE t \in kinds[k] <=> m[t].kind = k
      <4>1. t \in p.pieceBb[k] <=> p.mailbox[t].kind = k
        BY DEF Sound, BoardInv
      <4> QED BY <2>1, <2>5, <4>1, Pieces1
    <3>2. ASSUME NEW t \in Square, NEW c \in Color PROVE t \in colors[c] <=> m[t].color = c
      <4>1. t \in p.colorBb[c] <=> p.mailbox[t].color = c
        BY DEF Sound, BoardInv
      <4> QED BY <2>1, <2>5, <4>1, Pieces1
    <3> QED BY <2>4, <3>1, <3>2 DEF BoardInv
  <2> QED BY <2>4, <2>6 DEF Sound, Put
<1> QED BY <1>1, <1>2

LEMMA SetPieceIs ==
  ASSUME NEW p, Sound(p), NEW s \in Square, NEW piece \in Piece, NEW q, q = SetPiece(p, s, piece)
  PROVE  /\ Sound(q) /\ Rest(q) = Rest(p)
         /\ q.mailbox = Put(p.mailbox, s, piece)
         /\ q.kingSq = KingPut(p.kingSq, s, piece)
<1> DEFINE r == ClearSquare(p, s)
<1>1. /\ Sound(r) /\ Rest(r) = Rest(p)
      /\ r.mailbox = [p.mailbox EXCEPT ![s] = NoPiece]
      /\ r.kingSq = p.kingSq
  BY ClearSquareIs DEF Put
<1> HIDE DEF r
<1>0. /\ r \in Shape /\ r.mailbox \in [Square -> Piece \cup {NoPiece}]
      /\ r.pieceBb \in [PieceKind -> SUBSET Square] /\ r.colorBb \in [Color -> SUBSET Square]
      /\ p.kingSq \in [Color -> Square] /\ p.mailbox \in [Square -> Piece \cup {NoPiece}]
  BY <1>1 DEF Sound, Shape
<1>3. piece.kind \in PieceKind /\ piece.color \in Color
  BY Pieces1
<1> DEFINE kinds == [r.pieceBb EXCEPT ![piece.kind] = @ \cup {s}]
           colors == [r.colorBb EXCEPT ![piece.color] = @ \cup {s}]
           m == [p.mailbox EXCEPT ![s] = piece]
           kings == IF piece.kind = "King" THEN [p.kingSq EXCEPT ![piece.color] = s] ELSE p.kingSq
<1>2. q = WithBoard(r, kinds, colors, m, kings)
  <2>1. q = [r EXCEPT !.pieceBb[piece.kind] = @ \cup {s},
              !.colorBb[piece.color] = @ \cup {s},
              !.mailbox[s] = piece,
              !.kingSq[piece.color] = IF piece.kind = "King" THEN s ELSE @]
    BY DEF SetPiece, r
  <2>2. [r.mailbox EXCEPT ![s] = piece] = m
    BY <1>0, <1>1
  <2>3. [r.kingSq EXCEPT ![piece.color] = IF piece.kind = "King" THEN s ELSE @] = kings
    BY <1>0, <1>1, <1>3
  <2> QED BY <1>0, <2>1, <2>2, <2>3 DEF Shape, WithBoard
<1>4. /\ kinds \in [PieceKind -> SUBSET Square] /\ colors \in [Color -> SUBSET Square]
      /\ m \in [Square -> Piece \cup {NoPiece}] /\ kings \in [Color -> Square]
  BY <1>0, <1>3
<1>5. /\ \A t \in Square : m[t] = IF t = s THEN piece ELSE r.mailbox[t]
      /\ \A k \in PieceKind : kinds[k] = IF k = piece.kind THEN r.pieceBb[k] \cup {s} ELSE r.pieceBb[k]
      /\ \A c \in Color : colors[c] = IF c = piece.color THEN r.colorBb[c] \cup {s} ELSE r.colorBb[c]
      /\ r.mailbox[s] = NoPiece
  BY <1>0, <1>1
<1> HIDE DEF kinds, colors, m, kings
<1>6. /\ q \in Shape /\ Rest(q) = Rest(r)
      /\ q.pieceBb = kinds /\ q.colorBb = colors /\ q.mailbox = m /\ q.kingSq = kings
  BY <1>0, <1>2, <1>4, BoardChanged
<1>7. BoardInv(q)
  <2>1. ASSUME NEW t \in Square, NEW k \in PieceKind PROVE t \in kinds[k] <=> m[t].kind = k
    <3>1. t \in r.pieceBb[k] <=> r.mailbox[t].kind = k
      BY <1>1 DEF Sound, BoardInv
    <3>2. CASE t = s
      BY <1>3, <1>5, <3>1, <3>2, Pieces1
    <3>3. CASE t # s
      <4>1. t \in kinds[k] <=> t \in r.pieceBb[k]
        <5>1. kinds[k] = IF k = piece.kind THEN r.pieceBb[k] \cup {s} ELSE r.pieceBb[k]
          BY <1>5
        <5> QED BY <3>3, <5>1
      <4>2. m[t] = r.mailbox[t]
        BY <1>5, <3>3
      <4> QED BY <3>1, <4>1, <4>2
    <3> QED BY <3>2, <3>3
  <2>2. ASSUME NEW t \in Square, NEW c \in Color PROVE t \in colors[c] <=> m[t].color = c
    <3>1. t \in r.colorBb[c] <=> r.mailbox[t].color = c
      BY <1>1 DEF Sound, BoardInv
    <3>2. CASE t = s
      BY <1>3, <1>5, <3>1, <3>2, Pieces1
    <3>3. CASE t # s
      <4>1. t \in colors[c] <=> t \in r.colorBb[c]
        <5>1. colors[c] = IF c = piece.color THEN r.colorBb[c] \cup {s} ELSE r.colorBb[c]
          BY <1>5
        <5> QED BY <3>3, <5>1
      <4>2. m[t] = r.mailbox[t]
        BY <1>5, <3>3
      <4> QED BY <3>1, <4>1, <4>2
    <3> QED BY <3>2, <3>3
  <2> QED BY <1>6, <2>1, <2>2 DEF BoardInv
<1> QED BY <1>1, <1>6, <1>7 DEF Sound, m, kings, Put, KingPut

\* Two positions with the same mailbox have the same bitboards.
LEMMA SamePosition ==
  ASSUME NEW p, NEW q, Sound(p), Sound(q), p.mailbox = q.mailbox, p.kingSq = q.kingSq, Rest(p) = Rest(q)
  PROVE  p = q
<1>2. p \in Shape /\ q \in Shape
  BY DEF Sound
<1>0. /\ p.pieceBb \in [PieceKind -> SUBSET Square] /\ p.colorBb \in [Color -> SUBSET Square]
      /\ q.pieceBb \in [PieceKind -> SUBSET Square] /\ q.colorBb \in [Color -> SUBSET Square]
  BY <1>2 DEF Shape
<1>1. p.pieceBb = q.pieceBb /\ p.colorBb = q.colorBb
  <2>1. ASSUME NEW k \in PieceKind PROVE p.pieceBb[k] = q.pieceBb[k]
    <3>1. \A s \in Square : s \in p.pieceBb[k] <=> s \in q.pieceBb[k]
      BY DEF Sound, BoardInv
    <3>2. p.pieceBb[k] \subseteq Square /\ q.pieceBb[k] \subseteq Square
      BY <1>0
    <3> QED BY <3>1, <3>2
  <2>2. ASSUME NEW c \in Color PROVE p.colorBb[c] = q.colorBb[c]
    <3>1. \A s \in Square : s \in p.colorBb[c] <=> s \in q.colorBb[c]
      BY DEF Sound, BoardInv
    <3>2. p.colorBb[c] \subseteq Square /\ q.colorBb[c] \subseteq Square
      BY <1>0
    <3> QED BY <3>1, <3>2
  <2> QED BY <1>0, <2>1, <2>2
<1> QED BY <1>1, <1>2 DEF Shape, Rest

\* Reading a board that was written to.
LEMMA PutIs ==
  ASSUME NEW m, DOMAIN m = Square, NEW s \in Square, NEW piece
  PROVE  /\ DOMAIN Put(m, s, piece) = Square
         /\ \A t \in Square : Put(m, s, piece)[t] = IF t = s THEN piece ELSE m[t]
BY DEF Put

LEMMA BoardFunction ==
  ASSUME NEW p, Sound(p)
  PROVE  /\ p.mailbox \in [Square -> Piece \cup {NoPiece}] /\ DOMAIN p.mailbox = Square
         /\ p.kingSq \in [Color -> Square]
BY DEF Sound, Shape

-----------------------------------------------------------------------------
\* The king of a side that still has one is where the position says.
KingInv(p) == \A s \in Square, c \in Color : p.mailbox[s] = King(c) => p.kingSq[c] = s
RightsInv(p) ==
  \A r \in p.castling : /\ p.mailbox[CastlingHome[r][1]] = King(CastlingHome[r][3])
                        /\ p.mailbox[CastlingHome[r][2]] = Rook(CastlingHome[r][3])
EpInv(p) ==
  p.ep # NoSquare =>
    /\ Rank(p.ep) = (IF p.side = "White" THEN 5 ELSE 2)
    /\ p.mailbox[p.ep] = NoPiece
    /\ p.mailbox[p.ep - PushStep(p.side)] = Pawn(Flip(p.side))
    /\ EpCapturerExists(p, p.side, File(p.ep), Rank(p.ep - PushStep(p.side)))
PawnInv(p) == \A s \in Square : p.mailbox[s].kind = "Pawn" => Rank(s) \in 1..6

\* What a position is, move after move.
Legal(p) == Sound(p) /\ KingInv(p) /\ RightsInv(p) /\ EpInv(p) /\ PawnInv(p)

\* What the board says of a move that is generated.
StepInv(p, mv) ==
  LET m == p.mailbox
      us == p.side
  IN
  /\ mv.from \in Square /\ mv.to \in Square /\ mv.flag \in MoveFlag
  /\ m[mv.from].color = us
  /\ IF mv.flag = EnPassant THEN p.ep # NoSquare /\ mv.to = p.ep /\ m[mv.from] = Pawn(us)
     ELSE IF IsCapture(mv) THEN m[mv.to].color = Flip(us) ELSE m[mv.to] = NoPiece
  /\ IsPromotion(mv) => m[mv.from] = Pawn(us)
  /\ m[mv.from] = Pawn(us) /\ ~IsPromotion(mv) => Rank(mv.to) \in 1..6
  /\ IsCastling(mv) =>
       \E r \in p.castling :
         /\ CastlingPath[r].us = us /\ CastlingPath[r].flag = mv.flag
         /\ mv.from = CastlingPath[r].king[1] /\ mv.to = CastlingPath[r].king[2]
         /\ \A s \in CastlingPath[r].clear : m[s] = NoPiece
  /\ mv.flag = DoublePush =>
       /\ m[mv.from] = Pawn(us) /\ Rank(mv.from) = StartRank(us)
       /\ mv.to = mv.from + PushStep(us) + PushStep(us)
       /\ m[mv.from + PushStep(us)] = NoPiece

LEMMA Flags ==
  ASSUME NEW mv, mv.flag \in MoveFlag
  PROVE  /\ IsCapture(mv) <=> mv.flag \in {Capture, EnPassant} \cup 12..15
         /\ IsPromotion(mv) <=> mv.flag \in 8..15
         /\ IsCastling(mv) <=> mv.flag \in {KingCastle, QueenCastle}
         /\ IsPromotion(mv) => PromotionKind(mv) \in {"Knight", "Bishop", "Rook", "Queen"}
<1>1. IsCapture(mv) <=> mv.flag \in {Capture, EnPassant} \cup 12..15
  BY DEF MoveFlag, IsCapture, Capture, EnPassant
<1>2. IsPromotion(mv) <=> mv.flag \in 8..15
  BY DEF MoveFlag, IsPromotion
<1>3. \A i \in 0..3 : PromoKind[i] \in {"Knight", "Bishop", "Rook", "Queen"}
  BY DEF PromoKind
<1>4. IsPromotion(mv) => PromotionKind(mv) \in {"Knight", "Bishop", "Rook", "Queen"}
  <2>1. mv.flag % 4 \in 0..3
    BY DEF MoveFlag
  <2> QED BY <1>3, <2>1 DEF PromotionKind
<1> QED BY <1>1, <1>2, <1>4 DEF IsCastling

LEMMA OnTheBoard ==
  /\ \A f, r \in Int : FromFileRank(f, r) # NoSquare => FromFileRank(f, r) \in Square
  /\ \A s \in Square : Rank(s) \in 0..7 /\ File(s) \in 0..7 /\ s = 8 * Rank(s) + File(s)
  /\ NoSquare \notin Square
<1>1. \A s \in Square : Rank(s) \in 0..7 /\ File(s) \in 0..7 /\ s = 8 * Rank(s) + File(s)
  BY DEF Square, Rank, File
<1> QED BY <1>1 DEF FromFileRank, OnBoard, NoSquare, Square

LEMMA LeapsOnBoard ==
  ASSUME NEW s \in Square, NEW D
  PROVE  Leaps(s, D) \subseteq Square
<1>1. \A f, r : OnBoard(f, r) => 8 * r + f \in Square
  BY DEF OnBoard, Square
<1> QED BY <1>1 DEF Leaps, FromFileRank

LEMMA TablesOnBoard ==
  \A s \in Square : /\ KnightAttacks[s] \subseteq Square /\ KingAttacks[s] \subseteq Square
                    /\ \A c \in Color : PawnAttacks[c][s] \subseteq Square
<1> SUFFICES ASSUME NEW s \in Square
             PROVE  /\ KnightAttacks[s] \subseteq Square /\ KingAttacks[s] \subseteq Square
                    /\ \A c \in Color : PawnAttacks[c][s] \subseteq Square
  OBVIOUS
<1>1. KnightAttacks[s] \subseteq Square
  BY LeapsOnBoard DEF KnightAttacks
<1>2. KingAttacks[s] \subseteq Square
  BY LeapsOnBoard DEF KingAttacks
<1>3. ASSUME NEW c \in Color PROVE PawnAttacks[c][s] \subseteq Square
  BY LeapsOnBoard DEF PawnAttacks
<1> QED BY <1>1, <1>2, <1>3

LEMMA RaysOnBoard ==
  ASSUME NEW s \in Square, NEW d \in Dir
  PROVE  /\ \A k \in DOMAIN Ray[s][d] : Ray[s][d][k] \in Square
         /\ DOMAIN Ray[s][d] = {k \in 1..7 : OnBoard(File(s) + k * d[1], Rank(s) + k * d[2])}
         /\ \A k \in DOMAIN Ray[s][d] : Ray[s][d][k] = 8 * (Rank(s) + k * d[2]) + (File(s) + k * d[1])
<1>1. \A f, r : OnBoard(f, r) => 8 * r + f \in Square
  BY DEF OnBoard, Square
<1>2. Ray[s][d] = [k \in {k \in 1..7 : OnBoard(File(s) + k * d[1], Rank(s) + k * d[2])} |->
             FromFileRank(File(s) + k * d[1], Rank(s) + k * d[2])]
  BY DEF Ray
<1> QED BY <1>1, <1>2 DEF FromFileRank

LEMMA MagicsOnBoard ==
  ASSUME NEW s \in Square, NEW occ
  PROVE  MagicRook(s, occ) \subseteq Square /\ MagicBishop(s, occ) \subseteq Square
         /\ MagicQueen(s, occ) \subseteq Square
<1>1. \A d \in Dir : \A o : RayAttack(s, o, d) \subseteq Square
  BY RaysOnBoard DEF RayAttack
<1> QED BY <1>1 DEF MagicRook, MagicBishop, MagicQueen, RookAttacks, BishopAttacks, Dir

-----------------------------------------------------------------------------
\* Two squares on a line have but one line, and an attack along it nothing in
\* between.
LEMMA Directions ==
  /\ \A d \in Dir : d[1] \in -1..1 /\ d[2] \in -1..1 /\ (d[1] # 0 \/ d[2] # 0) /\ d = <<d[1], d[2]>>
  /\ RookDir \subseteq Dir /\ BishopDir \subseteq Dir
BY DEF Dir, RookDir, BishopDir

LEMMA OneLine ==
  ASSUME NEW s \in Square, NEW d \in Dir, NEW e \in Dir, NEW j \in DOMAIN Ray[s][d],
         NEW k \in DOMAIN Ray[s][e], Ray[s][d][j] = Ray[s][e][k]
  PROVE  d = e /\ j = k
<1>1. /\ j \in 1..7 /\ k \in 1..7
      /\ File(s) + j * d[1] \in 0..7 /\ Rank(s) + j * d[2] \in 0..7
      /\ File(s) + k * e[1] \in 0..7 /\ Rank(s) + k * e[2] \in 0..7
      /\ 8 * (Rank(s) + j * d[2]) + (File(s) + j * d[1]) = 8 * (Rank(s) + k * e[2]) + (File(s) + k * e[1])
  BY RaysOnBoard DEF OnBoard
<1>2. \A f, g, x, y \in 0..7 : 8 * x + f = 8 * y + g => x = y /\ f = g
  OBVIOUS
<1>3. j * d[1] = k * e[1] /\ j * d[2] = k * e[2]
  <2>1. File(s) \in Int /\ Rank(s) \in Int
    BY OnTheBoard
  <2>2. /\ j * d[1] \in Int /\ j * d[2] \in Int /\ k * e[1] \in Int /\ k * e[2] \in Int
    BY <1>1, Directions
  <2>3. /\ Rank(s) + j * d[2] = Rank(s) + k * e[2] /\ File(s) + j * d[1] = File(s) + k * e[1]
    BY <1>1, <1>2
  <2>4. \A a, b, c \in Int : a + b = a + c => b = c
    OBVIOUS
  <2> QED BY Zenon, <2>1, <2>2, <2>3, <2>4
<1>4. \A x \in -1..1 : j * x = (IF x = 0 THEN 0 ELSE IF x = 1 THEN j ELSE -j)
  BY <1>1
<1>5. \A x \in -1..1 : k * x = (IF x = 0 THEN 0 ELSE IF x = 1 THEN k ELSE -k)
  BY <1>1
<1>6. \A x, y \in -1..1 : j * x = k * y => x = y /\ (x # 0 => j = k)
  BY <1>1, <1>4, <1>5
<1> QED BY <1>3, <1>6, Directions

LEMMA RaysAreSegments ==
  ASSUME NEW s \in Square, NEW d \in Dir, NEW k \in DOMAIN Ray[s][d]
  PROVE  k \in 1..7 /\ \A j \in 1..k : j \in DOMAIN Ray[s][d]
<1>1. k \in 1..7 /\ File(s) + k * d[1] \in 0..7 /\ Rank(s) + k * d[2] \in 0..7
  BY RaysOnBoard DEF OnBoard
<1> SUFFICES ASSUME NEW j \in 1..k PROVE j \in DOMAIN Ray[s][d]
  BY <1>1
<1>2. File(s) \in 0..7 /\ Rank(s) \in 0..7
  BY OnTheBoard
<1>3. \A x \in -1..1 : /\ j * x = (IF x = 0 THEN 0 ELSE IF x = 1 THEN j ELSE -j)
                       /\ k * x = (IF x = 0 THEN 0 ELSE IF x = 1 THEN k ELSE -k)
  BY <1>1
<1>4. \A x \in -1..1, b \in 0..7 : b + k * x \in 0..7 => b + j * x \in 0..7
  BY <1>1, <1>3
<1>5. File(s) + j * d[1] \in 0..7 /\ Rank(s) + j * d[2] \in 0..7
  BY <1>1, <1>2, <1>4, Directions
<1> QED BY <1>1, <1>5, RaysOnBoard DEF OnBoard

LEMMA BetweenOnRay ==
  ASSUME NEW s \in Square, NEW d \in Dir, NEW k \in DOMAIN Ray[s][d]
  PROVE  Between[s][Ray[s][d][k]] = {Ray[s][d][j] : j \in 1..(k - 1)}
<1> DEFINE b == Ray[s][d][k]
<1>1. b \in Square
  BY RaysOnBoard
<1>2. Between[s][b] = UNION {UNION {{Ray[s][e][j] : j \in 1..(i - 1)} : i \in {i \in DOMAIN Ray[s][e] : Ray[s][e][i] = b}} :
           e \in Dir}
  BY <1>1 DEF Between
<1>3. \A e \in Dir : \A i \in DOMAIN Ray[s][e] : Ray[s][e][i] = b <=> e = d /\ i = k
  BY OneLine
<1> HIDE DEF b
<1>4. ASSUME NEW x \in Between[s][b] PROVE x \in {Ray[s][d][j] : j \in 1..(k - 1)}
  <2>1. PICK e \in Dir : \E i \in DOMAIN Ray[s][e] : Ray[s][e][i] = b /\ x \in {Ray[s][e][j] : j \in 1..(i - 1)}
    BY <1>2, <1>4
  <2> QED BY <1>3, <2>1
<1>5. ASSUME NEW x \in {Ray[s][d][j] : j \in 1..(k - 1)} PROVE x \in Between[s][b]
  <2>1. k \in {i \in DOMAIN Ray[s][d] : Ray[s][d][i] = b}
    BY DEF b
  <2> QED BY <1>2, <1>5, <2>1
<1> QED BY <1>4, <1>5 DEF b

\* The squares a magic table looks at are enough.
LEMMA MagicIsRay ==
  ASSUME NEW s \in Square, NEW occ
  PROVE  /\ MagicRook(s, occ) = RookAttacks(s, occ)
         /\ MagicBishop(s, occ) = BishopAttacks(s, occ)
<1>1. ASSUME NEW D \in SUBSET Dir, NEW d \in D, NEW mask, mask = UNION {RayMask(s, e) : e \in D}
      PROVE  RayAttack(s, occ \cap mask, d) = RayAttack(s, occ, d)
  <2> SUFFICES ASSUME NEW k \in DOMAIN Ray[s][d], NEW j \in 1..(k - 1)
               PROVE  Ray[s][d][j] \in mask
    BY DEF RayAttack
  <2>1. j + 1 \in DOMAIN Ray[s][d] /\ j \in DOMAIN Ray[s][d]
    BY RaysAreSegments
  <2>2. Ray[s][d][j] \in RayMask(s, d)
    BY <2>1 DEF RayMask
  <2> QED BY <1>1, <2>2
<1>2. RookMask[s] = UNION {RayMask(s, e) : e \in RookDir} /\ BishopMask[s] = UNION {RayMask(s, e) : e \in BishopDir}
  BY DEF RookMask, BishopMask
<1>3. \A d \in RookDir : RayAttack(s, occ \cap RookMask[s], d) = RayAttack(s, occ, d)
  BY <1>1, <1>2, Directions
<1>4. \A d \in BishopDir : RayAttack(s, occ \cap BishopMask[s], d) = RayAttack(s, occ, d)
  BY <1>1, <1>2, Directions
<1> QED BY <1>3, <1>4 DEF MagicRook, MagicBishop, RookAttacks, BishopAttacks

LEMMA NothingBetween ==
  ASSUME NEW s \in Square, NEW occ, NEW b \in MagicRook(s, occ) \cup MagicBishop(s, occ)
  PROVE  Between[s][b] \cap occ = {}
<1>1. PICK d \in Dir : b \in RayAttack(s, occ, d)
  BY MagicIsRay, Directions DEF RookAttacks, BishopAttacks
<1>2. PICK k \in DOMAIN Ray[s][d] : b = Ray[s][d][k] /\ \A j \in 1..(k - 1) : Ray[s][d][j] \notin occ
  BY <1>1 DEF RayAttack
<1>3. Between[s][b] = {Ray[s][d][j] : j \in 1..(k - 1)}
  BY <1>2, BetweenOnRay
<1> QED BY <1>2, <1>3

-----------------------------------------------------------------------------
LEMMA PieceSets ==
  ASSUME NEW p, Sound(p)
  PROVE  /\ p.side \in Color /\ Flip(p.side) \in Color /\ Flip(p.side) # p.side
         /\ \A s \in Square : p.mailbox[s] \in Piece \cup {NoPiece}
         /\ \A c \in Color : Occupied(p, c) = {s \in Square : p.mailbox[s].color = c}
         /\ \A c \in Color, k \in PieceKind :
              Pieces(p, c, k) = {s \in Square : p.mailbox[s] = [color |-> c, kind |-> k]}
         /\ OccupiedAll(p) = {s \in Square : p.mailbox[s] # NoPiece}
<1>1. /\ p.side \in Color /\ p.mailbox \in [Square -> Piece \cup {NoPiece}]
      /\ p.pieceBb \in [PieceKind -> SUBSET Square] /\ p.colorBb \in [Color -> SUBSET Square]
  BY DEF Sound, Shape
<1>2. Flip(p.side) \in Color /\ Flip(p.side) # p.side
  BY <1>1 DEF Color, Flip
<1>3. ASSUME NEW c \in Color PROVE Occupied(p, c) = {s \in Square : p.mailbox[s].color = c}
  <2>1. p.colorBb[c] \subseteq Square
    BY <1>1
  <2>2. \A s \in Square : s \in p.colorBb[c] <=> p.mailbox[s].color = c
    BY DEF Sound, BoardInv
  <2> QED BY <2>1, <2>2 DEF Occupied
<1>4. ASSUME NEW c \in Color, NEW k \in PieceKind
      PROVE  Pieces(p, c, k) = {s \in Square : p.mailbox[s] = [color |-> c, kind |-> k]}
  <2>1. p.colorBb[c] \subseteq Square /\ p.pieceBb[k] \subseteq Square
    BY <1>1
  <2>2. \A s \in Square : /\ s \in p.colorBb[c] <=> p.mailbox[s].color = c
                          /\ s \in p.pieceBb[k] <=> p.mailbox[s].kind = k
    BY DEF Sound, BoardInv
  <2>3. \A s \in Square : p.mailbox[s].color = c /\ p.mailbox[s].kind = k
                            <=> p.mailbox[s] = [color |-> c, kind |-> k]
    <3> SUFFICES ASSUME NEW s \in Square, p.mailbox[s].color = c /\ p.mailbox[s].kind = k
                 PROVE  p.mailbox[s] = [color |-> c, kind |-> k]
      OBVIOUS
    <3>1. p.mailbox[s] \in Piece
      BY <1>1, Pieces1
    <3> QED BY <3>1, Pieces1
  <2> QED BY <2>1, <2>2, <2>3 DEF Pieces
<1>5. OccupiedAll(p) = {s \in Square : p.mailbox[s] # NoPiece}
  <2>1. OccupiedAll(p) = Occupied(p, "White") \cup Occupied(p, "Black")
    BY DEF OccupiedAll, Occupied
  <2>2. \A s \in Square : p.mailbox[s] # NoPiece <=> p.mailbox[s].color \in Color
    BY <1>1, Pieces1
  <2> QED BY <1>3, <2>1, <2>2 DEF Color
<1> QED BY <1>1, <1>2, <1>3, <1>4, <1>5

\* The emitters one by one.  What the masks let through is of no account, but
\* for the square a double push passes to.
LEMMA OrdinaryMove ==
  ASSUME NEW p, Sound(p), NEW from \in Square, NEW to \in Square, NEW k \in PieceKind \ {"Pawn"},
         p.mailbox[from] = [color |-> p.side, kind |-> k], to \notin Occupied(p, p.side),
         NEW mv, mv = MoveOf(from, to, CaptureOrQuiet(p, p.side, to))
  PROVE  StepInv(p, mv)
<1>1. /\ mv.from = from /\ mv.to = to /\ mv.flag = CaptureOrQuiet(p, p.side, to)
      /\ mv.flag \in {Capture, Quiet}
  BY DEF MoveOf, CaptureOrQuiet
<1>2. p.mailbox[to] = NoPiece \/ p.mailbox[to].color = Flip(p.side)
  <2>1. p.mailbox[to].color # p.side /\ p.side \in Color /\ p.mailbox[to] \in Piece \cup {NoPiece}
    BY PieceSets
  <2> QED BY <2>1, Pieces1 DEF Flip, Color
<1>3. mv.flag = Capture <=> p.mailbox[to].color = Flip(p.side)
  BY <1>1, PieceSets DEF CaptureOrQuiet, Capture, Quiet
<1>4. mv.flag \in MoveFlag /\ mv.flag # EnPassant /\ mv.flag # DoublePush
      /\ ~IsPromotion(mv) /\ ~IsCastling(mv) /\ (IsCapture(mv) <=> mv.flag = Capture)
  BY <1>1 DEF MoveFlag, Capture, Quiet, EnPassant, DoublePush, IsPromotion, IsCastling, IsCapture,
    KingCastle, QueenCastle
<1>5. p.mailbox[from].color = p.side /\ p.mailbox[from] # Pawn(p.side)
  BY DEF Pawn
<1> QED BY <1>1, <1>2, <1>3, <1>4, <1>5 DEF StepInv

LEMMA PawnMoveIs ==
  ASSUME NEW p, Legal(p), NEW from \in Square, NEW to \in Square, NEW flag \in {Quiet, Capture},
         p.mailbox[from] = Pawn(p.side), Rank(to) # Rank(from),
         p.side = "White" => Rank(to) > Rank(from), p.side = "Black" => Rank(to) < Rank(from),
         IF flag = Capture THEN p.mailbox[to].color = Flip(p.side) ELSE p.mailbox[to] = NoPiece,
         NEW mv \in PawnMove(p.side, from, to, flag)
  PROVE  StepInv(p, mv)
<1>0. Sound(p) /\ p.side \in Color /\ Rank(from) \in 1..6 /\ Rank(to) \in 0..7
  BY PieceSets, OnTheBoard DEF Legal, PawnInv, Pawn
<1>1. /\ mv.from = from /\ mv.to = to
      /\ IF Rank(to) = PromoRank(p.side)
         THEN mv.flag \in (IF flag = Capture THEN 12..15 ELSE 8..11)
         ELSE mv.flag = flag
  BY DEF PawnMove, MoveOf
<1>2. mv.flag \in MoveFlag /\ mv.flag # EnPassant /\ mv.flag # DoublePush /\ ~IsCastling(mv)
  BY <1>1 DEF MoveFlag, Capture, Quiet, EnPassant, DoublePush, IsCastling, KingCastle, QueenCastle
<1>3. /\ IsCapture(mv) <=> flag = Capture
      /\ IsPromotion(mv) <=> Rank(to) = PromoRank(p.side)
  BY <1>1, <1>2, Flags DEF Capture, Quiet, EnPassant
<1>4. Rank(to) # PromoRank(p.side) => Rank(to) \in 1..6
  BY <1>0 DEF PromoRank, Color
<1>5. p.mailbox[from].color = p.side
  BY DEF Pawn
<1> QED BY <1>1, <1>2, <1>3, <1>4, <1>5 DEF StepInv

LEMMA CastlingMoveIs ==
  ASSUME NEW p, Legal(p), NEW info, NEW mv \in CastlingMoves(p, p.side, info)
  PROVE  StepInv(p, mv)
<1>0. Sound(p) /\ p.castling \subseteq Right /\ RightsInv(p)
  BY DEF Legal, Sound, Shape
<1>1. PICK r \in p.castling :
        /\ mv = MoveOf(CastlingPath[r].king[1], CastlingPath[r].king[2], CastlingPath[r].flag)
        /\ CastlingPath[r].us = p.side
        /\ CastlingPath[r].clear \cap OccupiedAll(p) = {}
  BY DEF CastlingMoves
<1>2. /\ mv.from = CastlingPath[r].king[1] /\ mv.to = CastlingPath[r].king[2]
      /\ mv.flag = CastlingPath[r].flag
  BY <1>1 DEF MoveOf
<1>3. r \in {"WhiteKing", "WhiteQueen", "BlackKing", "BlackQueen"}
  BY <1>0 DEF Right
<1>4. /\ CastlingPath[r].king[1] = CastlingHome[r][1] /\ CastlingPath[r].us = CastlingHome[r][3]
      /\ CastlingPath[r].king[1] \in Square /\ CastlingPath[r].king[2] \in CastlingPath[r].clear
      /\ CastlingPath[r].clear \subseteq Square
      /\ CastlingPath[r].flag \in {KingCastle, QueenCastle}
  BY <1>3 DEF CastlingPath, CastlingHome, Square, A1, B1, C1, D1, E1, F1, G1, H1, A8, B8, C8, D8, E8, F8, G8, H8
<1>5. p.mailbox[mv.from] = King(p.side)
  BY <1>0, <1>1, <1>2, <1>4 DEF RightsInv
<1>6. \A s \in CastlingPath[r].clear : p.mailbox[s] = NoPiece
  <2>1. OccupiedAll(p) = {s \in Square : p.mailbox[s] # NoPiece}
    BY <1>0, PieceSets
  <2> QED BY <1>1, <1>4, <2>1
<1>7. mv.flag \in MoveFlag /\ mv.flag # EnPassant /\ mv.flag # DoublePush
      /\ ~IsPromotion(mv) /\ ~IsCapture(mv)
  BY <1>2, <1>4 DEF MoveFlag, EnPassant, DoublePush, IsPromotion, IsCapture, KingCastle, QueenCastle
<1>8. p.mailbox[mv.from].color = p.side /\ p.mailbox[mv.from] # Pawn(p.side)
  BY <1>5 DEF King, Pawn
<1> QED BY <1>1, <1>2, <1>4, <1>6, <1>7, <1>8 DEF StepInv

LEMMA CheckersClear ==
  ASSUME NEW p, Sound(p), NEW k \in Square, NEW c \in CheckersOf(p, p.side, k, OccupiedAll(p)),
         IsSliderAt(p, Flip(p.side), c)
  PROVE  Between[k][c] \cap OccupiedAll(p) = {}
<1> DEFINE them == Flip(p.side)
<1>1. /\ them \in Color
      /\ \A j \in PieceKind : Pieces(p, them, j) = {s \in Square : p.mailbox[s] = [color |-> them, kind |-> j]}
  BY PieceSets
<1>2. PICK j \in {"Bishop", "Rook", "Queen"} : c \in Pieces(p, them, j)
  BY DEF IsSliderAt
<1>3. p.mailbox[c].kind = j /\ j \in PieceKind
  BY <1>1, <1>2 DEF PieceKind
<1>4. c \notin Pieces(p, them, "Pawn") /\ c \notin Pieces(p, them, "Knight")
  BY <1>1, <1>3 DEF PieceKind
<1>5. c \in MagicBishop(k, OccupiedAll(p)) \/ c \in MagicRook(k, OccupiedAll(p))
  BY <1>4 DEF CheckersOf
<1> QED BY <1>5, NothingBetween

LEMMA PushMaskEmpty ==
  ASSUME NEW p, Sound(p), NEW k \in Square, NEW checkers, NEW pins,
         checkers = CheckersOf(p, p.side, k, OccupiedAll(p))
  PROVE  Masks(p, p.side, k, checkers, pins).pushMask \cap OccupiedAll(p) = {}
<1> DEFINE n == Cardinality(checkers)
           slid == UNION {IF IsSliderAt(p, Flip(p.side), c) THEN Between[k][c] ELSE {} : c \in checkers}
<1>1. Masks(p, p.side, k, checkers, pins).pushMask =
        CASE n = 0 -> Square \ OccupiedAll(p) [] n = 1 -> slid [] OTHER -> {}
  BY DEF Masks
<1>2. slid \cap OccupiedAll(p) = {}
  BY CheckersClear
<1> HIDE DEF slid, n
<1> QED BY <1>1, <1>2

LEMMA Steps ==
  ASSUME NEW c \in Color, NEW s \in Square
  PROVE  /\ PushStep(c) \in {-8, 8}
         /\ s + PushStep(c) \in Square =>
              /\ c = "White" => Rank(s + PushStep(c)) = Rank(s) + 1
              /\ c = "Black" => Rank(s + PushStep(c)) = Rank(s) - 1
              /\ File(s + PushStep(c)) = File(s)
         /\ s + PushStep(c) + PushStep(c) \in Square =>
              /\ c = "White" => Rank(s + PushStep(c) + PushStep(c)) = Rank(s) + 2
              /\ c = "Black" => Rank(s + PushStep(c) + PushStep(c)) = Rank(s) - 2
BY DEF Color, PushStep, Square, Rank, File

LEMMA PawnReaches ==
  ASSUME NEW c \in Color, NEW s \in Square, NEW t \in PawnAttacks[c][s]
  PROVE  /\ t \in Square
         /\ c = "White" => Rank(t) = Rank(s) + 1
         /\ c = "Black" => Rank(t) = Rank(s) - 1
<1> DEFINE up == IF c = "White" THEN 1 ELSE -1
<1>1. t \in Leaps(s, {<<-1, up>>, <<1, up>>})
  BY DEF PawnAttacks
<1>2. PICK d \in {<<-1, up>>, <<1, up>>} : t = FromFileRank(File(s) + d[1], Rank(s) + d[2]) /\ t # NoSquare
  BY <1>1 DEF Leaps
<1>3. OnBoard(File(s) + d[1], Rank(s) + d[2]) /\ t = 8 * (Rank(s) + d[2]) + (File(s) + d[1])
  BY <1>2 DEF FromFileRank
<1>4. File(s) + d[1] \in 0..7 /\ Rank(s) + up \in 0..7 /\ t = 8 * (Rank(s) + up) + (File(s) + d[1])
  BY <1>2, <1>3 DEF OnBoard
<1>5. t \in Square /\ Rank(t) = Rank(s) + up
  BY <1>4 DEF Square, Rank
<1> QED BY <1>5 DEF Color

LEMMA PawnPushIs ==
  ASSUME NEW p, Legal(p), NEW k \in Square, NEW checkers, NEW pins,
         checkers = CheckersOf(p, p.side, k, OccupiedAll(p)), NEW info, info = Masks(p, p.side, k, checkers, pins),
         NEW from \in Pieces(p, p.side, "Pawn"), NEW mv \in PawnPushes(p, p.side, info, from)
  PROVE  StepInv(p, mv)
<1> DEFINE us == p.side
           one == from + PushStep(us)
           two == one + PushStep(us)
<1>0. /\ Sound(p) /\ us \in Color /\ from \in Square /\ p.mailbox[from] = Pawn(us)
      /\ OccupiedAll(p) = {s \in Square : p.mailbox[s] # NoPiece}
  <2>1. Sound(p) /\ "Pawn" \in PieceKind
    BY DEF Legal, PieceKind
  <2> QED BY <2>1, PieceSets DEF Pawn
<1>1. one \in Square /\ p.mailbox[one] = NoPiece
  BY <1>0 DEF PawnPushes
<1>2. CASE mv \in PawnMove(us, from, one, Quiet)
  <2>1. Rank(one) # Rank(from) /\ (us = "White" => Rank(one) > Rank(from)) /\ (us = "Black" => Rank(one) < Rank(from))
    BY <1>0, <1>1, Steps, OnTheBoard DEF Color
  <2> HIDE DEF one
  <2> QED BY <1>0, <1>1, <1>2, <2>1, PawnMoveIs DEF Quiet, Capture
<1>3. CASE mv = MoveOf(from, two, DoublePush) /\ Rank(from) = StartRank(us) /\ two \in info.pushMask
  <2>1. two \in Square
    <3>1. from = 8 * Rank(from) + File(from) /\ File(from) \in 0..7
      BY <1>0, OnTheBoard
    <3> QED BY <1>0, <1>3, <3>1 DEF StartRank, PushStep, Square, Color
  <2>2. p.mailbox[two] = NoPiece
    BY <1>0, <1>3, <2>1, PushMaskEmpty
  <2>3. Rank(two) \in 1..6
    BY <1>0, <1>3, <2>1, Steps DEF StartRank, Color
  <2>4. mv.from = from /\ mv.to = two /\ mv.flag = DoublePush
    BY <1>3 DEF MoveOf
  <2>5. mv.flag \in MoveFlag /\ mv.flag # EnPassant /\ ~IsPromotion(mv) /\ ~IsCapture(mv) /\ ~IsCastling(mv)
    BY <2>4 DEF MoveFlag, EnPassant, DoublePush, IsPromotion, IsCapture, KingCastle, QueenCastle, IsCastling
  <2>6. Pawn(us).color = us
    BY DEF Pawn
  <2> HIDE DEF one
  <2> QED BY <1>0, <1>1, <1>3, <2>1, <2>2, <2>3, <2>4, <2>5, <2>6 DEF StepInv, one
<1> QED BY <1>1, <1>2, <1>3 DEF PawnPushes

LEMMA PawnCaptureIs ==
  ASSUME NEW p, Legal(p), NEW info, NEW from \in Pieces(p, p.side, "Pawn"),
         NEW mv \in PawnCaptures(p, p.side, info, from)
  PROVE  StepInv(p, mv)
<1> DEFINE us == p.side
<1>0. /\ Sound(p) /\ us \in Color /\ from \in Square /\ p.mailbox[from] = Pawn(us)
      /\ Occupied(p, Flip(us)) = {s \in Square : p.mailbox[s].color = Flip(us)}
  <2>1. Sound(p) /\ "Pawn" \in PieceKind
    BY DEF Legal, PieceKind
  <2> QED BY <2>1, PieceSets DEF Pawn
<1>1. PICK to \in PawnAttacks[us][from] \cap Occupied(p, Flip(us)) : mv \in PawnMove(us, from, to, Capture)
  BY DEF PawnCaptures
<1>2. to \in Square /\ p.mailbox[to].color = Flip(us)
  BY <1>0, <1>1
<1>3. Rank(to) # Rank(from) /\ (us = "White" => Rank(to) > Rank(from)) /\ (us = "Black" => Rank(to) < Rank(from))
  BY <1>0, <1>1, PawnReaches, OnTheBoard DEF Color
<1> QED BY <1>0, <1>1, <1>2, <1>3, PawnMoveIs DEF Quiet, Capture

LEMMA EnPassantIs ==
  ASSUME NEW p, Legal(p), NEW mv \in EnPassantMoves(p, p.side)
  PROVE  StepInv(p, mv)
<1> DEFINE us == p.side
<1>0. /\ Sound(p) /\ us \in Color /\ p.ep \in Square \cup {NoSquare}
      /\ Pieces(p, us, "Pawn") = {s \in Square : p.mailbox[s] = Pawn(us)}
  <2>1. Sound(p) /\ "Pawn" \in PieceKind /\ p.ep \in Square \cup {NoSquare}
    BY DEF Legal, PieceKind, Sound, Shape
  <2> QED BY <2>1, PieceSets DEF Pawn
<1>1. p.ep # NoSquare
  BY DEF EnPassantMoves
<1>2. PICK from \in Pieces(p, us, "Pawn") : mv = MoveOf(from, p.ep, EnPassant)
  BY <1>1 DEF EnPassantMoves
<1>3. mv.from = from /\ mv.to = p.ep /\ mv.flag = EnPassant
  BY <1>2 DEF MoveOf
<1>4. from \in Square /\ p.mailbox[from] = Pawn(us) /\ Pawn(us).color = us /\ p.ep \in Square
  BY <1>0, <1>1, <1>2 DEF Pawn
<1>5. Rank(p.ep) \in 1..6
  BY <1>1 DEF Legal, EpInv
<1>6. mv.flag \in MoveFlag /\ ~IsPromotion(mv) /\ ~IsCastling(mv) /\ mv.flag # DoublePush
  BY <1>3 DEF MoveFlag, EnPassant, DoublePush, IsPromotion, KingCastle, QueenCastle, IsCastling
<1> QED BY <1>1, <1>3, <1>4, <1>5, <1>6 DEF StepInv

LEMMA GeneratedMoves ==
  ASSUME NEW p, Legal(p), p.mailbox[p.kingSq[p.side]] = King(p.side), NEW mv \in GenerateMoves(p)
  PROVE  StepInv(p, mv)
<1> DEFINE us == p.side
           k == p.kingSq[us]
           checkers == CheckersOf(p, us, k, OccupiedAll(p))
           pins == Pins(p, us, k)
           info == Masks(p, us, k, checkers, pins)
<1>0. /\ Sound(p) /\ us \in Color /\ k \in Square
      /\ \A kind \in PieceKind : Pieces(p, us, kind) = {s \in Square : p.mailbox[s] = [color |-> us, kind |-> kind]}
  BY PieceSets DEF Legal, Sound, Shape
<1>1. mv \in MovesThrough(p, us, k, info)
  BY DEF GenerateMoves, MaskInfo
<1> HIDE DEF info
<1>2. CASE mv \in KingMoves(p, us, k, info) \ CastlingMoves(p, us, info)
  <2>1. PICK to \in KingAttacks[k] \ Occupied(p, us) : mv = MoveOf(k, to, CaptureOrQuiet(p, us, to))
    BY <1>2 DEF KingMoves
  <2>2. to \in Square
    BY <1>0, <2>1, TablesOnBoard
  <2> QED BY <1>0, <2>1, <2>2, OrdinaryMove DEF King, PieceKind
<1>3. CASE mv \in CastlingMoves(p, us, info)
  BY <1>3, CastlingMoveIs
<1>4. CASE mv \in KnightMoves(p, us, info)
  <2>1. PICK from \in Pieces(p, us, "Knight") : \E to \in KnightAttacks[from] \ Occupied(p, us) :
           mv = MoveOf(from, to, CaptureOrQuiet(p, us, to))
    BY <1>4 DEF KnightMoves
  <2>2. from \in Square /\ p.mailbox[from] = [color |-> us, kind |-> "Knight"]
    BY <1>0, <2>1 DEF PieceKind
  <2> QED BY <1>0, <2>1, <2>2, TablesOnBoard, OrdinaryMove DEF PieceKind
<1>5. CASE mv \in SliderMoves(p, us, info)
  <2> DEFINE attacks(kind, from) == CASE kind = "Bishop" -> MagicBishop(from, OccupiedAll(p))
                            [] kind = "Rook"   -> MagicRook(from, OccupiedAll(p))
                            [] kind = "Queen"  -> MagicQueen(from, OccupiedAll(p))
  <2>1. PICK kind \in {"Bishop", "Rook", "Queen"} : \E from \in Pieces(p, us, kind) :
          \E to \in attacks(kind, from) \ Occupied(p, us) : mv = MoveOf(from, to, CaptureOrQuiet(p, us, to))
    BY <1>5 DEF SliderMoves
  <2>2. PICK from \in Pieces(p, us, kind) :
          \E to \in attacks(kind, from) \ Occupied(p, us) : mv = MoveOf(from, to, CaptureOrQuiet(p, us, to))
    BY <2>1
  <2>3. kind \in PieceKind \ {"Pawn"}
    BY DEF PieceKind
  <2>4. from \in Square /\ p.mailbox[from] = [color |-> us, kind |-> kind]
    BY <1>0, <2>2, <2>3
  <2>5. attacks(kind, from) \subseteq Square
    BY <2>4, MagicsOnBoard
  <2> HIDE DEF attacks
  <2> QED BY <1>0, <2>2, <2>3, <2>4, <2>5, OrdinaryMove
<1>6. CASE mv \in PawnMoves(p, us, info)
  <2>1. CASE mv \in EnPassantMoves(p, us)
    BY <2>1, EnPassantIs
  <2>2. CASE \E from \in Pieces(p, us, "Pawn") : mv \in PawnCaptures(p, us, info, from)
    BY <2>2, PawnCaptureIs
  <2>3. CASE \E from \in Pieces(p, us, "Pawn") : mv \in PawnPushes(p, us, info, from)
    BY <1>0, <2>3, PawnPushIs DEF info
  <2>4. \/ mv \in EnPassantMoves(p, us)
        \/ \E from \in Pieces(p, us, "Pawn") : mv \in PawnPushes(p, us, info, from) \cup PawnCaptures(p, us, info, from)
    BY <1>6 DEF PawnMoves
  <2> QED BY <2>1, <2>2, <2>3, <2>4
<1> QED BY <1>1, <1>2, <1>3, <1>4, <1>5, <1>6 DEF MovesThrough, KingMoves

-----------------------------------------------------------------------------
\* The board after a move.
MadeMailbox(m, us, mv) ==
  LET rook == CastleRookSquares(us, mv.flag) IN
  [s \in Square |->
     IF s = mv.to THEN LandsAs(m[mv.from], mv)
     ELSE IF s = mv.from THEN NoPiece
     ELSE IF mv.flag = EnPassant /\ s = CaptureSquare(us, mv) THEN NoPiece
     ELSE IF IsCastling(mv) /\ s = rook[1] THEN NoPiece
     ELSE IF IsCastling(mv) /\ s = rook[2] THEN Rook(us)
     ELSE m[s]]

LEMMA MoverIs ==
  ASSUME NEW p, Legal(p), NEW mv, StepInv(p, mv)
  PROVE  LET m == p.mailbox
             us == p.side
             mover == m[mv.from]
             captureSq == CaptureSquare(us, mv)
         IN /\ us \in Color /\ mover \in Piece /\ mover.color = us /\ mv.from # mv.to
            /\ LandsAs(mover, mv) \in Piece /\ LandsAs(mover, mv).color = us
            /\ LandsAs(mover, mv).kind = "King" <=> mover.kind = "King"
            /\ ~IsPromotion(mv) => LandsAs(mover, mv) = mover
            /\ IsPromotion(mv) => mover = Pawn(us) /\ LandsAs(mover, mv).kind # "Pawn"
            /\ IsCapture(mv) =>
                 /\ captureSq \in Square /\ captureSq # mv.from
                 /\ m[captureSq] \in Piece /\ m[captureSq].color = Flip(us)
            /\ mv.flag # EnPassant => captureSq = mv.to
            /\ mv.flag = EnPassant => IsCapture(mv) /\ captureSq # mv.to /\ m[mv.to] = NoPiece /\ m[captureSq] = Pawn(Flip(us))
            /\ ~IsCapture(mv) => m[mv.to] = NoPiece
<1> DEFINE m == p.mailbox
           us == p.side
           mover == m[mv.from]
           captureSq == CaptureSquare(us, mv)
<1>0. /\ Sound(p) /\ us \in Color /\ Flip(us) \in Color /\ Flip(us) # us
      /\ \A s \in Square : m[s] \in Piece \cup {NoPiece}
  <2>1. Sound(p)
    BY DEF Legal
  <2> QED BY <2>1, PieceSets
<1>1. mv.from \in Square /\ mv.to \in Square /\ mv.flag \in MoveFlag /\ mover.color = us
  BY DEF StepInv
<1>2. mover \in Piece
  BY <1>0, <1>1, Pieces1
<1>3. mv.flag = EnPassant => p.ep # NoSquare /\ mv.to = p.ep /\ mover = Pawn(us)
  BY DEF StepInv
<1>4. mv.flag = EnPassant => IsCapture(mv) /\ ~IsPromotion(mv)
  BY DEF IsCapture, IsPromotion, EnPassant
<1>5. mv.flag # EnPassant => captureSq = mv.to
  BY DEF CaptureSquare
<1>6. ASSUME mv.flag = EnPassant
      PROVE  /\ captureSq \in Square /\ captureSq # mv.to /\ captureSq # mv.from
             /\ m[mv.to] = NoPiece /\ m[captureSq] = Pawn(Flip(us))
  <2>1. captureSq = p.ep - PushStep(us) /\ p.ep \in Square
    BY <1>1, <1>3, <1>6 DEF CaptureSquare
  <2>2. Rank(p.ep) = (IF us = "White" THEN 5 ELSE 2)
        /\ m[p.ep] = NoPiece /\ m[captureSq] = Pawn(Flip(us))
    BY <1>3, <1>6, <2>1 DEF Legal, EpInv
  <2>3. p.ep = 8 * Rank(p.ep) + File(p.ep) /\ File(p.ep) \in 0..7
    BY <2>1, OnTheBoard
  <2>4. captureSq \in Square /\ captureSq # p.ep
    BY <2>1, <2>2, <2>3 DEF PushStep, Square
  <2>5. Pawn(Flip(us)) # Pawn(us)
    BY <1>0 DEF Pawn
  <2> QED BY <1>3, <1>6, <2>2, <2>4, <2>5
<1>7. ASSUME mv.flag # EnPassant
      PROVE  IF IsCapture(mv) THEN m[mv.to].color = Flip(us) ELSE m[mv.to] = NoPiece
  BY <1>7 DEF StepInv
<1>8. mv.from # mv.to
  <2>1. CASE mv.flag = EnPassant
    BY <1>2, <1>6, <2>1, Pieces1
  <2>2. CASE mv.flag # EnPassant
    BY <1>0, <1>1, <1>2, <1>7, <2>2, Pieces1
  <2> QED BY <2>1, <2>2
<1>9. IsCapture(mv) => /\ captureSq \in Square /\ captureSq # mv.from
                       /\ m[captureSq] \in Piece /\ m[captureSq].color = Flip(us)
  <2>1. CASE mv.flag = EnPassant
    BY <1>0, <1>6, <2>1, Pieces1 DEF Pawn
  <2>2. CASE mv.flag # EnPassant
    BY <1>0, <1>1, <1>5, <1>7, <1>8, <2>2, Pieces1
  <2> QED BY <2>1, <2>2
<1>10. IsPromotion(mv) => mover = Pawn(us)
  BY DEF StepInv
<1>11. /\ LandsAs(mover, mv) \in Piece /\ LandsAs(mover, mv).color = us
       /\ LandsAs(mover, mv).kind = "King" <=> mover.kind = "King"
       /\ ~IsPromotion(mv) => LandsAs(mover, mv) = mover
       /\ IsPromotion(mv) => LandsAs(mover, mv).kind # "Pawn"
  <2>1. CASE IsPromotion(mv)
    <3>1. PromotionKind(mv) \in {"Knight", "Bishop", "Rook", "Queen"}
      BY <1>1, <2>1, Flags
    <3>2. LandsAs(mover, mv) = [color |-> us, kind |-> PromotionKind(mv)]
      BY <1>1, <2>1 DEF LandsAs
    <3>3. mover.kind # "King"
      BY <1>10, <2>1 DEF Pawn
    <3>4. PromotionKind(mv) \in PieceKind
      BY <3>1 DEF PieceKind
    <3> QED BY <1>0, <2>1, <3>1, <3>2, <3>3, <3>4, Pieces1
  <2>2. CASE ~IsPromotion(mv)
    BY <1>1, <1>2, <2>2 DEF LandsAs
  <2> QED BY <2>1, <2>2
<1> QED BY <1>0, <1>1, <1>2, <1>4, <1>5, <1>6, <1>7, <1>8, <1>9, <1>10, <1>11

LEMMA CastlingIs ==
  ASSUME NEW p, Legal(p), NEW mv, StepInv(p, mv), IsCastling(mv)
  PROVE  LET m == p.mailbox
             us == p.side
             rook == CastleRookSquares(us, mv.flag)
         IN /\ rook[1] \in Square /\ rook[2] \in Square /\ rook[1] # rook[2]
            /\ rook[1] \notin {mv.from, mv.to} /\ rook[2] \notin {mv.from, mv.to}
            /\ m[mv.from] = King(us) /\ m[rook[1]] = Rook(us)
            /\ m[rook[2]] = NoPiece /\ m[mv.to] = NoPiece
            /\ ~IsCapture(mv) /\ ~IsPromotion(mv) /\ mv.flag # EnPassant
<1> DEFINE m == p.mailbox
           us == p.side
           rook == CastleRookSquares(us, mv.flag)
<1>0. Sound(p) /\ p.castling \subseteq Right /\ RightsInv(p)
  BY DEF Legal, Sound, Shape
<1>1. PICK r \in p.castling :
         /\ CastlingPath[r].us = us /\ CastlingPath[r].flag = mv.flag
         /\ mv.from = CastlingPath[r].king[1] /\ mv.to = CastlingPath[r].king[2]
         /\ \A s \in CastlingPath[r].clear : m[s] = NoPiece
  BY DEF StepInv
<1>2. r \in {"WhiteKing", "WhiteQueen", "BlackKing", "BlackQueen"}
  BY <1>0 DEF Right
<1>3. /\ mv.from = CastlingHome[r][1] /\ us = CastlingHome[r][3] /\ rook[1] = CastlingHome[r][2]
      /\ mv.to \in CastlingPath[r].clear /\ rook[2] \in CastlingPath[r].clear
      /\ rook[1] \in Square /\ rook[2] \in Square /\ rook[1] # rook[2]
      /\ rook[1] \notin {mv.from, mv.to} /\ rook[2] \notin {mv.from, mv.to}
  <2>1. CASE r = "WhiteKing"
    BY <1>1, <2>1 DEF CastlingPath, CastlingHome, CastleRookSquares, KingCastle, QueenCastle, Square, A1, B1, C1, D1, E1, F1, G1, H1
  <2>2. CASE r = "WhiteQueen"
    BY <1>1, <2>2 DEF CastlingPath, CastlingHome, CastleRookSquares, KingCastle, QueenCastle, Square, A1, B1, C1, D1, E1, F1, G1, H1
  <2>3. CASE r = "BlackKing"
    BY <1>1, <2>3 DEF CastlingPath, CastlingHome, CastleRookSquares, KingCastle, QueenCastle, Square, A8, B8, C8, D8, E8, F8, G8, H8
  <2>4. CASE r = "BlackQueen"
    BY <1>1, <2>4 DEF CastlingPath, CastlingHome, CastleRookSquares, KingCastle, QueenCastle, Square, A8, B8, C8, D8, E8, F8, G8, H8
  <2> QED BY <1>2, <2>1, <2>2, <2>3, <2>4
<1>4. m[mv.from] = King(us) /\ m[rook[1]] = Rook(us) /\ m[rook[2]] = NoPiece /\ m[mv.to] = NoPiece
  BY <1>0, <1>1, <1>3 DEF RightsInv
<1>5. ~IsCapture(mv) /\ ~IsPromotion(mv) /\ mv.flag # EnPassant
  BY DEF IsCastling, KingCastle, QueenCastle, IsCapture, IsPromotion, EnPassant
<1> QED BY <1>3, <1>4, <1>5

LEMMA MoveBoardIs ==
  ASSUME NEW p, Legal(p), NEW mv, StepInv(p, mv), NEW q, q = MoveBoard(p, mv, p.mailbox[mv.from])
  PROVE  /\ Sound(q) /\ Rest(q) = Rest(p)
         /\ q.mailbox = MadeMailbox(p.mailbox, p.side, mv)
         /\ q.kingSq = KingPut(p.kingSq, mv.to, p.mailbox[mv.from])
<1> DEFINE m == p.mailbox
           us == p.side
           mover == m[mv.from]
           lands == LandsAs(mover, mv)
           captureSq == CaptureSquare(us, mv)
           rook == CastleRookSquares(us, mv.flag)
           cleared == ClearSquare(p, mv.from)
           emptied == IF IsCapture(mv) THEN ClearSquare(cleared, captureSq) ELSE cleared
           made == MadeMailbox(m, us, mv)
<1>0. Sound(p) /\ mv.from \in Square /\ mv.to \in Square
  BY DEF Legal, StepInv
<1>1. /\ us \in Color /\ mover \in Piece /\ mover.color = us /\ mv.from # mv.to
      /\ lands \in Piece /\ lands.color = us
      /\ lands.kind = "King" <=> mover.kind = "King"
      /\ ~IsPromotion(mv) => lands = mover
      /\ IsCapture(mv) => captureSq \in Square
      /\ mv.flag # EnPassant => captureSq = mv.to
      /\ mv.flag = EnPassant => IsCapture(mv) /\ captureSq # mv.to
  BY MoverIs
<1>2. cleared = ClearSquare(p, mv.from)
  OBVIOUS
<1>3. CASE ~IsCastling(mv)
  <2>1. q = SetPiece(emptied, mv.to, lands)
    BY <1>1, <1>3 DEF MoveBoard
  <2>2. emptied = IF IsCapture(mv) THEN ClearSquare(cleared, captureSq) ELSE cleared
    OBVIOUS
  <2>3. made = [s \in Square |-> IF s = mv.to THEN lands
                  ELSE IF s = mv.from THEN NoPiece
                  ELSE IF mv.flag = EnPassant /\ s = captureSq THEN NoPiece ELSE m[s]]
    BY <1>3 DEF MadeMailbox
  <2> HIDE DEF emptied, cleared, captureSq, lands, mover, rook, made
  <2>4. Sound(cleared) /\ Rest(cleared) = Rest(p) /\ cleared.kingSq = p.kingSq
        /\ cleared.mailbox = Put(m, mv.from, NoPiece)
    BY <1>0, <1>2, ClearSquareIs
  <2>5. Sound(emptied) /\ Rest(emptied) = Rest(p) /\ emptied.kingSq = p.kingSq
        /\ emptied.mailbox = IF IsCapture(mv) THEN Put(cleared.mailbox, captureSq, NoPiece) ELSE cleared.mailbox
    <3>1. CASE IsCapture(mv)
      <4>1. captureSq \in Square /\ emptied = ClearSquare(cleared, captureSq)
        BY <1>1, <2>2, <3>1
      <4>2. Sound(emptied) /\ Rest(emptied) = Rest(cleared) /\ emptied.kingSq = cleared.kingSq
            /\ emptied.mailbox = Put(cleared.mailbox, captureSq, NoPiece)
        BY <2>4, <4>1, ClearSquareIs
      <4> QED BY <2>4, <3>1, <4>2
    <3>2. CASE ~IsCapture(mv)
      BY <2>2, <2>4, <3>2
    <3> QED BY <3>1, <3>2
  <2>6. Sound(q) /\ Rest(q) = Rest(emptied)
        /\ q.mailbox = Put(emptied.mailbox, mv.to, lands)
        /\ q.kingSq = KingPut(emptied.kingSq, mv.to, lands)
    BY SMTT(40), <1>0, <1>1, <2>1, <2>5, SetPieceIs
  <2>7. KingPut(p.kingSq, mv.to, lands) = KingPut(p.kingSq, mv.to, mover)
    BY <1>1 DEF KingPut
  <2>8. q.mailbox = made
    <3>1. DOMAIN made = Square /\ q.mailbox \in [Square -> Piece \cup {NoPiece}] /\ made \in [Square -> {made[s] : s \in Square}]
      BY <2>3, <2>6, BoardFunction
    <3>2. ASSUME NEW s \in Square PROVE q.mailbox[s] = made[s]
      <4>1. made[s] = IF s = mv.to THEN lands
                  ELSE IF s = mv.from THEN NoPiece
                  ELSE IF mv.flag = EnPassant /\ s = captureSq THEN NoPiece ELSE m[s]
        BY <2>3
      <4>2. cleared.mailbox[s] = IF s = mv.from THEN NoPiece ELSE m[s]
        BY <1>0, <2>4, PutIs, BoardFunction
      <4>3. emptied.mailbox[s] = IF IsCapture(mv) /\ s = captureSq THEN NoPiece ELSE cleared.mailbox[s]
        BY <1>1, <2>4, <2>5, PutIs, BoardFunction
      <4>4. q.mailbox[s] = IF s = mv.to THEN lands ELSE emptied.mailbox[s]
        BY <1>0, <2>5, <2>6, PutIs, BoardFunction
      <4> QED BY <1>1, <4>1, <4>2, <4>3, <4>4
    <3> QED BY <3>1, <3>2
  <2> QED BY <2>5, <2>6, <2>7, <2>8 DEF made, mover
<1>4. CASE IsCastling(mv)
  <2> DEFINE r1 == ClearSquare(cleared, rook[1])
             r2 == SetPiece(r1, mv.to, mover)
  <2>0. /\ rook[1] \in Square /\ rook[2] \in Square /\ rook[1] # rook[2]
        /\ rook[1] \notin {mv.from, mv.to} /\ rook[2] \notin {mv.from, mv.to}
        /\ ~IsPromotion(mv) /\ mv.flag # EnPassant /\ mover = King(us)
    BY <1>4, CastlingIs
  <2>1. q = SetPiece(r2, rook[2], Rook(us)) /\ r1 = ClearSquare(cleared, rook[1]) /\ r2 = SetPiece(r1, mv.to, mover)
    BY <1>1, <1>4 DEF MoveBoard, Rook
  <2>2. made = [s \in Square |-> IF s = mv.to THEN mover
                  ELSE IF s = mv.from THEN NoPiece
                  ELSE IF s = rook[1] THEN NoPiece
                  ELSE IF s = rook[2] THEN Rook(us) ELSE m[s]]
    BY <1>1, <1>4, <2>0 DEF MadeMailbox
  <2>3. Rook(us) \in Piece /\ Rook(us).kind # "King"
    BY <1>1, Pieces1 DEF Rook
  <2> HIDE DEF r1, r2, cleared, captureSq, lands, mover, rook, made
  <2>4. Sound(cleared) /\ Rest(cleared) = Rest(p) /\ cleared.kingSq = p.kingSq
        /\ cleared.mailbox = Put(m, mv.from, NoPiece)
    BY <1>0, <1>2, ClearSquareIs
  <2>5. Sound(r1) /\ Rest(r1) = Rest(cleared) /\ r1.kingSq = cleared.kingSq
        /\ r1.mailbox = Put(cleared.mailbox, rook[1], NoPiece)
    BY <2>0, <2>1, <2>4, ClearSquareIs
  <2>6. Sound(r2) /\ Rest(r2) = Rest(r1) /\ r2.kingSq = KingPut(r1.kingSq, mv.to, mover)
        /\ r2.mailbox = Put(r1.mailbox, mv.to, mover)
    BY SMTT(40), <1>0, <1>1, <2>1, <2>5, SetPieceIs
  <2>7. Sound(q) /\ Rest(q) = Rest(r2) /\ q.kingSq = KingPut(r2.kingSq, rook[2], Rook(us))
        /\ q.mailbox = Put(r2.mailbox, rook[2], Rook(us))
    BY <2>0, <2>1, <2>3, <2>6, SetPieceIs
  <2>8. KingPut(r2.kingSq, rook[2], Rook(us)) = r2.kingSq
    BY <2>3 DEF KingPut
  <2>9. q.mailbox = made
    <3>1. DOMAIN made = Square /\ q.mailbox \in [Square -> Piece \cup {NoPiece}] /\ made \in [Square -> {made[s] : s \in Square}]
      BY <2>2, <2>7, BoardFunction
    <3>2. ASSUME NEW s \in Square PROVE q.mailbox[s] = made[s]
      <4>1. made[s] = IF s = mv.to THEN mover
                  ELSE IF s = mv.from THEN NoPiece
                  ELSE IF s = rook[1] THEN NoPiece
                  ELSE IF s = rook[2] THEN Rook(us) ELSE m[s]
        BY <2>2
      <4>2. cleared.mailbox[s] = IF s = mv.from THEN NoPiece ELSE m[s]
        BY <1>0, <2>4, PutIs, BoardFunction
      <4>3. r1.mailbox[s] = IF s = rook[1] THEN NoPiece ELSE cleared.mailbox[s]
        BY <2>0, <2>4, <2>5, PutIs, BoardFunction
      <4>4. r2.mailbox[s] = IF s = mv.to THEN mover ELSE r1.mailbox[s]
        BY <1>0, <2>5, <2>6, PutIs, BoardFunction
      <4>5. q.mailbox[s] = IF s = rook[2] THEN Rook(us) ELSE r2.mailbox[s]
        BY <2>0, <2>6, <2>7, PutIs, BoardFunction
      <4> QED BY <2>0, <4>1, <4>2, <4>3, <4>4, <4>5
    <3> QED BY <3>1, <3>2
  <2> QED BY <2>4, <2>5, <2>6, <2>7, <2>8, <2>9 DEF made, mover
<1> QED BY <1>3, <1>4

\* Moving the board back gives the board.
LEMMA UnmakeBoardIs ==
  ASSUME NEW p, Legal(p), NEW mv, StepInv(p, mv), NEW q, Sound(q),
         q.mailbox = MadeMailbox(p.mailbox, p.side, mv),
         q.kingSq = KingPut(p.kingSq, mv.to, p.mailbox[mv.from]),
         NEW captured, IsCapture(mv) => captured = p.mailbox[CaptureSquare(p.side, mv)],
         NEW r, r = UnmakeBoard(q, mv, p.side, captured)
  PROVE  Sound(r) /\ Rest(r) = Rest(q) /\ r.mailbox = p.mailbox /\ r.kingSq = p.kingSq
<1> DEFINE m == p.mailbox
           us == p.side
           mover == m[mv.from]
           captureSq == CaptureSquare(us, mv)
           rook == CastleRookSquares(us, mv.flag)
           cleared == ClearSquare(q, mv.to)
           moved == IF IsPromotion(mv) THEN Pawn(us) ELSE PieceAt(q, mv.to)
           back == SetPiece(cleared, mv.from, mover)
<1>0. Sound(p) /\ mv.from \in Square /\ mv.to \in Square /\ KingInv(p)
      /\ p.kingSq \in [Color -> Square] /\ m \in [Square -> Piece \cup {NoPiece}]
  BY BoardFunction DEF Legal, StepInv
<1>1. /\ us \in Color /\ mover \in Piece /\ mover.color = us /\ mv.from # mv.to
      /\ ~IsPromotion(mv) => LandsAs(mover, mv) = mover
      /\ IsPromotion(mv) => mover = Pawn(us)
      /\ IsCapture(mv) => /\ captureSq \in Square /\ captureSq # mv.from
                          /\ m[captureSq] \in Piece /\ m[captureSq].color = Flip(us)
      /\ mv.flag # EnPassant => captureSq = mv.to
      /\ mv.flag = EnPassant => IsCapture(mv) /\ captureSq # mv.to /\ m[mv.to] = NoPiece
      /\ ~IsCapture(mv) => m[mv.to] = NoPiece
  BY MoverIs
<1>2. q.mailbox[mv.to] = LandsAs(mover, mv)
  BY <1>0 DEF MadeMailbox
<1>3. moved = mover
  BY <1>1, <1>2 DEF PieceAt
<1>4. cleared = ClearSquare(q, mv.to) /\ back = SetPiece(cleared, mv.from, mover)
  OBVIOUS
<1>5. mover.kind = "King" => p.kingSq[us] = mv.from
  <2>1. mover.kind = "King" => mover = King(us)
    BY <1>1, Pieces1 DEF King
  <2> QED BY <1>0, <1>1, <2>1 DEF KingInv
<1>6. KingPut(q.kingSq, mv.from, mover) = p.kingSq
  BY <1>0, <1>1, <1>5 DEF KingPut
<1>7. CASE ~IsCastling(mv)
  <2>1. r = IF IsCapture(mv) THEN SetPiece(back, captureSq, captured) ELSE back
    <3>1. r = LET b == SetPiece(cleared, mv.from, moved)
              IN IF IsCapture(mv) THEN SetPiece(b, captureSq, captured) ELSE b
      BY <1>7 DEF UnmakeBoard, Pawn
    <3> HIDE DEF moved, cleared
    <3> QED BY <1>3, <3>1
  <2>2. q.mailbox = [s \in Square |-> IF s = mv.to THEN LandsAs(mover, mv)
                  ELSE IF s = mv.from THEN NoPiece
                  ELSE IF mv.flag = EnPassant /\ s = captureSq THEN NoPiece ELSE m[s]]
    BY <1>7 DEF MadeMailbox
  <2>7. IsCapture(mv) => captured = m[captureSq]
    OBVIOUS
  <2> HIDE DEF back, cleared, captureSq, mover, rook, moved
  <2>3. Sound(cleared) /\ Rest(cleared) = Rest(q) /\ cleared.kingSq = q.kingSq
        /\ cleared.mailbox = Put(q.mailbox, mv.to, NoPiece)
    BY <1>0, <1>4, ClearSquareIs
  <2>4. Sound(back) /\ Rest(back) = Rest(cleared)
        /\ back.mailbox = Put(cleared.mailbox, mv.from, mover)
        /\ back.kingSq = KingPut(cleared.kingSq, mv.from, mover)
    <3>1. mv.from \in Square /\ mover \in Piece /\ back = SetPiece(cleared, mv.from, mover) /\ Sound(cleared)
      BY <1>0, <1>1, <1>4, <2>3 DEF mover
    <3> QED BY <3>1, SetPieceIs
  <2>8. back.kingSq = p.kingSq
    BY <1>6, <2>3, <2>4
  <2>9. \A s \in Square : back.mailbox[s] = IF s = mv.from THEN mover
                            ELSE IF s = mv.to THEN NoPiece ELSE q.mailbox[s]
    <3> SUFFICES ASSUME NEW s \in Square
                 PROVE  back.mailbox[s] = IF s = mv.from THEN mover ELSE IF s = mv.to THEN NoPiece ELSE q.mailbox[s]
      OBVIOUS
    <3>1. cleared.mailbox[s] = IF s = mv.to THEN NoPiece ELSE q.mailbox[s]
      BY <1>0, <2>3, PutIs, BoardFunction
    <3>2. back.mailbox[s] = IF s = mv.from THEN mover ELSE cleared.mailbox[s]
      BY <1>0, <2>3, <2>4, PutIs, BoardFunction
    <3> QED BY <3>1, <3>2
  <2>10. \A s \in Square : q.mailbox[s] = IF s = mv.to THEN LandsAs(mover, mv)
                  ELSE IF s = mv.from THEN NoPiece
                  ELSE IF mv.flag = EnPassant /\ s = captureSq THEN NoPiece ELSE m[s]
    BY <2>2
  <2>5. CASE IsCapture(mv)
    <3>1. captureSq \in Square /\ captured = m[captureSq] /\ captured \in Piece /\ r = SetPiece(back, captureSq, captured)
      BY <1>1, <2>1, <2>5, <2>7
    <3>2. Sound(r) /\ Rest(r) = Rest(back)
          /\ r.mailbox = Put(back.mailbox, captureSq, captured)
          /\ r.kingSq = KingPut(back.kingSq, captureSq, captured)
      BY <2>4, <3>1, SetPieceIs
    <3>3. r.mailbox = m
      <4>1. ASSUME NEW s \in Square PROVE r.mailbox[s] = m[s]
        <5>1. r.mailbox[s] = IF s = captureSq THEN captured ELSE back.mailbox[s]
          BY <2>4, <3>1, <3>2, PutIs, BoardFunction
        <5> QED BY <1>1, <2>5, <2>9, <2>10, <3>1, <5>1 DEF mover
      <4>2. r.mailbox \in [Square -> Piece \cup {NoPiece}]
        BY <3>2, BoardFunction
      <4> QED BY <1>0, <4>1, <4>2
    <3>4. captured.kind = "King" => captured.color \in Color /\ captured = King(captured.color)
      BY <3>1, Pieces1 DEF King
    <3>5. captured.kind = "King" => p.kingSq[captured.color] = captureSq
      BY <1>0, <3>1, <3>4 DEF KingInv
    <3>6. KingPut(p.kingSq, captureSq, captured) = p.kingSq
      BY <1>0, <3>4, <3>5 DEF KingPut
    <3> QED BY <2>3, <2>4, <2>8, <3>2, <3>3, <3>6
  <2>6. CASE ~IsCapture(mv)
    <3>1. r = back
      BY <2>1, <2>6
    <3>3. r.mailbox = m
      <4>1. ASSUME NEW s \in Square PROVE r.mailbox[s] = m[s]
        BY <1>1, <2>6, <2>9, <2>10, <3>1 DEF mover
      <4>2. r.mailbox \in [Square -> Piece \cup {NoPiece}]
        BY <2>4, <3>1, BoardFunction
      <4> QED BY <1>0, <4>1, <4>2
    <3> QED BY <2>3, <2>4, <2>8, <3>1, <3>3
  <2> QED BY <2>5, <2>6
<1>8. CASE IsCastling(mv)
  <2> DEFINE r1 == ClearSquare(cleared, rook[2])
             r2 == SetPiece(r1, mv.from, mover)
  <2>0. /\ rook[1] \in Square /\ rook[2] \in Square /\ rook[1] # rook[2]
        /\ rook[1] \notin {mv.from, mv.to} /\ rook[2] \notin {mv.from, mv.to}
        /\ m[rook[1]] = Rook(us) /\ m[rook[2]] = NoPiece /\ m[mv.to] = NoPiece
        /\ ~IsPromotion(mv) /\ mv.flag # EnPassant /\ mover = King(us)
    BY <1>8, CastlingIs
  <2>5. q.mailbox = [s \in Square |-> IF s = mv.to THEN mover
                  ELSE IF s = mv.from THEN NoPiece
                  ELSE IF s = rook[1] THEN NoPiece
                  ELSE IF s = rook[2] THEN Rook(us) ELSE m[s]]
    BY <1>1, <1>8, <2>0 DEF MadeMailbox
  <2>6. q.mailbox[rook[2]] = Rook(us) /\ q.mailbox[mv.to] = mover
    <3> HIDE DEF rook, mover
    <3> QED BY <1>0, <2>0, <2>5
  <2>1. r = SetPiece(r2, rook[1], Rook(us)) /\ r1 = ClearSquare(cleared, rook[2]) /\ r2 = SetPiece(r1, mv.from, mover)
    BY <1>8, <2>6 DEF UnmakeBoard, PieceAt
  <2>2. Rook(us) \in Piece /\ Rook(us).kind # "King"
    BY <1>1, Pieces1 DEF Rook
  <2> HIDE DEF r1, r2, cleared, rook, mover, moved, back
  <2>3. Sound(cleared) /\ Rest(cleared) = Rest(q) /\ cleared.kingSq = q.kingSq
        /\ cleared.mailbox = Put(q.mailbox, mv.to, NoPiece)
    BY <1>0, <1>4, ClearSquareIs
  <2>4. Sound(r1) /\ Rest(r1) = Rest(cleared) /\ r1.kingSq = cleared.kingSq
        /\ r1.mailbox = Put(cleared.mailbox, rook[2], NoPiece)
    BY <2>0, <2>1, <2>3, ClearSquareIs
  <2>7. Sound(r2) /\ Rest(r2) = Rest(r1) /\ r2.kingSq = KingPut(r1.kingSq, mv.from, mover)
        /\ r2.mailbox = Put(r1.mailbox, mv.from, mover)
    <3>1. mv.from \in Square /\ mover \in Piece /\ r2 = SetPiece(r1, mv.from, mover) /\ Sound(r1)
      BY <1>0, <1>1, <2>1, <2>4 DEF mover
    <3> QED BY <3>1, SetPieceIs
  <2>8. Sound(r) /\ Rest(r) = Rest(r2) /\ r.kingSq = KingPut(r2.kingSq, rook[1], Rook(us))
        /\ r.mailbox = Put(r2.mailbox, rook[1], Rook(us))
    BY <2>0, <2>1, <2>2, <2>7, SetPieceIs
  <2>9. KingPut(r2.kingSq, rook[1], Rook(us)) = r2.kingSq
    BY <2>2 DEF KingPut
  <2>10. r.mailbox = m
    <3>1. ASSUME NEW s \in Square PROVE r.mailbox[s] = m[s]
      <4>1. cleared.mailbox[s] = IF s = mv.to THEN NoPiece ELSE q.mailbox[s]
        BY <1>0, <2>3, PutIs, BoardFunction
      <4>2. r1.mailbox[s] = IF s = rook[2] THEN NoPiece ELSE cleared.mailbox[s]
        BY <2>0, <2>3, <2>4, PutIs, BoardFunction
      <4>3. r2.mailbox[s] = IF s = mv.from THEN mover ELSE r1.mailbox[s]
        BY <1>0, <2>4, <2>7, PutIs, BoardFunction
      <4>4. r.mailbox[s] = IF s = rook[1] THEN Rook(us) ELSE r2.mailbox[s]
        BY <2>0, <2>7, <2>8, PutIs, BoardFunction
      <4>5. q.mailbox[s] = IF s = mv.to THEN mover
                  ELSE IF s = mv.from THEN NoPiece
                  ELSE IF s = rook[1] THEN NoPiece
                  ELSE IF s = rook[2] THEN Rook(us) ELSE m[s]
        BY <2>5
      <4> QED BY <2>0, <4>1, <4>2, <4>3, <4>4, <4>5 DEF mover
    <3>2. r.mailbox \in [Square -> Piece \cup {NoPiece}]
      BY <2>8, BoardFunction
    <3> QED BY <1>0, <3>1, <3>2
  <2> QED BY <1>6, <2>3, <2>4, <2>7, <2>8, <2>9, <2>10
<1> QED BY <1>7, <1>8

-----------------------------------------------------------------------------
\* The counters and the values that are kept by small steps.
LEMMA DressedIs ==
  ASSUME NEW b, Sound(b), NEW side \in Color, NEW castling \in SUBSET Right, NEW ep \in Square \cup {NoSquare},
         NEW halfmove \in 0..HalfmoveMax, NEW fullmove \in 0..(FullmoveSpan - 1),
         NEW aux, aux = SetAuxState(b, side, castling, ep, halfmove, fullmove)
  PROVE  /\ aux.side = side /\ aux.castling = castling /\ aux.ep = ep
         /\ aux.halfmove = halfmove /\ aux.fullmove = fullmove
         /\ aux.zobrist = b.zobrist /\ aux.pawnZobrist = b.pawnZobrist
         /\ aux.score = b.score /\ aux.phase = b.phase
         /\ aux.mailbox = b.mailbox /\ aux.kingSq = b.kingSq
         /\ aux.pieceBb = b.pieceBb /\ aux.colorBb = b.colorBb
         /\ Sound(aux)
<1>1. b \in Shape /\ BoardInv(b)
  BY DEF Sound
<1>2. aux \in Shape
  BY <1>1 DEF Shape, SetAuxState
<1>3. /\ aux.side = side /\ aux.castling = castling /\ aux.ep = ep
      /\ aux.halfmove = halfmove /\ aux.fullmove = fullmove
  BY <1>1 DEF Shape, SetAuxState
<1>4. /\ aux.zobrist = b.zobrist /\ aux.pawnZobrist = b.pawnZobrist
      /\ aux.score = b.score /\ aux.phase = b.phase
      /\ aux.mailbox = b.mailbox /\ aux.kingSq = b.kingSq
      /\ aux.pieceBb = b.pieceBb /\ aux.colorBb = b.colorBb
  BY <1>1 DEF Shape, SetAuxState
<1>5. BoardInv(aux)
  BY <1>1, <1>4 DEF BoardInv
<1> QED BY <1>2, <1>3, <1>4, <1>5 DEF Sound

Valued(b, z, pz, score, phase) ==
  [b EXCEPT !.zobrist = z, !.pawnZobrist = pz, !.score = score, !.phase = phase]

LEMMA ValuedIs ==
  ASSUME NEW b, Sound(b), NEW z \in Keys, NEW pz \in Keys, NEW score \in Int \X Int, NEW phase \in Int,
         NEW q, q = Valued(b, z, pz, score, phase)
  PROVE  /\ q.side = b.side /\ q.castling = b.castling /\ q.ep = b.ep
         /\ q.halfmove = b.halfmove /\ q.fullmove = b.fullmove
         /\ q.zobrist = z /\ q.pawnZobrist = pz /\ q.score = score /\ q.phase = phase
         /\ q.mailbox = b.mailbox /\ q.kingSq = b.kingSq
         /\ q.pieceBb = b.pieceBb /\ q.colorBb = b.colorBb
         /\ Sound(q)
<1>1. b \in Shape /\ BoardInv(b)
  BY DEF Sound
<1>2. q \in Shape
  BY <1>1 DEF Shape, Valued
<1>3. /\ q.side = b.side /\ q.castling = b.castling /\ q.ep = b.ep
      /\ q.halfmove = b.halfmove /\ q.fullmove = b.fullmove
  BY <1>1 DEF Shape, Valued
<1>4. /\ q.zobrist = z /\ q.pawnZobrist = pz /\ q.score = score /\ q.phase = phase
      /\ q.mailbox = b.mailbox /\ q.kingSq = b.kingSq
      /\ q.pieceBb = b.pieceBb /\ q.colorBb = b.colorBb
  BY <1>1 DEF Shape, Valued
<1>5. BoardInv(q)
  BY <1>1, <1>4 DEF BoardInv
<1> QED BY <1>2, <1>3, <1>4, <1>5 DEF Sound

LEMMA KeysAreKeys ==
  /\ \A z, keys \in Keys : Xor(z, keys) \in Keys
  /\ \A piece \in Piece \cup {NoPiece}, s \in Int : {PieceKey(piece, s)} \in Keys
  /\ \A R : R \subseteq Right => {CastlingKey(r) : r \in R} \in Keys
  /\ \A f \in Int : EpKeys(f) \in Keys
  /\ {TurnKey} \in Keys
<1>1. \A z, keys \in Keys : Xor(z, keys) \in Keys
  BY DEF Keys, Xor
<1>2. ASSUME NEW piece \in Piece \cup {NoPiece}, NEW s \in Int PROVE {PieceKey(piece, s)} \in Keys
  <2>1. piece.color \in KeyWord /\ piece.kind \in KeyPart
    BY DEF Piece, NoPiece, Color, PieceKind, KeyWord, KeyPart
  <2> QED BY <2>1 DEF PieceKey, Keys
<1>3. ASSUME NEW R, R \subseteq Right PROVE {CastlingKey(r) : r \in R} \in Keys
  <2>1. \A r \in R : r \in KeyPart
    BY <1>3 DEF KeyPart
  <2> QED BY <2>1 DEF CastlingKey, Keys, KeyWord
<1>4. ASSUME NEW f \in Int PROVE EpKeys(f) \in Keys
  BY DEF EpKeys, EpFileKey, Keys, KeyWord, KeyPart
<1>5. {TurnKey} \in Keys
  BY DEF TurnKey, Keys, KeyWord, KeyPart
<1> QED BY <1>1, <1>2, <1>3, <1>4, <1>5

LEMMA FileIsInt ==
  ASSUME NEW p, p.ep \in Square \cup {NoSquare}
  PROVE  EpFileToHash(p) \in Int
<1>1. File(p.ep) \in Int /\ NoFile \in Int
  BY DEF File, NoFile, Square, NoSquare
<1> QED BY <1>1 DEF EpFileToHash

LEMMA ScoresAdd ==
  /\ Zero \in Int \X Int
  /\ \A a, b \in Int \X Int : Plus(a, b) \in Int \X Int /\ Minus(a, b) \in Int \X Int
  /\ \A n \in Int, a \in Int \X Int : Times(n, a) \in Int \X Int
BY DEF Zero, Plus, Minus, Times

LEMMA TablesAreScores ==
  ASSUME NEW c \in Color, NEW k \in PieceKind, NEW s \in Square
  PROVE  Psqt[c][k][s] \in Int \X Int /\ PhaseDelta[k] \in Int
<1>1. FlipRank(s) \in Square
  BY DEF FlipRank, Square, Rank, File
<1>2. PieceSquare[k][s] \in Int \X Int /\ PieceSquare[k][FlipRank(s)] \in Int \X Int
  BY <1>1, PieceSquareAssumption
<1>3. PhaseDelta[k] \in Int
  BY DEF PhaseDelta, PieceKind
<1>4. CASE c = "White"
  BY <1>2, <1>3, <1>4 DEF Psqt
<1>5. CASE c = "Black"
  BY <1>2, <1>3, <1>5, ScoresAdd DEF Psqt
<1> QED BY <1>4, <1>5 DEF Color

LEMMA FlipTwice ==
  ASSUME NEW c \in Color
  PROVE  Flip(c) \in Color /\ Flip(c) # c /\ Flip(Flip(c)) = c
BY DEF Color, Flip

\* The move number: counted up by a move and down when it is taken back,
\* modulo the span of the counter.
LEMMA Counted ==
  ASSUME NEW n \in Int, 0 <= n, n < 65536, NEW b \in {0, 1}
  PROVE  /\ (n + b) % 65536 \in Int /\ 0 <= (n + b) % 65536 /\ (n + b) % 65536 < 65536
         /\ (((n + b) % 65536) - b) % 65536 = n
OBVIOUS

LEMMA FullmoveCounted ==
  ASSUME NEW n \in 0..(FullmoveSpan - 1), NEW b \in {0, 1}
  PROVE  /\ (n + b) % FullmoveSpan \in 0..(FullmoveSpan - 1)
         /\ (((n + b) % FullmoveSpan) - b) % FullmoveSpan = n
<1>1. FullmoveSpan = 65536
  BY SMTT(40) DEF FullmoveSpan
<1>2. n \in Int /\ 0 <= n /\ n < FullmoveSpan
  <2>1. FullmoveSpan \in Int
    BY SMTT(40) DEF FullmoveSpan
  <2> QED BY <2>1
<1>3. n < 65536
  BY SMTT(40), <1>1, <1>2
<1>4. /\ (n + b) % 65536 \in Int /\ 0 <= (n + b) % 65536 /\ (n + b) % 65536 < 65536
      /\ (((n + b) % 65536) - b) % 65536 = n
  <2> HIDE <1>1
  <2> QED BY <1>2, <1>3, Counted
<1> DEFINE k == (n + b) % FullmoveSpan
<1>5. k \in Int /\ 0 <= k /\ k < FullmoveSpan /\ (k - b) % FullmoveSpan = n
  BY SMTT(40), <1>1, <1>4
<1>6. k \in 0..(FullmoveSpan - 1)
  <2>1. FullmoveSpan \in Int
    BY SMTT(40) DEF FullmoveSpan
  <2> HIDE DEF k
  <2> QED BY <1>5, <2>1
<1> QED BY <1>5, <1>6

LEMMA UndoIs ==
  ASSUME NEW p, Legal(p), NEW mv, StepInv(p, mv), NEW undo, undo = Undo(p, mv)
  PROVE  /\ undo.castling = p.castling /\ undo.ep = p.ep /\ undo.halfmove = p.halfmove
         /\ undo.zobrist = p.zobrist /\ undo.pawnZobrist = p.pawnZobrist
         /\ undo.score = p.score /\ undo.phase = p.phase
         /\ undo.captured = IF IsCapture(mv) THEN p.mailbox[CaptureSquare(p.side, mv)] ELSE NoPiece
<1>1. p.mailbox[mv.from].color = p.side
  BY MoverIs
<1> QED BY <1>1 DEF Undo, UndoOf, PieceAt

LEMMA ValuesAfter ==
  ASSUME NEW p, Legal(p), NEW mv, StepInv(p, mv), NEW undo, undo = Undo(p, mv),
         NEW mover, mover = p.mailbox[mv.from], NEW file \in Int, NEW castling, castling \subseteq Right
  PROVE  /\ ZobristAfterMake(mv, mover, undo, EpFileToHash(p), file, castling) \in Keys
         /\ PawnZobristAfterMake(mv, mover, undo) \in Keys
         /\ Plus(p.score, ScoreDelta(mv, mover, undo.captured)) \in Int \X Int
         /\ p.phase + PhaseDeltaOf(mv, undo.captured) \in Int
<1> DEFINE us == p.side
           lands == LandsAs(mover, mv)
           captureSq == CaptureSquare(us, mv)
           rook == CastleRookSquares(us, mv.flag)
<1>0. /\ p.zobrist \in Keys /\ p.pawnZobrist \in Keys /\ p.score \in Int \X Int /\ p.phase \in Int
      /\ p.ep \in Square \cup {NoSquare} /\ p.castling \in SUBSET Right /\ mv.from \in Square /\ mv.to \in Square
  BY DEF Legal, Sound, Shape, StepInv
<1>1. /\ us \in Color /\ mover \in Piece /\ mover.color = us
      /\ lands \in Piece /\ lands.color = us
      /\ IsCapture(mv) => captureSq \in Square /\ p.mailbox[captureSq] \in Piece
                          /\ p.mailbox[captureSq].color = Flip(us)
  BY MoverIs
<1>2. IsCastling(mv) => rook[1] \in Square /\ rook[2] \in Square
  BY CastlingIs
<1>3. /\ undo.castling = p.castling /\ undo.zobrist = p.zobrist /\ undo.pawnZobrist = p.pawnZobrist
      /\ undo.captured = IF IsCapture(mv) THEN p.mailbox[captureSq] ELSE NoPiece
  BY UndoIs
<1>4. undo.captured \in Piece \cup {NoPiece} /\ (undo.captured # NoPiece => undo.captured \in Piece /\ captureSq \in Square)
  BY <1>1, <1>3
<1>5. /\ \A c \in Color : [color |-> c, kind |-> "Rook"] \in Piece /\ [color |-> c, kind |-> "Pawn"] \in Piece
      /\ Flip(us) \in Color /\ \A s \in Square : s \in Int
  <2>1. \A c \in Color : [color |-> c, kind |-> "Rook"] \in Piece /\ [color |-> c, kind |-> "Pawn"] \in Piece
    BY Zenon, Pieces1 DEF PieceKind
  <2>2. Flip(us) \in Color /\ \A s \in Square : s \in Int
    BY <1>1, FlipTwice DEF Square
  <2> QED BY <2>1, <2>2
<1>6. EpFileToHash(p) \in Int
  BY <1>0, FileIsInt
<1> HIDE DEF lands, captureSq, rook
<1>7. ZobristAfterMake(mv, mover, undo, EpFileToHash(p), file, castling) \in Keys
  <2> DEFINE rookPiece == [color |-> us, kind |-> "Rook"]
             rights == (undo.castling \ castling) \cup (castling \ undo.castling)
             z1 == Xor(Xor(undo.zobrist, {PieceKey(mover, mv.from)}), {PieceKey(lands, mv.to)})
             z2 == IF undo.captured # NoPiece THEN Xor(z1, {PieceKey(undo.captured, captureSq)}) ELSE z1
             both == {PieceKey(rookPiece, rook[1]), PieceKey(rookPiece, rook[2])}
             z3 == IF IsCastling(mv) THEN Xor(z2, both) ELSE z2
             lost == {CastlingKey(r) : r \in rights}
             z4 == Xor(z3, lost)
             z == Xor(Xor(Xor(z4, EpKeys(EpFileToHash(p))), EpKeys(file)), {TurnKey})
  <2>1. ZobristAfterMake(mv, mover, undo, EpFileToHash(p), file, castling) = z
    BY <1>1 DEF ZobristAfterMake, lands, captureSq, rook
  <2>2. z1 \in Keys
    BY <1>0, <1>1, <1>3, <1>5, KeysAreKeys
  <2>3. z2 \in Keys
    <3> HIDE DEF z1
    <3> QED BY <1>4, <1>5, <2>2, KeysAreKeys
  <2>4. z3 \in Keys
    <3>1. CASE IsCastling(mv)
      <4>1. {PieceKey(rookPiece, rook[1])} \in Keys /\ {PieceKey(rookPiece, rook[2])} \in Keys
        <5>1. rookPiece \in Piece /\ rook[1] \in Int /\ rook[2] \in Int
          BY <1>1, <1>2, <1>5, <3>1
        <5> HIDE DEF rookPiece
        <5> QED BY <5>1, KeysAreKeys
      <4>2. both \in Keys
        BY <4>1 DEF Keys
      <4> HIDE DEF z2, both
      <4> QED BY <2>3, <3>1, <4>2, KeysAreKeys
    <3>2. CASE ~IsCastling(mv)
      BY <2>3, <3>2
    <3> QED BY <3>1, <3>2
  <2>5. lost \in Keys
    <3>1. rights \subseteq Right
      BY <1>0, <1>3
    <3> HIDE DEF rights
    <3> QED BY <3>1, KeysAreKeys
  <2>6. z \in Keys
    <3> HIDE DEF z3, lost
    <3>1. z4 \in Keys
      BY <2>4, <2>5, KeysAreKeys
    <3> HIDE DEF z4
    <3> QED BY <1>6, <3>1, KeysAreKeys
  <2> HIDE DEF z
  <2> QED BY <2>1, <2>6
<1>8. PawnZobristAfterMake(mv, mover, undo) \in Keys
  <2> DEFINE pk(c, s) == {PieceKey([color |-> c, kind |-> "Pawn"], s)}
             isPawn == mover.kind = "Pawn"
             z1 == IF isPawn THEN Xor(undo.pawnZobrist, pk(us, mv.from)) ELSE undo.pawnZobrist
             z2 == IF isPawn /\ ~IsPromotion(mv) THEN Xor(z1, pk(us, mv.to)) ELSE z1
             z == IF undo.captured.kind = "Pawn" THEN Xor(z2, pk(Flip(us), captureSq)) ELSE z2
  <2>1. PawnZobristAfterMake(mv, mover, undo) = z
    BY <1>1 DEF PawnZobristAfterMake, captureSq
  <2>2. \A c \in Color, s \in Square : pk(c, s) \in Keys
    <3> SUFFICES ASSUME NEW c \in Color, NEW s \in Square PROVE pk(c, s) \in Keys
      OBVIOUS
    <3> DEFINE piece == [color |-> c, kind |-> "Pawn"]
    <3>1. piece \in Piece /\ s \in Int
      BY <1>5
    <3>2. pk(c, s) = {PieceKey(piece, s)}
      OBVIOUS
    <3> HIDE DEF piece, pk
    <3> QED BY <3>1, <3>2, KeysAreKeys
  <2> HIDE DEF pk
  <2>3. z1 \in Keys
    BY <1>0, <1>1, <1>3, <2>2, KeysAreKeys
  <2>4. z2 \in Keys
    <3> HIDE DEF z1
    <3> QED BY <1>0, <1>1, <2>2, <2>3, KeysAreKeys
  <2>5. z \in Keys
    <3>1. undo.captured.kind = "Pawn" => captureSq \in Square
      BY <1>4, Pieces1 DEF NoPiece
    <3> HIDE DEF z2
    <3> QED BY <1>5, <2>2, <2>4, <3>1, KeysAreKeys
  <2> HIDE DEF z
  <2> QED BY <2>1, <2>5
<1>9. ScoreDelta(mv, mover, undo.captured) \in Int \X Int
  <2> DEFINE value(piece, s) == Psqt[piece.color][piece.kind][s]
             moved == Minus(value(lands, mv.to), value(mover, mv.from))
             taken == IF undo.captured # NoPiece THEN value(undo.captured, captureSq) ELSE Zero
             castled == IF IsCastling(mv) THEN Minus(Psqt[us]["Rook"][rook[2]], Psqt[us]["Rook"][rook[1]]) ELSE Zero
  <2>1. ScoreDelta(mv, mover, undo.captured) = Plus(Minus(moved, taken), castled)
    BY <1>1 DEF ScoreDelta, lands, captureSq, rook
  <2>2. \A piece \in Piece, s \in Square : value(piece, s) \in Int \X Int
    BY TablesAreScores, Pieces1
  <2>3. castled \in Int \X Int
    <3>1. "Rook" \in PieceKind
      BY DEF PieceKind
    <3>2. IsCastling(mv) => Psqt[us]["Rook"][rook[2]] \in Int \X Int /\ Psqt[us]["Rook"][rook[1]] \in Int \X Int
      BY <1>1, <1>2, <3>1, TablesAreScores
    <3> QED BY <3>2, ScoresAdd
  <2> HIDE DEF value, castled
  <2>4. moved \in Int \X Int
    BY <1>0, <1>1, <2>2, ScoresAdd
  <2>5. taken \in Int \X Int
    BY <1>4, <2>2, ScoresAdd
  <2> HIDE DEF moved, taken
  <2> QED BY <2>1, <2>3, <2>4, <2>5, ScoresAdd
<1>10. PhaseDeltaOf(mv, undo.captured) \in Int
  <2>1. undo.captured # NoPiece => PhaseDelta[undo.captured.kind] \in Int
    <3>1. undo.captured # NoPiece => undo.captured.kind \in PieceKind
      BY <1>4, Pieces1
    <3> QED BY <3>1 DEF PhaseDelta, PieceKind
  <2>2. IsPromotion(mv) => PhaseDelta[PromotionKind(mv)] \in Int
    <3>1. mv.flag \in MoveFlag
      BY DEF StepInv
    <3>2. IsPromotion(mv) => PromotionKind(mv) \in {"Knight", "Bishop", "Rook", "Queen"}
      BY <3>1, Flags
    <3> QED BY <3>2 DEF PhaseDelta
  <2> QED BY <2>1, <2>2 DEF PhaseDeltaOf
<1> QED BY <1>0, <1>7, <1>8, <1>9, <1>10, ScoresAdd

LEMMA MakeMoveIs ==
  ASSUME NEW p, Legal(p), NEW mv, StepInv(p, mv), NEW q, q = MakeMove(p, mv)
  PROVE  /\ Sound(q) /\ q.side = Flip(p.side)
         /\ q.castling = p.castling \cap CastlingMask[mv.from] \cap CastlingMask[mv.to]
         /\ q.mailbox = MadeMailbox(p.mailbox, p.side, mv)
         /\ q.kingSq = KingPut(p.kingSq, mv.to, p.mailbox[mv.from])
         /\ q.fullmove = (p.fullmove + IF p.side = "Black" THEN 1 ELSE 0) % FullmoveSpan
         /\ \E board : board.mailbox = q.mailbox /\ q.ep = NewEp(board, mv, p.side)
         /\ q.zobrist = ZobristAfterMake(mv, p.mailbox[mv.from], Undo(p, mv), EpFileToHash(p), EpFileToHash(q), q.castling)
         /\ q.pawnZobrist = PawnZobristAfterMake(mv, p.mailbox[mv.from], Undo(p, mv))
         /\ q.score = Plus(p.score, ScoreDelta(mv, p.mailbox[mv.from], Undo(p, mv).captured))
         /\ q.phase = p.phase + PhaseDeltaOf(mv, Undo(p, mv).captured)
<1> DEFINE mover == PieceAt(p, mv.from)
           us == mover.color
           undo == Undo(p, mv)
           board == MoveBoard(p, mv, mover)
           castling == undo.castling \cap CastlingMask[mv.from] \cap CastlingMask[mv.to]
           ep == NewEp(board, mv, us)
           halfmove == IF mover.kind = "Pawn" \/ IsCapture(mv) THEN 0
                       ELSE IF p.halfmove = HalfmoveMax THEN HalfmoveMax ELSE p.halfmove + 1
           fullmove == (p.fullmove + IF us = "Black" THEN 1 ELSE 0) % FullmoveSpan
           aux == SetAuxState(board, Flip(us), castling, ep, halfmove, fullmove)
           z == ZobristAfterMake(mv, mover, undo, EpFileToHash(p), EpFileToHash(aux), castling)
           pz == PawnZobristAfterMake(mv, mover, undo)
           score == Plus(aux.score, ScoreDelta(mv, mover, undo.captured))
           phase == aux.phase + PhaseDeltaOf(mv, undo.captured)
<1>1. q = Valued(aux, z, pz, score, phase)
  BY DEF MakeMove, Valued
<1>2. mover = p.mailbox[mv.from] /\ us = p.side /\ us \in Color /\ Flip(us) \in Color
  BY MoverIs, FlipTwice DEF PieceAt
<1>3. /\ Sound(board) /\ Rest(board) = Rest(p)
      /\ board.mailbox = MadeMailbox(p.mailbox, p.side, mv)
      /\ board.kingSq = KingPut(p.kingSq, mv.to, p.mailbox[mv.from])
  <2> HIDE DEF board
  <2>1. board = MoveBoard(p, mv, p.mailbox[mv.from])
    BY <1>2 DEF board
  <2> QED BY <2>1, MoveBoardIs
<1>4. /\ p.castling \subseteq Right /\ p.halfmove \in 0..HalfmoveMax /\ p.fullmove \in 0..(FullmoveSpan - 1)
      /\ mv.from \in Square /\ mv.to \in Square /\ mv.flag \in MoveFlag
      /\ mv.flag = DoublePush => mv.from + PushStep(us) \in Square
  <2>1. /\ p.castling \subseteq Right /\ p.halfmove \in 0..HalfmoveMax /\ p.fullmove \in 0..(FullmoveSpan - 1)
    BY DEF Legal, Sound, Shape
  <2>2. /\ mv.from \in Square /\ mv.to \in Square /\ mv.flag \in MoveFlag
        /\ mv.flag = DoublePush => mv.to = mv.from + PushStep(us) + PushStep(us)
    BY <1>2 DEF StepInv
  <2>3. PushStep(us) \in {8, -8}
    BY DEF PushStep
  <2>4. mv.flag = DoublePush => mv.from + PushStep(us) \in Square
    <3> HIDE DEF us
    <3> QED BY <2>2, <2>3 DEF Square
  <2> QED BY <2>1, <2>2, <2>4
<1>5. undo.castling = p.castling /\ undo = Undo(p, mv)
  BY UndoIs
<1>6. castling \in SUBSET Right /\ castling = p.castling \cap CastlingMask[mv.from] \cap CastlingMask[mv.to]
  BY <1>4, <1>5
<1>7. ep \in Square \cup {NoSquare}
  BY <1>4 DEF NewEp
<1>8. halfmove \in 0..HalfmoveMax
  BY <1>4 DEF HalfmoveMax
<1>9. fullmove \in 0..(FullmoveSpan - 1)
  <2>1. (IF us = "Black" THEN 1 ELSE 0) \in {0, 1}
    OBVIOUS
  <2> QED BY <1>4, <2>1, FullmoveCounted
<1>10. aux = SetAuxState(board, Flip(us), castling, ep, halfmove, fullmove)
  OBVIOUS
<1>11. fullmove = (p.fullmove + IF p.side = "Black" THEN 1 ELSE 0) % FullmoveSpan
  BY <1>2
<1>17. ep = NewEp(board, mv, p.side)
  BY <1>2
<1> HIDE DEF board, castling, ep, halfmove, fullmove, aux, undo, mover
<1>12. /\ aux.side = Flip(us) /\ aux.castling = castling /\ aux.ep = ep
       /\ aux.fullmove = fullmove /\ aux.score = board.score /\ aux.phase = board.phase
       /\ aux.mailbox = board.mailbox /\ aux.kingSq = board.kingSq /\ Sound(aux)
  BY <1>2, <1>3, <1>6, <1>7, <1>8, <1>9, <1>10, DressedIs
<1>13. board.score = p.score /\ board.phase = p.phase
  BY <1>3 DEF Rest
<1>14. EpFileToHash(aux) \in Int
  BY <1>7, <1>12, FileIsInt
<1>15. z \in Keys /\ pz \in Keys /\ score \in Int \X Int /\ phase \in Int
  <2>1. score = Plus(p.score, ScoreDelta(mv, mover, undo.captured)) /\ phase = p.phase + PhaseDeltaOf(mv, undo.captured)
    BY <1>12, <1>13
  <2> HIDE DEF score, phase
  <2> QED BY <1>2, <1>5, <1>6, <1>14, <2>1, ValuesAfter
<1> HIDE DEF z, pz, score, phase
<1>16. /\ q.side = aux.side /\ q.castling = aux.castling /\ q.ep = aux.ep /\ q.fullmove = aux.fullmove
       /\ q.mailbox = aux.mailbox /\ q.kingSq = aux.kingSq /\ Sound(q)
       /\ q.pieceBb = aux.pieceBb /\ q.colorBb = aux.colorBb
       /\ q.zobrist = z /\ q.pawnZobrist = pz /\ q.score = score /\ q.phase = phase
  BY <1>1, <1>12, <1>15, ValuedIs
<1>18. \E b : b.mailbox = q.mailbox /\ q.ep = NewEp(b, mv, p.side)
  BY <1>12, <1>16, <1>17
<1>19. EpFileToHash(q) = EpFileToHash(aux)
  BY <1>16 DEF EpFileToHash, Pieces
<1>20. /\ q.zobrist = ZobristAfterMake(mv, p.mailbox[mv.from], Undo(p, mv), EpFileToHash(p), EpFileToHash(q), q.castling)
       /\ q.pawnZobrist = PawnZobristAfterMake(mv, p.mailbox[mv.from], Undo(p, mv))
       /\ q.score = Plus(p.score, ScoreDelta(mv, p.mailbox[mv.from], Undo(p, mv).captured))
       /\ q.phase = p.phase + PhaseDeltaOf(mv, Undo(p, mv).captured)
  BY <1>2, <1>5, <1>12, <1>13, <1>16, <1>19 DEF z, pz, score, phase
<1> QED BY <1>2, <1>3, <1>6, <1>11, <1>12, <1>16, <1>18, <1>20

\* Taking a move back, the board by its squares and the rest from the token.
LEMMA UnmakeIs ==
  ASSUME NEW p, Legal(p), NEW mv, StepInv(p, mv)
  PROVE  UnmakeMove(MakeMove(p, mv), mv, Undo(p, mv)) = p
<1> DEFINE q == MakeMove(p, mv)
           undo == Undo(p, mv)
           us == Flip(q.side)
           board == UnmakeBoard(q, mv, us, undo.captured)
           aux == SetAuxState(board, us, undo.castling, undo.ep, undo.halfmove, RestoredFullmove(q, us))
           r == UnmakeMove(q, mv, undo)
<1>1. q = MakeMove(p, mv) /\ undo = Undo(p, mv)
  OBVIOUS
<1>2. r = UnmakeMove(q, mv, undo)
  OBVIOUS
<1>3. board = UnmakeBoard(q, mv, us, undo.captured)
      /\ aux = SetAuxState(board, us, undo.castling, undo.ep, undo.halfmove, RestoredFullmove(q, us))
  OBVIOUS
<1>8. us = Flip(q.side)
  OBVIOUS
<1> HIDE DEF q, undo, board, aux, r, us
<1>14. r = Valued(aux, undo.zobrist, undo.pawnZobrist, undo.score, undo.phase)
  BY <1>2, <1>3, <1>8 DEF UnmakeMove, Valued
<1>4. /\ Sound(q) /\ q.side = Flip(p.side)
      /\ q.mailbox = MadeMailbox(p.mailbox, p.side, mv)
      /\ q.kingSq = KingPut(p.kingSq, mv.to, p.mailbox[mv.from])
      /\ q.fullmove = (p.fullmove + IF p.side = "Black" THEN 1 ELSE 0) % FullmoveSpan
  BY <1>1, MakeMoveIs
<1>5. /\ undo.castling = p.castling /\ undo.ep = p.ep /\ undo.halfmove = p.halfmove
      /\ undo.zobrist = p.zobrist /\ undo.pawnZobrist = p.pawnZobrist
      /\ undo.score = p.score /\ undo.phase = p.phase
      /\ undo.captured = IF IsCapture(mv) THEN p.mailbox[CaptureSquare(p.side, mv)] ELSE NoPiece
  BY <1>1, UndoIs
<1>6. /\ p.side \in Color /\ p.castling \in SUBSET Right /\ p.ep \in Square \cup {NoSquare}
      /\ p.halfmove \in 0..HalfmoveMax /\ p.fullmove \in 0..(FullmoveSpan - 1)
      /\ p.zobrist \in Keys /\ p.pawnZobrist \in Keys /\ p.score \in Int \X Int /\ p.phase \in Int
      /\ Sound(p)
  BY DEF Legal, Sound, Shape
<1>7. us = p.side
  BY <1>4, <1>6, <1>8, FlipTwice
<1>9. /\ Sound(board) /\ board.mailbox = p.mailbox /\ board.kingSq = p.kingSq
  <2>1. IsCapture(mv) => undo.captured = p.mailbox[CaptureSquare(p.side, mv)]
    BY <1>5
  <2>2. board = UnmakeBoard(q, mv, p.side, undo.captured)
    BY <1>3, <1>7
  <2> QED BY <1>4, <2>1, <2>2, UnmakeBoardIs
<1>10. RestoredFullmove(q, us) = p.fullmove
  <2> DEFINE b == IF p.side = "Black" THEN 1 ELSE 0
  <2>1. b \in {0, 1} /\ q.fullmove = (p.fullmove + b) % FullmoveSpan
    BY <1>4
  <2>2. RestoredFullmove(q, us) = (q.fullmove - b) % FullmoveSpan
    BY <1>7 DEF RestoredFullmove
  <2> HIDE DEF b
  <2> QED BY <1>6, <2>1, <2>2, FullmoveCounted
<1>11. /\ aux.side = p.side /\ aux.castling = p.castling /\ aux.ep = p.ep /\ aux.halfmove = p.halfmove
       /\ aux.fullmove = p.fullmove /\ aux.mailbox = p.mailbox /\ aux.kingSq = p.kingSq /\ Sound(aux)
  <2>1. aux = SetAuxState(board, p.side, p.castling, p.ep, p.halfmove, p.fullmove)
    BY <1>3, <1>5, <1>7, <1>10
  <2> QED BY <1>6, <1>9, <2>1, DressedIs
<1>12. /\ r.side = p.side /\ r.castling = p.castling /\ r.ep = p.ep /\ r.halfmove = p.halfmove
       /\ r.fullmove = p.fullmove /\ r.mailbox = p.mailbox /\ r.kingSq = p.kingSq /\ Sound(r)
       /\ r.zobrist = p.zobrist /\ r.pawnZobrist = p.pawnZobrist /\ r.score = p.score /\ r.phase = p.phase
  <2>1. r = Valued(aux, p.zobrist, p.pawnZobrist, p.score, p.phase)
    BY <1>5, <1>14
  <2>2. /\ r.side = aux.side /\ r.castling = aux.castling /\ r.ep = aux.ep
        /\ r.halfmove = aux.halfmove /\ r.fullmove = aux.fullmove
        /\ r.zobrist = p.zobrist /\ r.pawnZobrist = p.pawnZobrist /\ r.score = p.score /\ r.phase = p.phase
        /\ r.mailbox = aux.mailbox /\ r.kingSq = aux.kingSq /\ Sound(r)
    <3>1. /\ Sound(aux) /\ p.zobrist \in Keys /\ p.pawnZobrist \in Keys
          /\ p.score \in Int \X Int /\ p.phase \in Int
      BY <1>6, <1>11
    <3> QED BY SMTT(40), <2>1, <3>1, ValuedIs
  <2> QED BY <1>11, <2>2
<1>13. r = p
  BY <1>6, <1>12, SamePosition DEF Rest
<1> QED BY <1>13 DEF r, q, undo

LEMMA UnmakeNullIs ==
  ASSUME NEW p, Legal(p)
  PROVE  /\ UnmakeNullMove(MakeNullMove(p), NullUndo(p)) = p
         /\ LET q == MakeNullMove(p) IN
            /\ Sound(q) /\ q.side = Flip(p.side) /\ q.castling = p.castling /\ q.ep = NoSquare
            /\ q.mailbox = p.mailbox /\ q.kingSq = p.kingSq
            /\ q.zobrist = Xor(Xor(p.zobrist, EpKeys(EpFileToHash(p))), {TurnKey})
            /\ q.pawnZobrist = p.pawnZobrist /\ q.score = p.score /\ q.phase = p.phase
<1> DEFINE halfmove == IF p.halfmove = HalfmoveMax THEN HalfmoveMax ELSE p.halfmove + 1
           fullmove == (p.fullmove + IF p.side = "Black" THEN 1 ELSE 0) % FullmoveSpan
           z == Xor(Xor(p.zobrist, EpKeys(EpFileToHash(p))), {TurnKey})
           aux == SetAuxState(p, Flip(p.side), p.castling, NoSquare, halfmove, fullmove)
           q == MakeNullMove(p)
           us == Flip(q.side)
           token == NullUndo(p)
           back == SetAuxState(q, us, q.castling, token.ep, token.halfmove, RestoredFullmove(q, us))
           r == UnmakeNullMove(q, token)
<1>0. /\ p.side \in Color /\ p.castling \in SUBSET Right /\ p.ep \in Square \cup {NoSquare}
      /\ p.halfmove \in 0..HalfmoveMax /\ p.fullmove \in 0..(FullmoveSpan - 1)
      /\ p.zobrist \in Keys /\ p.pawnZobrist \in Keys /\ p.score \in Int \X Int /\ p.phase \in Int
      /\ Sound(p) /\ Flip(p.side) \in Color /\ Flip(Flip(p.side)) = p.side
  BY FlipTwice DEF Legal, Sound, Shape
<1>1. halfmove \in 0..HalfmoveMax /\ fullmove \in 0..(FullmoveSpan - 1)
  <2>1. (IF p.side = "Black" THEN 1 ELSE 0) \in {0, 1}
    OBVIOUS
  <2>2. halfmove \in 0..HalfmoveMax
    BY <1>0 DEF HalfmoveMax
  <2>3. fullmove \in 0..(FullmoveSpan - 1)
    BY <1>0, <2>1, FullmoveCounted
  <2> QED BY <2>2, <2>3
<1>2. z \in Keys
  BY <1>0, FileIsInt, KeysAreKeys
<1>14. /\ r = UnmakeNullMove(q, token) /\ q = MakeNullMove(p) /\ us = Flip(q.side) /\ token = NullUndo(p)
       /\ back = SetAuxState(q, us, q.castling, token.ep, token.halfmove, RestoredFullmove(q, us))
       /\ halfmove = (IF p.halfmove = HalfmoveMax THEN HalfmoveMax ELSE p.halfmove + 1)
       /\ fullmove = (p.fullmove + IF p.side = "Black" THEN 1 ELSE 0) % FullmoveSpan
       /\ z = Xor(Xor(p.zobrist, EpKeys(EpFileToHash(p))), {TurnKey})
  OBVIOUS
<1>3. aux = SetAuxState(p, Flip(p.side), p.castling, NoSquare, halfmove, fullmove)
  OBVIOUS
<1> HIDE DEF halfmove, fullmove, z, aux, q, us, back, r, token
<1>4. q = [aux EXCEPT !.zobrist = z]
  BY <1>3, <1>14 DEF MakeNullMove
<1>15. token.ep = p.ep /\ token.halfmove = p.halfmove /\ token.zobrist = p.zobrist
  BY <1>14 DEF NullUndo
<1>5. r = [back EXCEPT !.zobrist = p.zobrist]
      /\ back = SetAuxState(q, us, q.castling, p.ep, p.halfmove, RestoredFullmove(q, us))
      /\ us = Flip(q.side) /\ fullmove = (p.fullmove + IF p.side = "Black" THEN 1 ELSE 0) % FullmoveSpan
  BY <1>14, <1>15 DEF UnmakeNullMove
<1>6. /\ aux.side = Flip(p.side) /\ aux.castling = p.castling /\ aux.ep = NoSquare
      /\ aux.halfmove = halfmove /\ aux.fullmove = fullmove
      /\ aux.pawnZobrist = p.pawnZobrist /\ aux.score = p.score /\ aux.phase = p.phase
      /\ aux.mailbox = p.mailbox /\ aux.kingSq = p.kingSq /\ Sound(aux)
  BY <1>0, <1>1, <1>3, DressedIs
<1>7. ASSUME NEW b, Sound(b), NEW k \in Keys, NEW c, c = [b EXCEPT !.zobrist = k]
      PROVE  /\ c.side = b.side /\ c.castling = b.castling /\ c.ep = b.ep
             /\ c.halfmove = b.halfmove /\ c.fullmove = b.fullmove /\ c.zobrist = k
             /\ c.pawnZobrist = b.pawnZobrist /\ c.score = b.score /\ c.phase = b.phase
             /\ c.mailbox = b.mailbox /\ c.kingSq = b.kingSq /\ Sound(c)
  <2>1. /\ b.pawnZobrist \in Keys /\ b.score \in Int \X Int /\ b.phase \in Int /\ b \in Shape
    BY <1>7 DEF Sound, Shape
  <2>2. c = Valued(b, k, b.pawnZobrist, b.score, b.phase)
    BY <1>7, <2>1 DEF Shape, Valued
  <2> QED BY <1>7, <2>1, <2>2, ValuedIs
<1>8. /\ q.side = aux.side /\ q.castling = aux.castling /\ q.ep = aux.ep
      /\ q.fullmove = aux.fullmove /\ q.zobrist = z
      /\ q.pawnZobrist = aux.pawnZobrist /\ q.score = aux.score /\ q.phase = aux.phase
      /\ q.mailbox = aux.mailbox /\ q.kingSq = aux.kingSq /\ Sound(q)
  BY <1>2, <1>4, <1>6, <1>7
<1>9. us = p.side
  BY <1>0, <1>5, <1>6, <1>8
<1>10. RestoredFullmove(q, us) = p.fullmove
  <2> DEFINE b == IF p.side = "Black" THEN 1 ELSE 0
  <2>1. b \in {0, 1} /\ q.fullmove = (p.fullmove + b) % FullmoveSpan
    BY <1>6, <1>8, <1>14
  <2>2. RestoredFullmove(q, us) = (q.fullmove - b) % FullmoveSpan
    BY <1>9 DEF RestoredFullmove
  <2> HIDE DEF b
  <2> QED BY <1>0, <2>1, <2>2, FullmoveCounted
<1>11. /\ back.side = p.side /\ back.castling = p.castling /\ back.ep = p.ep /\ back.halfmove = p.halfmove
       /\ back.fullmove = p.fullmove /\ back.mailbox = p.mailbox /\ back.kingSq = p.kingSq /\ Sound(back)
       /\ back.pawnZobrist = p.pawnZobrist /\ back.score = p.score /\ back.phase = p.phase
  <2>1. back = SetAuxState(q, p.side, p.castling, p.ep, p.halfmove, p.fullmove)
    BY <1>5, <1>6, <1>8, <1>9, <1>10
  <2> QED BY <1>0, <1>6, <1>8, <2>1, DressedIs
<1>12. /\ r.side = p.side /\ r.castling = p.castling /\ r.ep = p.ep /\ r.halfmove = p.halfmove
       /\ r.fullmove = p.fullmove /\ r.mailbox = p.mailbox /\ r.kingSq = p.kingSq /\ Sound(r)
       /\ r.zobrist = p.zobrist /\ r.pawnZobrist = p.pawnZobrist /\ r.score = p.score /\ r.phase = p.phase
  <2>1. /\ r.side = back.side /\ r.castling = back.castling /\ r.ep = back.ep
        /\ r.halfmove = back.halfmove /\ r.fullmove = back.fullmove /\ r.zobrist = p.zobrist
        /\ r.pawnZobrist = back.pawnZobrist /\ r.score = back.score /\ r.phase = back.phase
        /\ r.mailbox = back.mailbox /\ r.kingSq = back.kingSq /\ Sound(r)
    BY <1>0, <1>5, <1>7, <1>11
  <2> QED BY <1>11, <2>1
<1>13. r = p
  BY <1>0, <1>12, SamePosition DEF Rest
<1> QED BY <1>6, <1>8, <1>13, <1>14

-----------------------------------------------------------------------------
\* What a move and a pass of the turn leave is a position again.
LEMMA CastlingHomes ==
  /\ \A r \in Right : /\ CastlingHome[r][1] \in Square /\ CastlingHome[r][2] \in Square
                      /\ CastlingHome[r][3] \in Color
  /\ \A r \in Right, s \in Square : r \in CastlingMask[s] <=> s \notin {CastlingHome[r][1], CastlingHome[r][2]}
<1>1. ASSUME NEW r \in Right
      PROVE  CastlingHome[r][1] \in Square /\ CastlingHome[r][2] \in Square /\ CastlingHome[r][3] \in Color
  BY DEF Right, CastlingHome, Square, Color, E1, H1, A1, E8, H8, A8
<1> QED BY <1>1 DEF CastlingMask

LEMMA MadeLegal ==
  ASSUME NEW p, Legal(p), NEW mv, StepInv(p, mv), NEW q, q = MakeMove(p, mv)
  PROVE  Legal(q)
<1> DEFINE m == p.mailbox
           us == p.side
           mover == m[mv.from]
           lands == LandsAs(mover, mv)
           captureSq == CaptureSquare(us, mv)
           rook == CastleRookSquares(us, mv.flag)
<1>0. /\ Sound(p) /\ KingInv(p) /\ RightsInv(p) /\ PawnInv(p) /\ p.castling \subseteq Right
      /\ mv.from \in Square /\ mv.to \in Square /\ us \in Color /\ p.kingSq \in [Color -> Square]
      /\ Flip(us) \in Color /\ Flip(us) # us /\ Flip(Flip(us)) = us
  BY FlipTwice DEF Legal, StepInv, Sound, Shape
<1>1. /\ Sound(q) /\ q.side = Flip(us)
      /\ q.castling = p.castling \cap CastlingMask[mv.from] \cap CastlingMask[mv.to]
      /\ q.mailbox = MadeMailbox(m, us, mv)
      /\ q.kingSq = KingPut(p.kingSq, mv.to, mover)
  BY MakeMoveIs
<1>2. /\ mover \in Piece /\ mover.color = us /\ mv.from # mv.to
      /\ lands \in Piece /\ lands.color = us
      /\ lands.kind = "King" <=> mover.kind = "King"
      /\ ~IsPromotion(mv) => lands = mover
      /\ IsPromotion(mv) => mover = Pawn(us) /\ lands.kind # "Pawn"
      /\ mv.flag = EnPassant => m[captureSq] = Pawn(Flip(us))
  BY MoverIs
<1>3. IsCastling(mv) => m[rook[1]] = Rook(us) /\ m[mv.from] = King(us) /\ m[rook[2]] = NoPiece
  BY CastlingIs
<1>4. \A s \in Square :
        q.mailbox[s] = IF s = mv.to THEN lands
                       ELSE IF s = mv.from THEN NoPiece
                       ELSE IF mv.flag = EnPassant /\ s = captureSq THEN NoPiece
                       ELSE IF IsCastling(mv) /\ s = rook[1] THEN NoPiece
                       ELSE IF IsCastling(mv) /\ s = rook[2] THEN Rook(us)
                       ELSE m[s]
  BY <1>1 DEF MadeMailbox
<1>5. mover.kind = "King" => mover = King(us) /\ p.kingSq[us] = mv.from
  <2>1. mover.kind = "King" => mover = King(us)
    BY <1>2, Pieces1 DEF King
  <2> QED BY <1>0, <2>1 DEF KingInv
<1>6. \A c, d \in Color : King(c) # Rook(d) /\ King(c) # Pawn(d) /\ Rook(c) # Pawn(d) /\ King(c) # NoPiece
                          /\ Rook(c) # NoPiece /\ (c # d => King(c) # King(d) /\ Rook(c) # Rook(d))
  BY Zenon, Pieces1 DEF King, Rook, Pawn
<1>19. mover = m[mv.from] /\ (mv.flag = EnPassant => m[captureSq] = Pawn(Flip(us)))
  BY <1>2
<1> HIDE DEF mover, lands, captureSq, rook
<1>7. KingInv(q)
  <2> SUFFICES ASSUME NEW s \in Square, NEW c \in Color, q.mailbox[s] = King(c) PROVE q.kingSq[c] = s
    BY DEF KingInv
  <2>1. CASE s = mv.to
    <3>1. lands = King(c)
      BY <1>4, <2>1
    <3>2. mover.kind = "King" /\ c = us
      BY <1>2, <3>1 DEF King
    <3> QED BY <1>0, <1>1, <1>2, <2>1, <3>2 DEF KingPut
  <2>2. CASE s # mv.to
    <3>1. m[s] = King(c) /\ s # mv.from
      BY <1>0, <1>4, <1>6, <2>2
    <3>2. p.kingSq[c] = s
      BY <1>0, <3>1 DEF KingInv
    <3>3. ~(mover.kind = "King" /\ c = us)
      BY <1>5, <3>1, <3>2
    <3> QED BY <1>0, <1>1, <1>2, <3>2, <3>3 DEF KingPut
  <2> QED BY <2>1, <2>2
<1>8. RightsInv(q)
  <2> SUFFICES ASSUME NEW r \in q.castling
               PROVE  /\ q.mailbox[CastlingHome[r][1]] = King(CastlingHome[r][3])
                      /\ q.mailbox[CastlingHome[r][2]] = Rook(CastlingHome[r][3])
    BY DEF RightsInv
  <2> DEFINE k == CastlingHome[r][1]
             h == CastlingHome[r][2]
             c == CastlingHome[r][3]
  <2>1. r \in p.castling /\ r \in Right /\ r \in CastlingMask[mv.from] /\ r \in CastlingMask[mv.to]
    BY <1>0, <1>1
  <2>2. k \in Square /\ h \in Square /\ c \in Color /\ {k, h} \cap {mv.from, mv.to} = {}
    BY <1>0, <2>1, CastlingHomes
  <2>3. m[k] = King(c) /\ m[h] = Rook(c)
    BY <1>0, <2>1 DEF RightsInv
  <2> HIDE DEF k, h, c
  <2>4. q.mailbox[k] = King(c)
    <3>1. ~(mv.flag = EnPassant /\ k = captureSq)
      BY <1>0, <1>6, <1>19, <2>2, <2>3
    <3>2. ~(IsCastling(mv) /\ k \in {rook[1], rook[2]})
      BY <1>0, <1>3, <1>6, <2>2, <2>3
    <3>3. q.mailbox[k] = m[k]
      BY <1>4, <2>2, <3>1, <3>2
    <3> QED BY <2>3, <3>3
  <2>5. IsCastling(mv) => h # rook[1]
    <3> SUFFICES ASSUME IsCastling(mv), h = rook[1] PROVE FALSE
      OBVIOUS
    <3>1. c = us
      BY <1>0, <1>3, <1>6, <2>2, <2>3
    <3>2. k = p.kingSq[us] /\ mv.from = p.kingSq[us]
      BY <1>0, <1>3, <2>2, <2>3, <3>1 DEF KingInv
    <3> QED BY <2>2, <3>2
  <2>6. q.mailbox[h] = Rook(c)
    <3>1. ~(mv.flag = EnPassant /\ h = captureSq)
      BY <1>0, <1>6, <1>19, <2>2, <2>3
    <3>2. ~(IsCastling(mv) /\ h = rook[2])
      BY <1>0, <1>3, <1>6, <2>2, <2>3
    <3>3. q.mailbox[h] = m[h]
      BY <1>4, <2>2, <2>5, <3>1, <3>2
    <3> QED BY <2>3, <3>3
  <2> QED BY <2>4, <2>6 DEF k, h, c
<1>9. EpInv(q)
  <2> SUFFICES ASSUME q.ep # NoSquare
               PROVE  /\ Rank(q.ep) = (IF q.side = "White" THEN 5 ELSE 2)
                      /\ q.mailbox[q.ep] = NoPiece
                      /\ q.mailbox[q.ep - PushStep(q.side)] = Pawn(Flip(q.side))
                      /\ EpCapturerExists(q, q.side, File(q.ep), Rank(q.ep - PushStep(q.side)))
    BY DEF EpInv
  <2>1. PICK board : board.mailbox = q.mailbox /\ q.ep = NewEp(board, mv, us)
    BY MakeMoveIs
  <2>2. /\ mv.flag = DoublePush /\ q.ep = mv.from + PushStep(us)
        /\ EpCapturerExists(board, Flip(us), File(mv.from), Rank(mv.to))
    BY <2>1 DEF NewEp
  <2>3. /\ mover = Pawn(us) /\ Rank(mv.from) = StartRank(us)
        /\ mv.to = mv.from + PushStep(us) + PushStep(us)
        /\ m[mv.from + PushStep(us)] = NoPiece
    BY <1>19, <2>2 DEF StepInv
  <2>4. PushStep(us) \in {-8, 8} /\ PushStep(Flip(us)) = -PushStep(us)
    BY <1>0 DEF PushStep, Color, Flip
  <2>5. q.ep \in Square
    BY <1>0, <2>2, <2>3, <2>4 DEF Square
  <2>6. q.ep - PushStep(q.side) = mv.to /\ q.ep # mv.to /\ q.ep # mv.from
    BY <1>0, <1>1, <2>2, <2>3, <2>4 DEF Square
  <2>7. File(q.ep) = File(mv.from) /\ Rank(q.ep) = (IF q.side = "White" THEN 5 ELSE 2)
    <3>1. us = "White" => Rank(q.ep) = Rank(mv.from) + 1
      BY <1>0, <2>2, <2>5, Steps
    <3>2. us = "Black" => Rank(q.ep) = Rank(mv.from) - 1
      BY <1>0, <2>2, <2>5, Steps
    <3>3. File(q.ep) = File(mv.from)
      BY <1>0, <2>2, <2>5, Steps
    <3> QED BY <1>0, <1>1, <2>3, <3>1, <3>2, <3>3 DEF StartRank, Color, Flip
  <2>8. mv.flag # EnPassant /\ ~IsCastling(mv) /\ ~IsPromotion(mv)
    BY <2>2 DEF DoublePush, EnPassant, IsCastling, KingCastle, QueenCastle, IsPromotion
  <2>9. q.mailbox[q.ep] = NoPiece /\ q.mailbox[mv.to] = Pawn(us)
    BY <1>0, <1>2, <1>4, <2>2, <2>3, <2>5, <2>6, <2>8
  <2>10. EpCapturerExists(q, q.side, File(q.ep), Rank(q.ep - PushStep(q.side)))
    BY <1>1, <2>1, <2>2, <2>6, <2>7 DEF EpCapturerExists, PieceAt
  <2> QED BY <1>0, <1>1, <2>6, <2>7, <2>9, <2>10
<1>10. PawnInv(q)
  <2> SUFFICES ASSUME NEW s \in Square, q.mailbox[s].kind = "Pawn" PROVE Rank(s) \in 1..6
    BY DEF PawnInv
  <2>1. CASE s = mv.to
    <3>1. lands.kind = "Pawn"
      BY <1>4, <2>1
    <3>2. ~IsPromotion(mv) /\ mover = lands
      BY <1>2, <3>1
    <3>3. mover = Pawn(us)
      BY <1>2, <3>1, <3>2, Pieces1 DEF Pawn
    <3> QED BY <1>19, <2>1, <3>2, <3>3 DEF StepInv
  <2>2. CASE s # mv.to
    <3>1. NoPiece.kind # "Pawn" /\ Rook(us).kind # "Pawn"
      BY DEF NoPiece, Rook
    <3>2. m[s].kind = "Pawn"
      BY <1>4, <2>2, <3>1
    <3> QED BY <1>0, <3>2 DEF PawnInv
  <2> QED BY <2>1, <2>2
<1> QED BY <1>1, <1>7, <1>8, <1>9, <1>10 DEF Legal

LEMMA PassedLegal ==
  ASSUME NEW p, Legal(p), NEW q, q = MakeNullMove(p)
  PROVE  Legal(q)
<1>1. /\ Sound(q) /\ q.side = Flip(p.side) /\ q.castling = p.castling /\ q.ep = NoSquare
      /\ q.mailbox = p.mailbox /\ q.kingSq = p.kingSq
  BY UnmakeNullIs
<1>2. KingInv(q)
  BY <1>1 DEF Legal, KingInv
<1>3. RightsInv(q)
  BY <1>1 DEF Legal, RightsInv
<1>4. PawnInv(q)
  BY <1>1 DEF Legal, PawnInv
<1> QED BY <1>1, <1>2, <1>3, <1>4 DEF Legal, EpInv

-----------------------------------------------------------------------------
\* Folds.  Finite sets by induction: of the sets that have a property, one has
\* no smaller one in it that has it.
LEMMA SmallestSet ==
  ASSUME NEW S, IsFiniteSet(S), NEW T \in SUBSET SUBSET S, T # {}
  PROVE  \E s \in T : \A u \in T : u \subseteq s => u = s
<1>1. IsWellFoundedOn(StrictSubsetOrdering(S), SUBSET S)
  BY FS_StrictSubsetOrderingWellFounded, FS_FiniteSubsetsOfFinite
<1>2. PICK s \in T : \A u \in T : ~ <<u, s>> \in StrictSubsetOrdering(S)
  BY <1>1, WFMin, T \subseteq SUBSET S
<1> QED BY <1>2 DEF StrictSubsetOrdering

\* g folds step over the subsets of S, the element pick[s] being the last one
\* that is taken from s.
FoldOf(g, base, step, pick, S) ==
  g = [s \in SUBSET S |-> IF s = {} THEN base ELSE step[pick[s]][g[s \ {pick[s]}]]]

LEMMA FoldAt ==
  ASSUME NEW base, NEW step, NEW pick, NEW S, NEW g, FoldOf(g, base, step, pick, S)
  PROVE  g[{}] = base
<1>1. \A s \in SUBSET S : g[s] = IF s = {} THEN base ELSE step[pick[s]][g[s \ {pick[s]}]]
  BY DEF FoldOf
<1> QED BY <1>1

LEMMA FoldsAgree ==
  ASSUME NEW base, NEW step, NEW pick, NEW S, IsFiniteSet(S), NEW T \in SUBSET S,
         \A s \in SUBSET S : s # {} => pick[s] \in s,
         NEW g, NEW h, FoldOf(g, base, step, pick, S), FoldOf(h, base, step, pick, T)
  PROVE  \A s \in SUBSET T : g[s] = h[s]
<1> DEFINE Bad == {s \in SUBSET T : g[s] # h[s]}
<1> SUFFICES ASSUME Bad # {} PROVE FALSE
  OBVIOUS
<1>0. Bad \in SUBSET SUBSET T /\ IsFiniteSet(T)
  BY FS_Subset
<1>1. PICK s \in Bad : \A u \in Bad : u \subseteq s => u = s
  <2> HIDE DEF Bad
  <2> QED BY <1>0, SmallestSet
<1>2. s # {}
  <2>1. g[{}] = base /\ h[{}] = base
    BY FoldAt
  <2> QED BY <1>1, <2>1
<1>3. pick[s] \in s /\ s \ {pick[s]} \in (SUBSET T) \ Bad
  BY <1>1, <1>2
<1>4. g[s] = step[pick[s]][g[s \ {pick[s]}]] /\ h[s] = step[pick[s]][h[s \ {pick[s]}]]
  <2>1. \A t \in SUBSET S : t # {} => g[t] = step[pick[t]][g[t \ {pick[t]}]]
    <3> SUFFICES ASSUME NEW t \in SUBSET S, t # {} PROVE g[t] = step[pick[t]][g[t \ {pick[t]}]]
      BY Zenon
    <3>1. g[t] = IF t = {} THEN base ELSE step[pick[t]][g[t \ {pick[t]}]]
      BY Zenon DEF FoldOf
    <3> QED BY <3>1
  <2>2. \A t \in SUBSET T : t # {} => h[t] = step[pick[t]][h[t \ {pick[t]}]]
    <3> SUFFICES ASSUME NEW t \in SUBSET T, t # {} PROVE h[t] = step[pick[t]][h[t \ {pick[t]}]]
      BY Zenon
    <3>1. h[t] = IF t = {} THEN base ELSE step[pick[t]][h[t \ {pick[t]}]]
      BY Zenon DEF FoldOf
    <3> QED BY <3>1
  <2> QED BY <1>1, <1>2, <2>1, <2>2
<1> QED BY <1>1, <1>3, <1>4

\* What can be folded: the steps stay in C.
Foldable(C, base, step, pick, S) ==
  /\ IsFiniteSet(S) /\ base \in C
  /\ \A s \in SUBSET S : s # {} => pick[s] \in s
  /\ \A x \in S, c \in C : step[x][c] \in C

LEMMA FoldsExist ==
  ASSUME NEW C, NEW base, NEW step, NEW pick, NEW S, Foldable(C, base, step, pick, S)
  PROVE  \E g \in [SUBSET S -> C] : FoldOf(g, base, step, pick, S)
<1>9. /\ IsFiniteSet(S) /\ base \in C
      /\ \A s \in SUBSET S : s # {} => pick[s] \in s
      /\ \A x \in S, c \in C : step[x][c] \in C
  BY DEF Foldable
<1> DEFINE Good(s) == \E g \in [SUBSET s -> C] : FoldOf(g, base, step, pick, s)
           Bad == {s \in SUBSET S : ~Good(s)}
<1> SUFFICES ASSUME Bad # {} PROVE FALSE
  OBVIOUS
<1>0. Bad \in SUBSET SUBSET S
  OBVIOUS
<1>1. PICK S0 \in Bad : \A u \in Bad : u \subseteq S0 => u = S0
  <2> HIDE DEF Bad
  <2> QED BY <1>0, <1>9, SmallestSet
<1> DEFINE G(s) == CHOOSE g \in [SUBSET s -> C] : FoldOf(g, base, step, pick, s)
           Below == {s \in SUBSET S0 : s # S0}
           h == [s \in SUBSET S0 |-> IF s = {} THEN base
                   ELSE step[pick[s]][G(s \ {pick[s]})[s \ {pick[s]}]]]
<1>3. \A s \in Below : G(s) \in [SUBSET s -> C] /\ FoldOf(G(s), base, step, pick, s)
  <2> SUFFICES ASSUME NEW s \in Below PROVE G(s) \in [SUBSET s -> C] /\ FoldOf(G(s), base, step, pick, s)
    OBVIOUS
  <2>1. \E g \in [SUBSET s -> C] : FoldOf(g, base, step, pick, s)
    BY <1>1
  <2> QED BY <2>1
<1> HIDE DEF G
<1>4. \A s \in SUBSET S0 : s # {} => s \ {pick[s]} \in Below
  BY <1>1, <1>9
<1>5. \A s \in Below : h[s] = G(s)[s]
  <2> SUFFICES ASSUME NEW s \in Below PROVE h[s] = G(s)[s]
    OBVIOUS
  <2>1. CASE s = {}
    <3>1. G(s)[s] = base
      <4>1. FoldOf(G(s), base, step, pick, s)
        BY <1>3
      <4>2. G(s)[{}] = base
        BY <4>1, FoldAt
      <4> QED BY <2>1, <4>2
    <3> QED BY <2>1, <3>1
  <2>2. CASE s # {}
    <3> DEFINE u == s \ {pick[s]}
    <3>0. s \subseteq S0 /\ S0 \subseteq S /\ pick[s] \in s
      BY <1>1, <1>9, <2>2
    <3>1. u \in Below /\ u \in SUBSET s /\ IsFiniteSet(s)
      BY <1>9, <3>0, FS_Subset
    <3>2. G(s)[s] = step[pick[s]][G(s)[u]]
      <4> HIDE DEF Below
      <4>1. FoldOf(G(s), base, step, pick, s)
        BY <1>3
      <4>2. \A r \in SUBSET s : r # {} => G(s)[r] = step[pick[r]][G(s)[r \ {pick[r]}]]
        <5> SUFFICES ASSUME NEW r \in SUBSET s, r # {} PROVE G(s)[r] = step[pick[r]][G(s)[r \ {pick[r]}]]
          OBVIOUS
        <5>1. G(s)[r] = IF r = {} THEN base ELSE step[pick[r]][G(s)[r \ {pick[r]}]]
          BY <4>1 DEF FoldOf
        <5> QED BY <5>1
      <4> QED BY <2>2, <4>2, s \in SUBSET s
    <3>3. G(s)[u] = G(u)[u]
      <4> HIDE DEF u, Below
      <4>1. FoldOf(G(s), base, step, pick, s) /\ FoldOf(G(u), base, step, pick, u)
        BY <1>3, <3>1
      <4>2. \A r \in SUBSET s : r # {} => pick[r] \in r
        BY <1>9, <3>0
      <4>3. \A r \in SUBSET u : G(s)[r] = G(u)[r]
        BY <3>1, <4>1, <4>2, FoldsAgree
      <4> QED BY <4>3, u \in SUBSET u
    <3>4. h[s] = step[pick[s]][G(u)[u]]
      BY <2>2
    <3> QED BY <3>2, <3>3, <3>4
  <2> QED BY <2>1, <2>2
<1>6. FoldOf(h, base, step, pick, S0)
  <2>1. \A s \in SUBSET S0 : s # {} => h[s \ {pick[s]}] = G(s \ {pick[s]})[s \ {pick[s]}]
    BY <1>4, <1>5
  <2> QED BY <2>1 DEF FoldOf
<1>7. h \in [SUBSET S0 -> C]
  <2> SUFFICES ASSUME NEW s \in SUBSET S0 PROVE h[s] \in C
    OBVIOUS
  <2>1. CASE s = {}
    BY <1>9, <2>1
  <2>2. CASE s # {}
    <3> DEFINE u == s \ {pick[s]}
    <3>1. u \in Below /\ pick[s] \in S
      BY <1>1, <1>4, <1>9, <2>2
    <3>2. G(u)[u] \in C
      <4> HIDE DEF u, Below
      <4>1. G(u) \in [SUBSET u -> C]
        BY <1>3, <3>1
      <4> QED BY <4>1, u \in SUBSET u
    <3> QED BY <1>9, <2>2, <3>1, <3>2
  <2> QED BY <2>1, <2>2
<1> QED BY <1>1, <1>6, <1>7

\* Numbers by induction, as a set that is closed.
LEMMA UpTo ==
  ASSUME NEW n \in Nat, NEW Good, 0 \in Good, \A k \in 1..n : k - 1 \in Good => k \in Good
  PROVE  \A k \in 0..n : k \in Good
<1> DEFINE T == {1..k : k \in (0..n) \ Good}
<1> SUFFICES ASSUME T # {} PROVE FALSE
  OBVIOUS
<1> DEFINE S == 1..n
<1>0. IsFiniteSet(S)
  BY FS_Interval
<1>1. T \in SUBSET SUBSET S
  OBVIOUS
<1>2. PICK s \in T : \A u \in T : u \subseteq s => u = s
  <2> HIDE DEF S, T
  <2> QED BY <1>0, <1>1, SmallestSet
<1>3. PICK k \in (0..n) \ Good : s = 1..k
  BY <1>2
<1>4. k # 0 /\ k \in 1..n /\ k - 1 \in (0..n) \ Good
  BY <1>3
<1>5. 1..(k - 1) \in T
  BY <1>4
<1>6. 1..(k - 1) \subseteq 1..k /\ k \in 1..k /\ k \notin 1..(k - 1)
  BY <1>4
<1> QED BY <1>2, <1>3, <1>5, <1>6

LEMMA MaxIn ==
  ASSUME NEW n \in Nat, NEW s \in SUBSET (1..n), s # {}
  PROVE  Max(s) \in s
<1> DEFINE T == {1..b : b \in {b \in 0..n : \A y \in s : y <= b}}
<1> DEFINE S == 1..n
<1>0. IsFiniteSet(S)
  BY FS_Interval
<1>1. T \in SUBSET SUBSET S
  OBVIOUS
<1>2. T # {}
  <2>1. n \in {b \in 0..n : \A y \in s : y <= b}
    OBVIOUS
  <2> QED BY <2>1
<1>3. PICK u \in T : \A v \in T : v \subseteq u => v = u
  <2> HIDE DEF S, T
  <2> QED BY <1>0, <1>1, <1>2, SmallestSet
<1>4. PICK b \in 0..n : u = 1..b /\ \A y \in s : y <= b
  BY <1>3
<1>5. b \in s
  <2> SUFFICES ASSUME b \notin s PROVE FALSE
    OBVIOUS
  <2>1. b \in 1..n
    <3>1. PICK y \in s : y <= b
      BY <1>4
    <3> QED BY <1>4, <3>1
  <2>2. \A y \in s : y <= b - 1
    BY <1>4, <2>1
  <2>3. 1..(b - 1) \in T
    BY <2>1, <2>2
  <2>4. 1..(b - 1) \subseteq 1..b /\ b \in 1..b /\ b \notin 1..(b - 1)
    BY <2>1
  <2> QED BY <1>3, <1>4, <2>3, <2>4
<1>6. \A y \in s : b >= y
  BY <1>4, <1>5
<1> QED BY <1>5, <1>6 DEF Max

LEMMA MaxPrefix ==
  ASSUME NEW k \in Nat, k # 0
  PROVE  Max(1..k) = k /\ (1..k) \ {Max(1..k)} = 1..(k - 1)
<1>1. Max(1..k) = k
  BY DEF Max
<1>2. (1..k) \ {k} = 1..(k - 1)
  OBVIOUS
<1> QED BY <1>1, <1>2

\* A fold from the left over a sequence of n elements, step by step.
LEMMA LeftFold ==
  ASSUME NEW n \in Nat, NEW C, NEW base \in C, NEW step, \A x \in 1..n, c \in C : step[x][c] \in C,
         NEW pick, pick = [s \in SUBSET (1..n) |-> Max(s)]
  PROVE  \E g \in [SUBSET (1..n) -> C] :
           /\ FoldOf(g, base, step, pick, 1..n)
           /\ g[{}] = base /\ \A k \in 1..n : g[1..k] = step[k][g[1..(k - 1)]]
<1>1. IsFiniteSet(1..n)
  BY FS_Interval
<1>2. \A s \in SUBSET (1..n) : s # {} => pick[s] \in s
  BY MaxIn
<1>3. PICK g \in [SUBSET (1..n) -> C] : FoldOf(g, base, step, pick, 1..n)
  <2> DEFINE S == 1..n
  <2>1. Foldable(C, base, step, pick, S)
    BY <1>1, <1>2 DEF Foldable
  <2> HIDE DEF S
  <2>2. \E g \in [SUBSET S -> C] : FoldOf(g, base, step, pick, S)
    BY <2>1, FoldsExist
  <2> QED BY <2>2 DEF S
<1>4. g[{}] = base
  BY <1>3, FoldAt
<1>5. ASSUME NEW k \in 1..n PROVE g[1..k] = step[k][g[1..(k - 1)]]
  <2> DEFINE s == 1..k
  <2>1. s \in SUBSET (1..n) /\ s # {} /\ pick[s] = k /\ s \ {pick[s]} = 1..(k - 1)
    BY MaxPrefix
  <2> HIDE DEF s
  <2>2. g[s] = IF s = {} THEN base ELSE step[pick[s]][g[s \ {pick[s]}]]
    BY <1>3, <2>1 DEF FoldOf
  <2> QED BY <2>1, <2>2 DEF s
<1> QED BY <1>3, <1>4, <1>5

-----------------------------------------------------------------------------
\* Reading the placement.  Every square that has not been read is still empty,
\* and a side that has a king has one where the position says.
CursorErr == {"None", "BadPiecePlacement", "PawnOnBackRank"}
Cursor == {c \in [pos : Shape, file : 0..8, err : CursorErr] : Sound(c.pos)}

LEMMA Tokens ==
  /\ \A n : IsRun(Empty(n)) /\ Empty(n).run = n
  /\ \A piece \in Piece : ~IsRun(piece)
<1>1. \A n : IsRun(Empty(n)) /\ Empty(n).run = n
  BY DEF IsRun, Empty
<1>2. ASSUME NEW piece \in Piece PROVE ~IsRun(piece)
  <2>1. DOMAIN piece = {"color", "kind"}
    BY DEF Piece
  <2> QED BY <2>1 DEF IsRun
<1> QED BY <1>1, <1>2

LEMMA TokenPlaced ==
  ASSUME NEW c \in Cursor, NEW token \in Token, NEW rank \in 0..7, NEW d, d = PlaceToken(c, token, rank)
  PROVE  /\ d \in Cursor
         /\ d.err = "None" =>
              /\ c.err = "None"
              /\ IF IsRun(token) THEN d.pos = c.pos /\ d.file = c.file + token.run
                 ELSE /\ c.file < 8 /\ d.file = c.file + 1 /\ token \in Piece
                      /\ d.pos = SetPiece(c.pos, FromFileRank(c.file, rank), token)
                      /\ token.kind = "Pawn" => rank \in 1..6
<1>0. /\ c.pos \in Shape /\ Sound(c.pos) /\ c.file \in 0..8 /\ c.err \in CursorErr
      /\ c \in [pos : Shape, file : 0..8, err : CursorErr]
  BY DEF Cursor
<1>1. CASE c.err # "None"
  BY <1>0, <1>1 DEF PlaceToken
<1>2. CASE c.err = "None" /\ IsRun(token)
  <2>1. token.run \in 1..8
    BY <1>2, Tokens DEF Token
  <2>2. CASE c.file + token.run > 8
    <3>1. d = [c EXCEPT !.err = "BadPiecePlacement"]
      BY <1>2, <2>2 DEF PlaceToken
    <3>2. d \in [pos : Shape, file : 0..8, err : CursorErr] /\ d.pos = c.pos /\ d.err # "None"
      BY <1>0, <3>1 DEF CursorErr
    <3> QED BY <1>0, <3>2 DEF Cursor
  <2>3. CASE c.file + token.run <= 8
    <3>1. d = [c EXCEPT !.file = @ + token.run]
      BY <1>0, <1>2, <2>1, <2>3 DEF PlaceToken
    <3>2. d \in [pos : Shape, file : 0..8, err : CursorErr] /\ d.pos = c.pos /\ d.err = c.err /\ d.file = c.file + token.run
      BY <1>0, <2>1, <2>3, <3>1
    <3> QED BY <1>0, <1>2, <3>2 DEF Cursor
  <2> QED BY <1>0, <2>1, <2>2, <2>3
<1>3. CASE c.err = "None" /\ ~IsRun(token)
  <2>1. token \in Piece
    BY <1>3, Tokens DEF Token
  <2>2. CASE c.file >= 8
    <3>1. d = [c EXCEPT !.err = "BadPiecePlacement"]
      BY <1>0, <1>3, <2>2 DEF PlaceToken
    <3>2. d \in [pos : Shape, file : 0..8, err : CursorErr] /\ d.pos = c.pos /\ d.err # "None"
      BY <1>0, <3>1 DEF CursorErr
    <3> QED BY <1>0, <3>2 DEF Cursor
  <2>3. CASE c.file < 8 /\ token.kind = "Pawn" /\ rank \in {0, 7}
    <3>1. d = [c EXCEPT !.err = "PawnOnBackRank"]
      BY <1>0, <1>3, <2>3 DEF PlaceToken
    <3>2. d \in [pos : Shape, file : 0..8, err : CursorErr] /\ d.pos = c.pos /\ d.err # "None"
      BY <1>0, <3>1 DEF CursorErr
    <3> QED BY <1>0, <3>2 DEF Cursor
  <2>4. CASE c.file < 8 /\ ~(token.kind = "Pawn" /\ rank \in {0, 7})
    <3> DEFINE q == SetPiece(c.pos, FromFileRank(c.file, rank), token)
    <3>1. d = [c EXCEPT !.pos = SetPiece(@, FromFileRank(c.file, rank), token), !.file = @ + 1]
      BY <1>0, <1>3, <2>4 DEF PlaceToken
    <3>2. d = [c EXCEPT !.pos = q, !.file = c.file + 1]
      BY <3>1
    <3>3. FromFileRank(c.file, rank) \in Square
      BY <1>0, <2>4 DEF FromFileRank, OnBoard, Square
    <3>4. q = SetPiece(c.pos, FromFileRank(c.file, rank), token)
      OBVIOUS
    <3> HIDE DEF q
    <3>5. Sound(q)
      BY <1>0, <2>1, <3>3, <3>4, SetPieceIs
    <3>6. d \in [pos : Shape, file : 0..8, err : CursorErr] /\ d.pos = q /\ d.err = c.err /\ d.file = c.file + 1
      <4>1. q \in Shape /\ c.file + 1 \in 0..8
        BY <1>0, <2>4, <3>5 DEF Sound
      <4> QED BY <1>0, <3>2, <4>1
    <3> QED BY <1>3, <2>1, <2>4, <3>4, <3>5, <3>6 DEF Cursor
  <2> QED BY <1>0, <2>2, <2>3, <2>4
<1> QED BY <1>1, <1>2, <1>3

TokenFold(g, start, tokens, rank) ==
  g = [s \in SUBSET DOMAIN tokens |->
         IF s = {} THEN start ELSE PlaceToken(g[s \ {Max(s)}], tokens[Max(s)], rank)]
TokensRead(start, tokens, rank) == (CHOOSE g : TokenFold(g, start, tokens, rank))[DOMAIN tokens]

LEMMA FoldIs ==
  ASSUME NEW start, NEW tokens, NEW rank
  PROVE  FoldLeft(LAMBDA c, token : PlaceToken(c, token, rank), start, tokens) = TokensRead(start, tokens, rank)
BY DEF FoldLeft, MapThenFoldSet, TokenFold, TokensRead

LEMMA PlaceRankIs ==
  ASSUME NEW c, NEW tokens, NEW rank, NEW read, read = TokensRead([c EXCEPT !.file = 0], tokens, rank)
  PROVE  PlaceRank(c, tokens, rank) =
           IF read.err = "None" /\ read.file # 8 THEN [read EXCEPT !.err = "BadPiecePlacement"] ELSE read
<1> DEFINE start == [c EXCEPT !.file = 0]
<1>1. FoldLeft(LAMBDA k, token : PlaceToken(k, token, rank), start, tokens) = read
  BY Zenon, FoldIs
<1> HIDE DEF start
<1> QED BY Zenon, <1>1 DEF PlaceRank, start

ReadBy(h, n, start, tokens, rank) ==
  /\ h[0] = start /\ h[n] = TokensRead(start, tokens, rank)
  /\ \A k \in 1..n : h[k] = PlaceToken(h[k - 1], tokens[k], rank)

LEMMA TokenByToken ==
  ASSUME NEW n \in Nat, NEW tokens \in [1..n -> Token], NEW rank \in 0..7, NEW start \in Cursor
  PROVE  \E h \in [0..n -> Cursor] : ReadBy(h, n, start, tokens, rank)
<1> DEFINE step == [x \in 1..n |-> [c \in Cursor |-> PlaceToken(c, tokens[x], rank)]]
           pick == [s \in SUBSET (1..n) |-> Max(s)]
           g == CHOOSE g : TokenFold(g, start, tokens, rank)
           h == [k \in 0..n |-> g[1..k]]
<1>0. DOMAIN tokens = 1..n
  OBVIOUS
<1>1. TokenFold(g, start, tokens, rank)
  <2>1. \A x \in 1..n, c \in Cursor : step[x][c] \in Cursor
    <3> SUFFICES ASSUME NEW x \in 1..n, NEW c \in Cursor PROVE PlaceToken(c, tokens[x], rank) \in Cursor
      OBVIOUS
    <3> QED BY TokenPlaced
  <2>2. PICK f \in [SUBSET (1..n) -> Cursor] : FoldOf(f, start, step, pick, 1..n)
    <3> HIDE DEF step
    <3> QED BY <2>1, LeftFold
  <2>3. f = [s \in SUBSET (1..n) |-> IF s = {} THEN start ELSE step[pick[s]][f[s \ {pick[s]}]]]
    BY Zenon, <2>2 DEF FoldOf
  <2>4. \A s \in SUBSET (1..n) : s # {} => step[pick[s]][f[s \ {pick[s]}]] = PlaceToken(f[s \ {Max(s)}], tokens[Max(s)], rank)
    BY Zenon, <2>2, MaxIn
  <2>5. f = [s \in SUBSET (1..n) |-> IF s = {} THEN start ELSE PlaceToken(f[s \ {Max(s)}], tokens[Max(s)], rank)]
    <3> HIDE DEF step, pick
    <3> QED BY Zenon, <2>3, <2>4
  <2>6. TokenFold(f, start, tokens, rank)
    BY <1>0, <2>5 DEF TokenFold
  <2> QED BY <2>6
<1> HIDE DEF g
<1>2. \A s \in SUBSET (1..n) : g[s] = IF s = {} THEN start ELSE PlaceToken(g[s \ {Max(s)}], tokens[Max(s)], rank)
  BY <1>0, <1>1 DEF TokenFold
<1>3. h[0] = start
  <2>1. g[{}] = start
    BY <1>2
  <2>2. 1..0 = {}
    OBVIOUS
  <2> QED BY <2>1, <2>2
<1>4. \A k \in 1..n : h[k] = PlaceToken(h[k - 1], tokens[k], rank)
  <2> SUFFICES ASSUME NEW k \in 1..n PROVE g[1..k] = PlaceToken(g[1..(k - 1)], tokens[k], rank)
    OBVIOUS
  <2> DEFINE s == 1..k
  <2>1. s \in SUBSET (1..n) /\ s # {} /\ Max(s) = k /\ s \ {Max(s)} = 1..(k - 1)
    <3>1. k \in Nat /\ k # 0
      OBVIOUS
    <3>2. Max(1..k) = k /\ (1..k) \ {Max(1..k)} = 1..(k - 1)
      BY <3>1, MaxPrefix
    <3>3. 1..k \subseteq 1..n /\ 1..k # {}
      OBVIOUS
    <3> QED BY <3>2, <3>3
  <2> HIDE DEF s
  <2>2. g[s] = PlaceToken(g[s \ {Max(s)}], tokens[Max(s)], rank)
    BY <1>2, <2>1
  <2> QED BY <2>1, <2>2 DEF s
<1>5. h[n] = TokensRead(start, tokens, rank)
  BY <1>0 DEF TokensRead, g
<1>6. h \in [0..n -> Cursor]
  <2> DEFINE Good == {k \in 0..n : h[k] \in Cursor}
  <2>1. 0 \in Good
    BY <1>3
  <2>2. \A k \in 1..n : k - 1 \in Good => k \in Good
    <3> SUFFICES ASSUME NEW k \in 1..n, h[k - 1] \in Cursor PROVE h[k] \in Cursor
      OBVIOUS
    <3> HIDE DEF h
    <3>1. tokens[k] \in Token /\ h[k] = PlaceToken(h[k - 1], tokens[k], rank)
      BY <1>4
    <3> QED BY <3>1, TokenPlaced
  <2>3. \A k \in 0..n : k \in Good
    <3> HIDE DEF Good
    <3> QED BY <2>1, <2>2, UpTo
  <2> QED BY <2>3
<1> HIDE DEF h
<1> QED BY <1>3, <1>4, <1>5, <1>6 DEF ReadBy

\* What holds of the position while the placement is read.
Unread(p, rank, file) ==
  \A s \in Square : Rank(s) < rank \/ (Rank(s) = rank /\ File(s) >= file) => p.mailbox[s] = NoPiece
Anchored(p) ==
  \A s \in Square, c \in Color : p.mailbox[s] = King(c) => p.mailbox[p.kingSq[c]] = King(c)
Reading(c, rank) ==
  c.err = "None" => Unread(c.pos, rank, c.file) /\ Anchored(c.pos) /\ PawnInv(c.pos)

LEMMA TokenReading ==
  ASSUME NEW c \in Cursor, NEW token \in Token, NEW rank \in 0..7, Reading(c, rank)
  PROVE  Reading(PlaceToken(c, token, rank), rank)
<1> DEFINE d == PlaceToken(c, token, rank)
           s0 == FromFileRank(c.file, rank)
<1>1. d = PlaceToken(c, token, rank)
  OBVIOUS
<1> HIDE DEF d
<1> SUFFICES ASSUME d.err = "None" PROVE Unread(d.pos, rank, d.file) /\ Anchored(d.pos) /\ PawnInv(d.pos)
  BY DEF Reading, d
<1>2. /\ d \in Cursor /\ c.err = "None" /\ c.file \in 0..8 /\ Sound(c.pos)
      /\ IF IsRun(token) THEN d.pos = c.pos /\ d.file = c.file + token.run
         ELSE /\ c.file < 8 /\ d.file = c.file + 1 /\ token \in Piece
              /\ d.pos = SetPiece(c.pos, s0, token)
              /\ token.kind = "Pawn" => rank \in 1..6
  <2>1. c \in Cursor /\ token \in Token /\ rank \in 0..7 /\ d = PlaceToken(c, token, rank)
    BY <1>1
  <2>2. /\ d \in Cursor
        /\ c.err = "None"
        /\ IF IsRun(token) THEN d.pos = c.pos /\ d.file = c.file + token.run
           ELSE /\ c.file < 8 /\ d.file = c.file + 1 /\ token \in Piece
                /\ d.pos = SetPiece(c.pos, FromFileRank(c.file, rank), token)
                /\ token.kind = "Pawn" => rank \in 1..6
    BY Zenon, <2>1, TokenPlaced
  <2>3. c.file \in 0..8 /\ Sound(c.pos)
    BY DEF Cursor
  <2> QED BY <2>2, <2>3
<1>3. Unread(c.pos, rank, c.file) /\ Anchored(c.pos) /\ PawnInv(c.pos)
  BY <1>2 DEF Reading
<1>4. CASE IsRun(token)
  <2>1. token.run \in 1..8
    BY <1>4, Tokens DEF Token
  <2>2. Unread(c.pos, rank, c.file + token.run)
    <3> SUFFICES ASSUME NEW s \in Square, Rank(s) < rank \/ (Rank(s) = rank /\ File(s) >= c.file + token.run)
                 PROVE  c.pos.mailbox[s] = NoPiece
      BY DEF Unread
    <3>1. File(s) \in 0..7 /\ Rank(s) \in 0..7
      BY OnTheBoard
    <3>2. Rank(s) < rank \/ (Rank(s) = rank /\ File(s) >= c.file)
      BY <1>2, <2>1, <3>1
    <3> QED BY <1>3, <3>2 DEF Unread
  <2> QED BY <1>2, <1>3, <1>4, <2>2
<1>5. CASE ~IsRun(token)
  <2>1. /\ c.file \in 0..7 /\ d.file = c.file + 1 /\ token \in Piece /\ d.pos = SetPiece(c.pos, s0, token)
        /\ token.kind = "Pawn" => rank \in 1..6
    BY <1>2, <1>5
  <2>2. s0 \in Square /\ Rank(s0) = rank /\ File(s0) = c.file
    BY <2>1 DEF FromFileRank, OnBoard, Square, Rank, File
  <2> HIDE DEF s0
  <2> DEFINE q == d.pos
             m == c.pos.mailbox
  <2>3. /\ Sound(q) /\ q.mailbox = Put(m, s0, token) /\ q.kingSq = KingPut(c.pos.kingSq, s0, token)
    BY <1>2, <2>1, <2>2, SetPieceIs
  <2>4. \A s \in Square : q.mailbox[s] = IF s = s0 THEN token ELSE m[s]
    BY <1>2, <2>2, <2>3, PutIs, BoardFunction
  <2>5. m[s0] = NoPiece
    BY <1>3, <2>2, <2>1 DEF Unread
  <2>6. c.pos.kingSq \in [Color -> Square]
    BY <1>2, BoardFunction
  <2> HIDE DEF q, m
  <2>7. Unread(q, rank, d.file)
    <3> SUFFICES ASSUME NEW s \in Square, Rank(s) < rank \/ (Rank(s) = rank /\ File(s) >= c.file + 1)
                 PROVE  q.mailbox[s] = NoPiece
      BY <2>1 DEF Unread
    <3>1. File(s) \in 0..7 /\ Rank(s) \in 0..7
      BY OnTheBoard
    <3>2. s # s0 /\ (Rank(s) < rank \/ (Rank(s) = rank /\ File(s) >= c.file))
      BY <2>1, <2>2, <3>1
    <3>3. m[s] = NoPiece
      BY <1>3, <3>2 DEF Unread, m
    <3> QED BY <2>4, <3>2, <3>3
  <2>8. Anchored(q)
    <3> SUFFICES ASSUME NEW s \in Square, NEW k \in Color, q.mailbox[s] = King(k)
                 PROVE  q.mailbox[q.kingSq[k]] = King(k)
      BY DEF Anchored
    <3>1. CASE token = King(k)
      <4>1. token.kind = "King" /\ token.color = k
        BY <3>1 DEF King
      <4>2. q.kingSq[k] = s0
        BY <2>3, <2>6, <4>1 DEF KingPut
      <4> QED BY <2>2, <2>4, <3>1, <4>2
    <3>2. CASE token # King(k)
      <4>1. s # s0 /\ m[s] = King(k)
        BY <2>4, <3>2
      <4>2. m[c.pos.kingSq[k]] = King(k)
        BY <1>3, <4>1 DEF Anchored, m
      <4>3. ~(token.kind = "King" /\ token.color = k)
        BY <2>1, <3>2, Pieces1 DEF King
      <4>4. q.kingSq[k] = c.pos.kingSq[k] /\ c.pos.kingSq[k] \in Square
        BY <2>3, <2>6, <4>3 DEF KingPut
      <4>5. c.pos.kingSq[k] # s0
        BY <2>5, <4>2, Pieces1
      <4> QED BY <2>4, <4>2, <4>4, <4>5
    <3> QED BY <3>1, <3>2
  <2>9. PawnInv(q)
    <3> SUFFICES ASSUME NEW s \in Square, q.mailbox[s].kind = "Pawn" PROVE Rank(s) \in 1..6
      BY DEF PawnInv
    <3>1. CASE s = s0
      BY <2>1, <2>2, <2>4, <3>1
    <3>2. CASE s # s0
      BY <1>3, <2>4, <3>2 DEF PawnInv, m
    <3> QED BY <3>1, <3>2
  <2> QED BY <2>7, <2>8, <2>9 DEF q
<1> QED BY <1>4, <1>5

LEMMA RankRead ==
  ASSUME NEW c \in Cursor, NEW n \in Nat, NEW tokens \in [1..n -> Token], NEW rank \in 0..7,
         NEW d, d = PlaceRank(c, tokens, rank)
  PROVE  /\ d \in Cursor
         /\ d.err = "None" => c.err = "None"
         /\ (d.err = "None" /\ Unread(c.pos, rank, 0) /\ Anchored(c.pos) /\ PawnInv(c.pos))
               => Unread(d.pos, rank, 8) /\ Anchored(d.pos) /\ PawnInv(d.pos)
<1> DEFINE start == [c EXCEPT !.file = 0]
           read == TokensRead(start, tokens, rank)
<1>1. d = IF read.err = "None" /\ read.file # 8 THEN [read EXCEPT !.err = "BadPiecePlacement"] ELSE read
  BY PlaceRankIs
<1>2. start \in Cursor /\ start.err = c.err /\ start.pos = c.pos /\ start.file = 0
  <2>1. c \in [pos : Shape, file : 0..8, err : CursorErr] /\ Sound(c.pos)
    BY DEF Cursor
  <2>2. start \in [pos : Shape, file : 0..8, err : CursorErr] /\ start.pos = c.pos /\ start.file = 0 /\ start.err = c.err
    BY <2>1
  <2> HIDE DEF start
  <2> QED BY <2>1, <2>2 DEF Cursor
<1>6. read = TokensRead(start, tokens, rank)
  OBVIOUS
<1> HIDE DEF start, read
<1>3. PICK h \in [0..n -> Cursor] :
        /\ h[0] = start /\ h[n] = read
        /\ \A k \in 1..n : h[k] = PlaceToken(h[k - 1], tokens[k], rank)
  <2>1. \E h \in [0..n -> Cursor] : ReadBy(h, n, start, tokens, rank)
    BY <1>2, TokenByToken
  <2> QED BY <2>1, <1>6 DEF ReadBy
<1> DEFINE Good == {k \in 0..n : /\ Reading(start, rank) => Reading(h[k], rank)
                                 /\ h[k].err = "None" => c.err = "None"}
<1>4. \A k \in 0..n : k \in Good
  <2>1. 0 \in Good
    BY <1>2, <1>3
  <2>2. \A k \in 1..n : k - 1 \in Good => k \in Good
    <3> SUFFICES ASSUME NEW k \in 1..n, k - 1 \in Good PROVE k \in Good
      OBVIOUS
    <3> DEFINE b == h[k - 1]
               e == h[k]
               t == tokens[k]
    <3>1. b \in Cursor /\ t \in Token /\ e = PlaceToken(b, t, rank)
      BY <1>3
    <3>2. (Reading(start, rank) => Reading(b, rank)) /\ (b.err = "None" => c.err = "None")
      OBVIOUS
    <3>3. (/\ Reading(start, rank) => Reading(e, rank)
           /\ e.err = "None" => c.err = "None") => k \in Good
      OBVIOUS
    <3> HIDE DEF b, e, t, Good
    <3>4. e.err = "None" => b.err = "None"
      BY <3>1, TokenPlaced
    <3>5. Reading(b, rank) => Reading(e, rank)
      BY <3>1, TokenReading
    <3> QED BY <3>2, <3>3, <3>4, <3>5
  <2> HIDE DEF Good
  <2> QED BY <2>1, <2>2, UpTo
<1>5. read \in Cursor /\ (Reading(start, rank) => Reading(read, rank)) /\ (read.err = "None" => c.err = "None")
  BY <1>3, <1>4
<1>9. Unread(c.pos, rank, 0) /\ Anchored(c.pos) /\ PawnInv(c.pos) => Reading(start, rank)
  BY <1>2 DEF Reading
<1>7. CASE read.err = "None" /\ read.file # 8
  <2>1. read \in [pos : Shape, file : 0..8, err : CursorErr] /\ Sound(read.pos)
    BY <1>5 DEF Cursor
  <2>2. d \in [pos : Shape, file : 0..8, err : CursorErr] /\ d.pos = read.pos /\ d.err # "None"
    BY <1>1, <1>7, <2>1 DEF CursorErr
  <2> QED BY <2>1, <2>2 DEF Cursor
<1>8. CASE ~(read.err = "None" /\ read.file # 8)
  <2>1. d = read
    BY <1>1, <1>8
  <2> QED BY <1>5, <1>8, <1>9, <2>1 DEF Reading
<1> QED BY <1>7, <1>8

\* The eight ranks, from the eighth.
RanksFold(g, start, ranks) ==
  g = [s \in SUBSET DOMAIN [i \in 1..8 |-> i] |->
         IF s = {} THEN start
         ELSE PlaceRank(g[s \ {Max(s)}], ranks[[i \in 1..8 |-> i][Max(s)]], 8 - [i \in 1..8 |-> i][Max(s)])]
RanksRead(start, ranks) == (CHOOSE g : RanksFold(g, start, ranks))[DOMAIN [i \in 1..8 |-> i]]

LEMMA FoldRanksIs ==
  ASSUME NEW start, NEW ranks
  PROVE  FoldLeft(LAMBDA c, i : PlaceRank(c, ranks[i], 8 - i), start, [i \in 1..8 |-> i]) = RanksRead(start, ranks)
BY DEF FoldLeft, MapThenFoldSet, RanksFold, RanksRead

LEMMA PlacementIs ==
  ASSUME NEW ranks, Len(ranks) = 8, NEW start, start = [pos |-> EmptyPosition, file |-> 0, err |-> "None"]
  PROVE  ParsePlacement(ranks) = RanksRead(start, ranks)
<1>1. FoldLeft(LAMBDA c, i : PlaceRank(c, ranks[i], 8 - i), start, [i \in 1..8 |-> i]) = RanksRead(start, ranks)
  BY Zenon, FoldRanksIs
<1> QED BY Zenon, <1>1 DEF ParsePlacement

RanksBy(h, start, ranks) ==
  /\ h[0] = start /\ h[8] = RanksRead(start, ranks)
  /\ \A k \in 1..8 : h[k] = PlaceRank(h[k - 1], ranks[k], 8 - k)

LEMMA RankByRank ==
  ASSUME NEW ranks \in [1..8 -> Seq(Token)], NEW start \in Cursor
  PROVE  \E h \in [0..8 -> Cursor] : RanksBy(h, start, ranks)
<1> DEFINE n == 8
           step == [x \in 1..n |-> [c \in Cursor |-> PlaceRank(c, ranks[x], 8 - x)]]
           pick == [s \in SUBSET (1..n) |-> Max(s)]
           seq == [i \in 1..8 |-> i]
           g == CHOOSE g : RanksFold(g, start, ranks)
           h == [k \in 0..n |-> g[1..k]]
<1>0. DOMAIN seq = 1..n /\ \A x \in 1..n : seq[x] = x
  OBVIOUS
<1>n. n \in Nat /\ n = 8
  OBVIOUS
<1>m. n \in Nat
  OBVIOUS
<1>h. h = [k \in 0..n |-> g[1..k]]
  OBVIOUS
<1> HIDE DEF n, h, seq
<1>r. \A x \in 1..n, c \in Cursor : PlaceRank(c, ranks[x], 8 - x) \in Cursor
  <2> SUFFICES ASSUME NEW x \in 1..n, NEW c \in Cursor PROVE PlaceRank(c, ranks[x], 8 - x) \in Cursor
    OBVIOUS
  <2> DEFINE tokens == ranks[x]
             d == PlaceRank(c, tokens, 8 - x)
  <2>1. tokens \in Seq(Token) /\ 8 - x \in 0..7 /\ d = PlaceRank(c, tokens, 8 - x)
    BY <1>n
  <2> HIDE DEF tokens, d
  <2>2. Len(tokens) \in Nat /\ tokens \in [1..Len(tokens) -> Token]
    BY <2>1, LenProperties
  <2>3. d \in Cursor
    BY <2>1, <2>2, RankRead
  <2> QED BY <2>3 DEF d, tokens
<1>1. RanksFold(g, start, ranks)
  <2>1. \A x \in 1..n, c \in Cursor : step[x][c] \in Cursor
    BY <1>r
  <2>2. PICK f \in [SUBSET (1..n) -> Cursor] : FoldOf(f, start, step, pick, 1..n)
    <3> HIDE DEF step
    <3> QED BY Zenon, <1>n, <2>1, LeftFold
  <2>3. f = [s \in SUBSET (1..n) |-> IF s = {} THEN start ELSE step[pick[s]][f[s \ {pick[s]}]]]
    BY Zenon, <2>2 DEF FoldOf
  <2>4. \A s \in SUBSET (1..n) : s # {} =>
          step[pick[s]][f[s \ {pick[s]}]] = PlaceRank(f[s \ {Max(s)}], ranks[seq[Max(s)]], 8 - seq[Max(s)])
    <3> SUFFICES ASSUME NEW s \in SUBSET (1..n), s # {}
                 PROVE  step[pick[s]][f[s \ {pick[s]}]] = PlaceRank(f[s \ {Max(s)}], ranks[seq[Max(s)]], 8 - seq[Max(s)])
      OBVIOUS
    <3>1. Max(s) \in s
      BY <1>m, MaxIn
    <3>2. seq[Max(s)] = Max(s) /\ pick[s] = Max(s) /\ f[s \ {Max(s)}] \in Cursor
      BY Zenon, <1>0, <2>2, <3>1
    <3> QED BY <3>1, <3>2
  <2>5. f = [s \in SUBSET (1..n) |-> IF s = {} THEN start
                                     ELSE PlaceRank(f[s \ {Max(s)}], ranks[seq[Max(s)]], 8 - seq[Max(s)])]
    <3> HIDE DEF step, pick
    <3> QED BY Zenon, <2>3, <2>4
  <2>6. RanksFold(f, start, ranks)
    <3>1. f = [s \in SUBSET DOMAIN seq |-> IF s = {} THEN start
                                     ELSE PlaceRank(f[s \ {Max(s)}], ranks[seq[Max(s)]], 8 - seq[Max(s)])]
      BY <1>0, <2>5
    <3> QED BY <3>1 DEF RanksFold, seq
  <2> QED BY <2>6
<1> HIDE DEF g
<1>2. \A s \in SUBSET (1..n) :
        g[s] = IF s = {} THEN start ELSE PlaceRank(g[s \ {Max(s)}], ranks[seq[Max(s)]], 8 - seq[Max(s)])
  <2>1. g = [s \in SUBSET DOMAIN seq |-> IF s = {} THEN start
                                     ELSE PlaceRank(g[s \ {Max(s)}], ranks[seq[Max(s)]], 8 - seq[Max(s)])]
    BY <1>1 DEF RanksFold, seq
  <2> QED BY <1>0, <2>1
<1>3. h[0] = start
  <2>1. g[{}] = start
    BY <1>2
  <2>2. 1..0 = {} /\ 0 \in 0..n
    BY <1>n
  <2> QED BY <1>h, <2>1, <2>2
<1>4. \A k \in 1..n : h[k] = PlaceRank(h[k - 1], ranks[k], 8 - k)
  <2> SUFFICES ASSUME NEW k \in 1..n PROVE g[1..k] = PlaceRank(g[1..(k - 1)], ranks[k], 8 - k)
    BY <1>m, <1>h
  <2> DEFINE s == 1..k
  <2>1. s \in SUBSET (1..n) /\ s # {} /\ Max(s) = k /\ s \ {Max(s)} = 1..(k - 1)
    <3>1. k \in Nat /\ k # 0
      BY <1>m
    <3>2. Max(1..k) = k /\ (1..k) \ {Max(1..k)} = 1..(k - 1)
      BY <3>1, MaxPrefix
    <3>3. k <= n /\ k \in 1..k
      BY <1>m
    <3>4. 1..k \subseteq 1..n /\ 1..k # {}
      <4>1. 1..k # {}
        BY <3>3
      <4>2. ASSUME NEW x \in 1..k PROVE x \in 1..n
        BY <1>m, <3>1, <3>3
      <4> QED BY <4>1, <4>2
    <3> QED BY <3>2, <3>4
  <2> HIDE DEF s
  <2>2. g[s] = PlaceRank(g[s \ {Max(s)}], ranks[seq[Max(s)]], 8 - seq[Max(s)])
    BY <1>2, <2>1
  <2> QED BY <1>0, <2>1, <2>2 DEF s
<1>5. h[n] = RanksRead(start, ranks)
  <2>1. h[n] = g[1..n]
    BY <1>h, <1>m
  <2>2. RanksRead(start, ranks) = g[DOMAIN seq]
    BY DEF RanksRead, g, seq
  <2> QED BY <1>0, <2>1, <2>2
<1>6. h \in [0..n -> Cursor]
  <2> DEFINE Good == {k \in 0..n : h[k] \in Cursor}
  <2>1. 0 \in Good
    BY <1>3, <1>n
  <2>2. \A k \in 1..n : k - 1 \in Good => k \in Good
    <3> SUFFICES ASSUME NEW k \in 1..n, h[k - 1] \in Cursor PROVE h[k] \in Cursor
      BY <1>m
    <3> QED BY <1>4, <1>r
  <2>3. \A k \in 0..n : k \in Good
    <3> HIDE DEF Good
    <3> QED BY <1>n, <2>1, <2>2, UpTo
  <2> QED BY <1>h, <2>3
<1> QED BY <1>n, <1>3, <1>4, <1>5, <1>6 DEF RanksBy

LEMMA EmptyBoard ==
  /\ EmptyPosition \in Shape /\ Sound(EmptyPosition)
  /\ Unread(EmptyPosition, 7, 0) /\ Anchored(EmptyPosition) /\ PawnInv(EmptyPosition)
<1> DEFINE p == EmptyPosition
<1>1. /\ p.pieceBb = [k \in PieceKind |-> {}] /\ p.colorBb = [c \in Color |-> {}]
      /\ p.mailbox = [s \in Square |-> NoPiece]
  BY DEF EmptyPosition
<1>2. 0 \in 0..HalfmoveMax /\ 1 \in 0..(FullmoveSpan - 1)
  BY DEF HalfmoveMax, FullmoveSpan
<1>3. {} \in Keys /\ A1 \in Square /\ NoSquare \in Square \cup {NoSquare} /\ "White" \in Color /\ Zero \in Int \X Int
  BY DEF Keys, A1, Square, Color, Zero
<1>4. p \in Shape
  BY <1>2, <1>3 DEF EmptyPosition, Shape
<1>5. BoardInv(p)
  BY <1>1, Pieces1 DEF BoardInv
<1>6. Unread(p, 7, 0)
  BY <1>1 DEF Unread
<1>7. Anchored(p)
  BY <1>1 DEF Anchored, King, NoPiece
<1>8. PawnInv(p)
  BY <1>1 DEF PawnInv, NoPiece
<1> QED BY <1>4, <1>5, <1>6, <1>7, <1>8 DEF Sound

LEMMA PlacementRead ==
  ASSUME NEW ranks \in Seq(Seq(Token)), NEW d, d = ParsePlacement(ranks)
  PROVE  d.err = "None" => Sound(d.pos) /\ Anchored(d.pos) /\ PawnInv(d.pos)
<1>1. CASE Len(ranks) # 8
  BY <1>1 DEF ParsePlacement
<1>2. CASE Len(ranks) = 8
  <2> DEFINE start == [pos |-> EmptyPosition, file |-> 0, err |-> "None"]
  <2>1. start \in Cursor /\ start.pos = EmptyPosition
    <3>1. start \in [pos : Shape, file : 0..8, err : CursorErr]
      BY EmptyBoard DEF CursorErr
    <3> QED BY <3>1, EmptyBoard DEF Cursor
  <2>2. ranks \in [1..8 -> Seq(Token)]
    BY <1>2, LenProperties
  <2>3. d = RanksRead(start, ranks)
    BY <1>2, PlacementIs
  <2> HIDE DEF start
  <2>4. PICK h \in [0..8 -> Cursor] :
          /\ h[0] = start /\ h[8] = d
          /\ \A k \in 1..8 : h[k] = PlaceRank(h[k - 1], ranks[k], 8 - k)
    <3>1. \E h \in [0..8 -> Cursor] : RanksBy(h, start, ranks)
      BY <2>1, <2>2, RankByRank
    <3> QED BY <2>3, <3>1 DEF RanksBy
  <2> DEFINE n == 8
             Fine(c, k) == c.err = "None" => Unread(c.pos, 7 - k, 0) /\ Anchored(c.pos) /\ PawnInv(c.pos)
             Good == {k \in 0..n : Fine(h[k], k)}
  <2>5. n \in Nat /\ n = 8
    OBVIOUS
  <2>m. n \in Nat
    OBVIOUS
  <2> HIDE DEF n
  <2>h. /\ h \in [0..n -> Cursor] /\ ranks \in [1..n -> Seq(Token)]
        /\ \A k \in 1..n : h[k] = PlaceRank(h[k - 1], ranks[k], 8 - k)
    BY <2>2, <2>4, <2>5
  <2>6. 0 \in Good
    BY <2>1, <2>4, <2>5, EmptyBoard
  <2>7. \A k \in 1..n : k - 1 \in Good => k \in Good
    <3> SUFFICES ASSUME NEW k \in 1..n, k - 1 \in Good PROVE Fine(h[k], k)
      BY <2>m
    <3> DEFINE b == h[k - 1]
               e == h[k]
               tokens == ranks[k]
               rank == 8 - k
    <3>1. /\ b \in Cursor /\ e \in Cursor /\ tokens \in Seq(Token) /\ rank \in 0..7
          /\ rank = 7 - (k - 1) /\ rank - 1 = 7 - k /\ e = PlaceRank(b, tokens, rank)
      <4>1. b \in Cursor /\ e \in Cursor /\ tokens \in Seq(Token) /\ e = PlaceRank(b, tokens, rank)
        <5>1. k - 1 \in 0..n /\ k \in 0..n
          BY <2>m
        <5>2. e = PlaceRank(b, tokens, rank)
          BY <2>h
        <5> HIDE DEF rank
        <5> QED BY <2>h, <5>1, <5>2
      <4>2. k \in 1..8
        BY <2>5
      <4>3. rank \in 0..7 /\ rank = 7 - (k - 1) /\ rank - 1 = 7 - k
        BY <4>2
      <4> QED BY <4>1, <4>3
    <3>2. b.err = "None" => Unread(b.pos, rank, 0) /\ Anchored(b.pos) /\ PawnInv(b.pos)
      <4>1. Fine(h[k - 1], k - 1)
        OBVIOUS
      <4> QED BY <3>1, <4>1
    <3> HIDE DEF tokens, b, e, rank
    <3>3. Len(tokens) \in Nat /\ tokens \in [1..Len(tokens) -> Token]
      BY <3>1, LenProperties
    <3>4. /\ e.err = "None" => b.err = "None"
          /\ (e.err = "None" /\ Unread(b.pos, rank, 0) /\ Anchored(b.pos) /\ PawnInv(b.pos))
               => Unread(e.pos, rank, 8) /\ Anchored(e.pos) /\ PawnInv(e.pos)
      <4>1. b \in Cursor /\ rank \in 0..7 /\ e = PlaceRank(b, tokens, rank)
        BY <3>1
      <4> DEFINE i == Len(tokens)
      <4>2. i \in Nat /\ tokens \in [1..i -> Token]
        BY <3>3
      <4> HIDE DEF i
      <4> QED BY <4>1, <4>2, RankRead
    <3>5. Unread(e.pos, rank, 8) => Unread(e.pos, rank - 1, 0)
      <4> SUFFICES ASSUME Unread(e.pos, rank, 8), NEW s \in Square,
                          Rank(s) < rank - 1 \/ (Rank(s) = rank - 1 /\ File(s) >= 0)
                   PROVE  e.pos.mailbox[s] = NoPiece
        BY DEF Unread
      <4>1. Rank(s) \in 0..7
        BY OnTheBoard
      <4>2. Rank(s) < rank
        BY <3>1, <4>1
      <4> QED BY <4>2 DEF Unread
    <3>6. e.err = "None" => Unread(e.pos, 7 - k, 0) /\ Anchored(e.pos) /\ PawnInv(e.pos)
      BY <3>1, <3>2, <3>4, <3>5
    <3> QED BY <3>6 DEF e
  <2>8. \A k \in 0..n : k \in Good
    <3> HIDE DEF Good
    <3> QED BY <2>5, <2>6, <2>7, UpTo
  <2>9. h[8] \in Cursor /\ 8 \in Good
    BY <2>5, <2>8
  <2> QED BY <2>4, <2>9 DEF Cursor
<1> QED BY <1>1, <1>2

-----------------------------------------------------------------------------
\* The values that a full computation gives have their types.
LEMMA FoldStays ==
  ASSUME NEW C, NEW S, IsFiniteSet(S), NEW pick, \A s \in SUBSET S : s # {} => pick[s] \in s,
         NEW g, g[{}] \in C, \A s \in SUBSET S : s # {} /\ g[s \ {pick[s]}] \in C => g[s] \in C
  PROVE  g[S] \in C
<1> DEFINE Bad == {s \in SUBSET S : g[s] \notin C}
<1> SUFFICES ASSUME Bad # {} PROVE FALSE
  BY S \in SUBSET S
<1>0. Bad \in SUBSET SUBSET S
  OBVIOUS
<1>1. PICK s \in Bad : \A u \in Bad : u \subseteq s => u = s
  <2> HIDE DEF Bad
  <2> QED BY <1>0, SmallestSet
<1>2. s \in SUBSET S /\ s # {} /\ g[s] \notin C
  BY <1>1
<1>3. pick[s] \in s /\ s \ {pick[s]} \in SUBSET S /\ s \ {pick[s]} # s
  BY <1>2
<1>4. g[s \ {pick[s]}] \in C
  BY <1>1, <1>3
<1> QED BY <1>2, <1>4

SquareScore(p, s) == Psqt[p.mailbox[s].color][p.mailbox[s].kind][s]
ScoreFold(g, p) ==
  g = [s \in SUBSET OccupiedAll(p) |->
         IF s = {} THEN Zero ELSE Plus(SquareScore(p, CHOOSE x \in s : TRUE), g[s \ {CHOOSE x \in s : TRUE}])]
PhaseFold(g, p) ==
  g = [s \in SUBSET OccupiedAll(p) |->
         IF s = {} THEN 0 ELSE PhaseDelta[p.mailbox[CHOOSE x \in s : TRUE].kind] + g[s \ {CHOOSE x \in s : TRUE}]]

LEMMA ScoreIs ==
  ASSUME NEW p
  PROVE  ScoreFromScratch(p) = (CHOOSE g : ScoreFold(g, p))[OccupiedAll(p)]
BY DEF ScoreFromScratch, Total, FoldSet, MapThenFoldSet, ScoreFold, SquareScore

LEMMA PhaseIs ==
  ASSUME NEW p
  PROVE  PhaseFromScratch(p) = (CHOOSE g : PhaseFold(g, p))[OccupiedAll(p)]
BY DEF PhaseFromScratch, MapThenSumSet, MapThenFoldSet, PhaseFold

LEMMA OccupiedIs ==
  ASSUME NEW p, Sound(p)
  PROVE  /\ IsFiniteSet(OccupiedAll(p))
         /\ \A s \in OccupiedAll(p) : /\ s \in Square /\ p.mailbox[s].color \in Color /\ p.mailbox[s].kind \in PieceKind
<1>1. p.colorBb \in [Color -> SUBSET Square] /\ p.mailbox \in [Square -> Piece \cup {NoPiece}]
  BY DEF Sound, Shape
<1>2. OccupiedAll(p) \subseteq Square
  BY <1>1 DEF OccupiedAll, Color
<1>3. IsFiniteSet(Square)
  <2> DEFINE a == 0
             b == 63
  <2>1. a \in Int /\ b \in Int /\ Square = a..b
    BY DEF Square
  <2> HIDE DEF a, b
  <2> QED BY <2>1, FS_Interval
<1>4. \A s \in OccupiedAll(p) : p.mailbox[s].color \in Color
  BY <1>1, <1>2 DEF Sound, BoardInv, OccupiedAll, Color
<1>5. \A s \in OccupiedAll(p) : p.mailbox[s].kind \in PieceKind
  BY <1>1, <1>2, <1>4, Pieces1
<1> QED BY <1>2, <1>3, <1>4, <1>5, FS_Subset

LEMMA ScoreTyped ==
  ASSUME NEW p, Sound(p)
  PROVE  ScoreFromScratch(p) \in Int \X Int /\ PhaseFromScratch(p) \in Int
<1> DEFINE S == OccupiedAll(p)
           C == Int \X Int
           pick == [s \in SUBSET S |-> CHOOSE x \in s : TRUE]
<1>1. IsFiniteSet(S) /\ \A s \in S : s \in Square /\ p.mailbox[s].color \in Color /\ p.mailbox[s].kind \in PieceKind
  BY OccupiedIs
<1>2. \A x \in S : SquareScore(p, x) \in C /\ PhaseDelta[p.mailbox[x].kind] \in Int
  BY <1>1, TablesAreScores DEF SquareScore
<1>3. \A s \in SUBSET S : pick[s] = CHOOSE x \in s : TRUE
  OBVIOUS
<1>4. \A s \in SUBSET S : s # {} => pick[s] \in s
  OBVIOUS
<1>5. S = OccupiedAll(p)
  OBVIOUS
<1> HIDE DEF S, pick
<1>6. ScoreFromScratch(p) \in C
  <2> DEFINE step == [x \in S |-> [c \in C |-> Plus(SquareScore(p, x), c)]]
  <2>1. \A x \in S, c \in C : step[x][c] \in C
    BY <1>2, ScoresAdd
  <2>2. Foldable(C, Zero, step, pick, S)
    <3> HIDE DEF C, step
    <3>1. Zero \in C
      BY ScoresAdd DEF C
    <3> QED BY <1>1, <1>4, <2>1, <3>1 DEF Foldable
  <2>3. PICK f \in [SUBSET S -> C] : FoldOf(f, Zero, step, pick, S)
    <3> HIDE DEF C, step
    <3> QED BY <2>2, FoldsExist
  <2>4. \A s \in SUBSET S : s # {} => step[pick[s]][f[s \ {pick[s]}]] = Plus(SquareScore(p, CHOOSE x \in s : TRUE), f[s \ {CHOOSE x \in s : TRUE}])
    <3> HIDE DEF C
    <3> QED BY Zenon, <1>3, <1>4, <2>3
  <2>5. f = [s \in SUBSET S |-> IF s = {} THEN Zero ELSE Plus(SquareScore(p, CHOOSE x \in s : TRUE), f[s \ {CHOOSE x \in s : TRUE}])]
    <3>1. f = [s \in SUBSET S |-> IF s = {} THEN Zero ELSE step[pick[s]][f[s \ {pick[s]}]]]
      BY <2>3 DEF FoldOf
    <3> HIDE DEF step, C
    <3> QED BY Zenon, <2>4, <3>1
  <2>6. ScoreFold(f, p)
    BY <1>5, <2>5 DEF ScoreFold
  <2> DEFINE g == CHOOSE g : ScoreFold(g, p)
  <2>7. ScoreFold(g, p) /\ ScoreFromScratch(p) = g[S]
    BY <1>5, <2>6, ScoreIs
  <2> HIDE DEF g, step
  <2>8. \A s \in SUBSET S : g[s] = IF s = {} THEN Zero ELSE Plus(SquareScore(p, CHOOSE x \in s : TRUE), g[s \ {CHOOSE x \in s : TRUE}])
    BY <1>5, <2>7 DEF ScoreFold
  <2>9. g[{}] = Zero
    BY <2>8
  <2>10. \A s \in SUBSET S : s # {} => g[s] = Plus(SquareScore(p, pick[s]), g[s \ {pick[s]}])
    BY <1>3, <2>8
  <2>11. \A s \in SUBSET S : s # {} /\ g[s \ {pick[s]}] \in C => g[s] \in C
    <3> SUFFICES ASSUME NEW s \in SUBSET S, s # {}, g[s \ {pick[s]}] \in C PROVE g[s] \in C
      OBVIOUS
    <3>1. pick[s] \in S
      BY <1>4
    <3>2. SquareScore(p, pick[s]) \in C
      BY <1>2, <3>1
    <3>3. g[s] = Plus(SquareScore(p, pick[s]), g[s \ {pick[s]}])
      BY <2>10
    <3> QED BY <3>2, <3>3, ScoresAdd
  <2>12. g[{}] \in C
    BY <2>9, ScoresAdd
  <2>13. g[S] \in C
    <3> HIDE DEF C
    <3> QED BY <1>1, <1>4, <2>11, <2>12, FoldStays
  <2> QED BY <2>7, <2>13
<1>7. PhaseFromScratch(p) \in Int
  <2> DEFINE step == [x \in S |-> [c \in Int |-> PhaseDelta[p.mailbox[x].kind] + c]]
  <2>1. \A x \in S, c \in Int : step[x][c] \in Int
    BY <1>2
  <2>2. Foldable(Int, 0, step, pick, S)
    <3> HIDE DEF step
    <3> QED BY <1>1, <1>4, <2>1 DEF Foldable
  <2>3. PICK f \in [SUBSET S -> Int] : FoldOf(f, 0, step, pick, S)
    <3> HIDE DEF step
    <3> QED BY <2>2, FoldsExist
  <2>4. \A s \in SUBSET S : s # {} => step[pick[s]][f[s \ {pick[s]}]] = PhaseDelta[p.mailbox[CHOOSE x \in s : TRUE].kind] + f[s \ {CHOOSE x \in s : TRUE}]
    BY Zenon, <1>3, <1>4, <2>3
  <2>5. f = [s \in SUBSET S |-> IF s = {} THEN 0 ELSE PhaseDelta[p.mailbox[CHOOSE x \in s : TRUE].kind] + f[s \ {CHOOSE x \in s : TRUE}]]
    <3>1. f = [s \in SUBSET S |-> IF s = {} THEN 0 ELSE step[pick[s]][f[s \ {pick[s]}]]]
      BY Zenon, <2>3 DEF FoldOf
    <3> HIDE DEF step
    <3> QED BY Zenon, <2>4, <3>1
  <2>6. PhaseFold(f, p)
    BY <1>5, <2>5 DEF PhaseFold
  <2> DEFINE g == CHOOSE g : PhaseFold(g, p)
  <2>7. PhaseFold(g, p) /\ PhaseFromScratch(p) = g[S]
    BY <1>5, <2>6, PhaseIs
  <2> HIDE DEF g, step
  <2>8. \A s \in SUBSET S : g[s] = IF s = {} THEN 0 ELSE PhaseDelta[p.mailbox[CHOOSE x \in s : TRUE].kind] + g[s \ {CHOOSE x \in s : TRUE}]
    BY <1>5, <2>7 DEF PhaseFold
  <2>9. g[{}] = 0
    BY <2>8
  <2>10. \A s \in SUBSET S : s # {} => g[s] = PhaseDelta[p.mailbox[pick[s]].kind] + g[s \ {pick[s]}]
    BY <1>3, <2>8
  <2>11. \A s \in SUBSET S : s # {} /\ g[s \ {pick[s]}] \in Int => g[s] \in Int
    <3> SUFFICES ASSUME NEW s \in SUBSET S, s # {}, g[s \ {pick[s]}] \in Int PROVE g[s] \in Int
      OBVIOUS
    <3>1. pick[s] \in S
      BY <1>4
    <3>2. PhaseDelta[p.mailbox[pick[s]].kind] \in Int
      BY <1>2, <3>1
    <3>3. g[s] = PhaseDelta[p.mailbox[pick[s]].kind] + g[s \ {pick[s]}]
      BY <2>10
    <3> QED BY <3>2, <3>3
  <2>12. g[{}] \in Int
    BY <2>9
  <2>13. g[S] \in Int
    BY <1>1, <1>4, <2>11, <2>12, FoldStays
  <2> QED BY <2>7, <2>13
<1> QED BY <1>6, <1>7

LEMMA KeysTyped ==
  ASSUME NEW p, Sound(p)
  PROVE  FromScratch(p) \in Keys /\ PawnZobristFromScratch(p) \in Keys
<1>1. /\ p.mailbox \in [Square -> Piece \cup {NoPiece}] /\ p.castling \subseteq Right /\ p.ep \in Square \cup {NoSquare}
      /\ p.pieceBb \in [PieceKind -> SUBSET Square] /\ p.colorBb \in [Color -> SUBSET Square]
  BY DEF Sound, Shape
<1>2. \A A, B : A \in Keys /\ B \in Keys => A \cup B \in Keys
  BY DEF Keys
<1>3. {PieceKey(p.mailbox[s], s) : s \in {s \in Square : p.mailbox[s] # NoPiece}} \in Keys
  <2>1. \A s \in Square : {PieceKey(p.mailbox[s], s)} \in Keys
    <3> SUFFICES ASSUME NEW s \in Square PROVE {PieceKey(p.mailbox[s], s)} \in Keys
      OBVIOUS
    <3>1. s \in Int /\ p.mailbox[s] \in Piece \cup {NoPiece}
      BY <1>1 DEF Square
    <3> QED BY <3>1, KeysAreKeys
  <2>2. \A s \in Square : PieceKey(p.mailbox[s], s) \in KeyWord \X KeyPart \X Int
    BY <2>1 DEF Keys
  <2> QED BY <2>2 DEF Keys
<1>4. {CastlingKey(r) : r \in p.castling} \in Keys /\ EpKeys(EpFileToHash(p)) \in Keys /\ {TurnKey} \in Keys /\ {} \in Keys
  <2>1. {} \in Keys
    BY DEF Keys
  <2> QED BY <1>1, <2>1, KeysAreKeys, FileIsInt
<1>5. FromScratch(p) \in Keys
  <2> DEFINE A == {PieceKey(p.mailbox[s], s) : s \in {s \in Square : p.mailbox[s] # NoPiece}}
             B == {CastlingKey(r) : r \in p.castling}
             D == EpKeys(EpFileToHash(p))
             E == IF p.side = "White" THEN {TurnKey} ELSE {}
  <2>1. FromScratch(p) = A \cup B \cup D \cup E
    BY DEF FromScratch
  <2>2. A \in Keys /\ B \in Keys /\ D \in Keys /\ E \in Keys
    BY <1>3, <1>4
  <2> HIDE DEF A, B, D, E
  <2> QED BY <1>2, <2>1, <2>2
<1>6. PawnZobristFromScratch(p) \in Keys
  <2>1. \A c \in Color, s \in Square : PieceKey([color |-> c, kind |-> "Pawn"], s) \in KeyWord \X KeyPart \X Int
    <3>1. \A c \in Color, s \in Square : {PieceKey([color |-> c, kind |-> "Pawn"], s)} \in Keys
      <4>1. \A c \in Color : [color |-> c, kind |-> "Pawn"] \in Piece
        BY DEF Piece, PieceKind
      <4> QED BY <4>1, KeysAreKeys DEF Square
    <3> QED BY Zenon, <3>1 DEF Keys
  <2>2. \A c \in Color : Pieces(p, c, "Pawn") \subseteq Square
    BY <1>1 DEF Pieces, PieceKind
  <2>3. \A c \in Color : {PieceKey([color |-> c, kind |-> "Pawn"], s) : s \in Pieces(p, c, "Pawn")}
                           \subseteq KeyWord \X KeyPart \X Int
    BY <2>1, <2>2
  <2>4. PawnZobristFromScratch(p) \subseteq KeyWord \X KeyPart \X Int
    BY <2>3 DEF PawnZobristFromScratch
  <2> QED BY <2>4 DEF Keys
<1> QED BY <1>5, <1>6

LEMMA Refreshed ==
  ASSUME NEW p, Sound(p), NEW q, q = Refresh(p)
  PROVE  /\ Sound(q) /\ q.mailbox = p.mailbox /\ q.kingSq = p.kingSq /\ q.side = p.side
         /\ q.castling = p.castling /\ q.ep = p.ep /\ q.halfmove = p.halfmove /\ q.fullmove = p.fullmove
<1> DEFINE z == FromScratch(p)
           pz == PawnZobristFromScratch(p)
           score == ScoreFromScratch(p)
           phase == PhaseFromScratch(p)
<1>1. z \in Keys /\ pz \in Keys /\ score \in Int \X Int /\ phase \in Int
  BY KeysTyped, ScoreTyped
<1>2. q = Valued(p, z, pz, score, phase)
  BY DEF Refresh, Valued
<1> HIDE DEF z, pz, score, phase
<1> QED BY <1>1, <1>2, ValuedIs

LEMMA EpSanitized ==
  ASSUME NEW b, Sound(b), NEW side \in Color, NEW ep \in Square \cup {NoSquare}, ep = NoSquare \/ Rank(ep) \in {2, 5},
         NEW q, q.mailbox = b.mailbox, q.side = side, q.ep = SanitizeEp(b, side, ep)
  PROVE  q.ep \in Square \cup {NoSquare} /\ EpInv(q)
<1>1. CASE q.ep = NoSquare
  BY <1>1 DEF EpInv
<1>2. CASE q.ep # NoSquare
  <2> DEFINE expected == IF Rank(ep) = 2 THEN "Black" ELSE "White"
             rank == IF Rank(ep) = 2 THEN 3 ELSE 4
  <2>1. /\ ep # NoSquare /\ q.ep = ep /\ side = expected
        /\ b.mailbox[FromFileRank(File(ep), rank)] = Pawn(Flip(expected))
        /\ b.mailbox[ep] = NoPiece
        /\ EpCapturerExists(b, side, File(ep), rank)
    BY <1>2 DEF SanitizeEp, PieceAt, Pawn
  <2>2. ep \in Square /\ Rank(ep) \in {2, 5}
    BY <2>1
  <2>3. Rank(ep) = (IF side = "White" THEN 5 ELSE 2)
    BY <2>1, <2>2
  <2>4. /\ ep - PushStep(side) \in Square /\ Rank(ep - PushStep(side)) = rank /\ File(ep - PushStep(side)) = File(ep)
        /\ FromFileRank(File(ep), rank) = ep - PushStep(side)
    <3>1. side = "White" => PushStep(side) = 8 /\ rank = 4 /\ ep \in 40..47
      BY <2>2, <2>3 DEF PushStep, Rank, Square
    <3>2. side = "Black" => PushStep(side) = -8 /\ rank = 3 /\ ep \in 16..23
      BY <2>2, <2>3 DEF PushStep, Rank, Square
    <3>3. CASE side = "White"
      BY <3>1, <3>3 DEF Rank, File, Square, FromFileRank, OnBoard
    <3>4. CASE side = "Black"
      BY <3>2, <3>4 DEF Rank, File, Square, FromFileRank, OnBoard
    <3> QED BY <3>3, <3>4 DEF Color
  <2> HIDE DEF rank, expected
  <2>5. EpCapturerExists(q, side, File(ep), rank)
    BY <2>1 DEF EpCapturerExists, PieceAt
  <2> QED BY <2>1, <2>2, <2>3, <2>4, <2>5 DEF EpInv
<1> QED BY <1>1, <1>2

LEMMA KingsFound ==
  ASSUME NEW p, Sound(p), Anchored(p), ValidPostParse(p)
  PROVE  KingInv(p)
<1> SUFFICES ASSUME NEW s \in Square, NEW c \in Color, p.mailbox[s] = King(c) PROVE p.kingSq[c] = s
  BY DEF KingInv
<1> DEFINE K == Pieces(p, c, "King")
           k == p.kingSq[c]
<1>1. /\ p.kingSq \in [Color -> Square] /\ p.mailbox[k] = King(c)
      /\ p.colorBb \in [Color -> SUBSET Square] /\ BoardInv(p)
  BY DEF Anchored, Sound, Shape
<1>2. k \in Square /\ s \in K /\ k \in K
  BY <1>1 DEF BoardInv, Pieces, King, PieceKind
<1>3. IsFiniteSet(K)
  <2>1. K \subseteq OccupiedAll(p)
    BY DEF Pieces, OccupiedAll, Color
  <2> QED BY <2>1, OccupiedIs, FS_Subset
<1>4. Cardinality(K) = 1
  BY DEF ValidPostParse
<1> HIDE DEF K
<1>5. PICK x : K = {x}
  BY <1>3, <1>4, FS_Singleton
<1> QED BY <1>2, <1>5

\* What an accepted FEN is read as.
LEMMA Accepted ==
  ASSUME NEW fen \in FenType, Parse(fen).err = "None"
  PROVE  LET b == ParsePlacement(fen.placement).pos
             ep == SanitizeEp(b, fen.side, fen.ep)
             dressed == SetAuxState(b, fen.side, ToSet(fen.castling), ep, fen.halfmove, fen.fullmove)
         IN /\ fen.ep = NoSquare \/ Rank(fen.ep) \in {2, 5}
            /\ ValidPostParse(Refresh(dressed)) /\ Parse(fen).pos = Refresh(dressed)
            /\ Sound(b) /\ Anchored(b) /\ PawnInv(b)
            /\ Sound(dressed) /\ dressed.mailbox = b.mailbox /\ dressed.kingSq = b.kingSq
            /\ dressed.side = fen.side /\ dressed.castling = ToSet(fen.castling) /\ dressed.ep = ep
<1> DEFINE placed == ParsePlacement(fen.placement)
           b == placed.pos
           ep == SanitizeEp(b, fen.side, fen.ep)
           rights == ToSet(fen.castling)
           dressed == SetAuxState(b, fen.side, rights, ep, fen.halfmove, fen.fullmove)
           q == Refresh(dressed)
<1>1. /\ placed.err = "None" /\ (fen.ep = NoSquare \/ Rank(fen.ep) \in {2, 5})
      /\ fen.halfmove \in 0..HalfmoveMax /\ fen.fullmove \in 1..(FullmoveSpan - 1)
      /\ ValidPostParse(q) /\ Parse(fen).pos = q
  <2> HIDE DEF placed, q
  <2> QED BY DEF Parse, placed, q
<1>2. /\ fen.placement \in Seq(Seq(Token)) /\ fen.side \in Color /\ fen.castling \in Seq(Right)
      /\ fen.ep \in Square \cup {NoSquare}
  BY DEF FenType
<1>3. Sound(b) /\ Anchored(b) /\ PawnInv(b)
  <2>1. placed = ParsePlacement(fen.placement)
    OBVIOUS
  <2> HIDE DEF placed
  <2>2. Sound(placed.pos) /\ Anchored(placed.pos) /\ PawnInv(placed.pos)
    BY <1>1, <1>2, <2>1, PlacementRead
  <2> QED BY <2>2
<1> HIDE DEF placed
<1>4. rights \in SUBSET Right
  <2>1. \A i \in DOMAIN fen.castling : fen.castling[i] \in Right
    BY <1>2, LenProperties, ElementOfSeq
  <2> QED BY <2>1 DEF ToSet
<1>5. ep \in Square \cup {NoSquare}
  BY <1>2 DEF SanitizeEp
<1>6. fen.fullmove \in 0..(FullmoveSpan - 1) /\ fen.halfmove \in 0..HalfmoveMax
  <2>1. FullmoveSpan \in Int
    BY DEF FullmoveSpan
  <2>2. FullmoveSpan - 1 \in Int
    BY <2>1
  <2> QED BY <1>1, <2>2
<1>e. ep = SanitizeEp(b, fen.side, fen.ep)
  OBVIOUS
<1>d. dressed = SetAuxState(b, fen.side, rights, ep, fen.halfmove, fen.fullmove) /\ q = Refresh(dressed)
  OBVIOUS
<1> HIDE DEF b, ep, rights, dressed, q
<1>7. /\ Sound(dressed) /\ dressed.mailbox = b.mailbox /\ dressed.kingSq = b.kingSq
      /\ dressed.side = fen.side /\ dressed.castling = rights /\ dressed.ep = ep
  BY <1>2, <1>3, <1>4, <1>5, <1>6, <1>d, DressedIs
<1> QED BY <1>1, <1>3, <1>7 DEF placed, b, ep, rights, dressed, q

(***************************************************************************)
(* A position that fen::parse accepts is a legal one: its three copies of  *)
(* the board agree, there is one king a side and kingSq points at it, the  *)
(* castling rights have their king and rook, the en passant target can be  *)
(* used, and no pawn stands on a last rank.                                *)
(***************************************************************************)
THEOREM ParseLegal ==
  ASSUME NEW fen \in FenType, Parse(fen).err = "None"
  PROVE  Legal(Parse(fen).pos)
<1> DEFINE b == ParsePlacement(fen.placement).pos
           ep == SanitizeEp(b, fen.side, fen.ep)
           rights == ToSet(fen.castling)
           dressed == SetAuxState(b, fen.side, rights, ep, fen.halfmove, fen.fullmove)
           q == Refresh(dressed)
<1>1. /\ fen.ep = NoSquare \/ Rank(fen.ep) \in {2, 5}
      /\ ValidPostParse(q) /\ Parse(fen).pos = q
      /\ Sound(b) /\ Anchored(b) /\ PawnInv(b)
      /\ Sound(dressed) /\ dressed.mailbox = b.mailbox /\ dressed.kingSq = b.kingSq
      /\ dressed.side = fen.side /\ dressed.castling = rights /\ dressed.ep = ep
  BY Accepted
<1>2. fen.side \in Color /\ fen.ep \in Square \cup {NoSquare}
  BY DEF FenType
<1>e. ep = SanitizeEp(b, fen.side, fen.ep) /\ q = Refresh(dressed)
  OBVIOUS
<1> HIDE DEF b, ep, rights, dressed, q
<1>8. /\ Sound(q) /\ q.mailbox = b.mailbox /\ q.kingSq = b.kingSq
      /\ q.side = fen.side /\ q.castling = rights /\ q.ep = ep
  BY <1>1, <1>e, Refreshed
<1>9. KingInv(q)
  <2>1. Anchored(q)
    BY <1>1, <1>8 DEF Anchored
  <2> QED BY <1>1, <1>8, <2>1, KingsFound
<1>10. RightsInv(q)
  BY <1>1 DEF RightsInv, ValidPostParse, PieceAt, King, Rook
<1>11. EpInv(q)
  BY <1>1, <1>2, <1>8, <1>e, EpSanitized
<1>12. PawnInv(q)
  BY <1>1, <1>8 DEF PawnInv
<1> QED BY <1>1, <1>8, <1>9, <1>10, <1>11, <1>12 DEF Legal
-----------------------------------------------------------------------------
\* The keys of the board, of all pieces or of the pawns, change with a square
\* by the key of what stood there and the key of what stands there now.
KeyOf(kinds, piece, s) == IF piece.kind \in kinds THEN {PieceKey(piece, s)} ELSE {}
BoardKeys(kinds, m) == UNION {KeyOf(kinds, m[s], s) : s \in Square}

LEMMA KeysPut ==
  ASSUME NEW kinds, NEW m, DOMAIN m = Square, NEW s \in Square, NEW piece
  PROVE  BoardKeys(kinds, Put(m, s, piece))
           = Xor(Xor(BoardKeys(kinds, m), KeyOf(kinds, m[s], s)), KeyOf(kinds, piece, s))
<1> DEFINE Others == UNION {KeyOf(kinds, m[t], t) : t \in Square \ {s}}
           A == KeyOf(kinds, m[s], s)
           B == KeyOf(kinds, piece, s)
<1>1. BoardKeys(kinds, m) = Others \cup A
  BY DEF BoardKeys
<1>2. BoardKeys(kinds, Put(m, s, piece)) = Others \cup B
  <2> DEFINE n == Put(m, s, piece)
  <2>1. n[s] = piece /\ \A t \in Square \ {s} : n[t] = m[t]
    BY PutIs
  <2> HIDE DEF n
  <2>2. \A k : k \in BoardKeys(kinds, n) <=> \E t \in Square : k \in KeyOf(kinds, n[t], t)
    BY DEF BoardKeys
  <2>3. \A k : k \in Others <=> \E t \in Square \ {s} : k \in KeyOf(kinds, m[t], t)
    OBVIOUS
  <2> HIDE DEF Others
  <2>4. \A k : k \in BoardKeys(kinds, n) <=> k \in Others \cup B
    BY <2>1, <2>2, <2>3
  <2> HIDE DEF B
  <2> QED BY <2>4 DEF n
<1>3. \A t, x : \A k \in KeyOf(kinds, x, t) : k[3] = t
  BY DEF KeyOf, PieceKey
<1>4. Others \cap A = {} /\ Others \cap B = {}
  <2>1. \A k \in Others : k[3] # s
    BY <1>3
  <2> HIDE DEF Others
  <2> QED BY <1>3, <2>1
<1> HIDE DEF Others, A, B
<1>5. Others \cup B = Xor(Xor(Others \cup A, A), B)
  BY <1>4 DEF Xor
<1> QED BY <1>1, <1>2, <1>5 DEF A, B

LEMMA KeysEmptied ==
  ASSUME NEW kinds \in SUBSET PieceKind, NEW m, DOMAIN m = Square, NEW s \in Square
  PROVE  BoardKeys(kinds, Put(m, s, NoPiece)) = Xor(BoardKeys(kinds, m), KeyOf(kinds, m[s], s))
<1>1. KeyOf(kinds, NoPiece, s) = {}
  BY Pieces1 DEF KeyOf
<1>2. \A z : Xor(z, {}) = z
  BY DEF Xor
<1> QED BY <1>1, <1>2, KeysPut

LEMMA KeysFilled ==
  ASSUME NEW kinds \in SUBSET PieceKind, NEW m, DOMAIN m = Square, NEW s \in Square, m[s] = NoPiece, NEW piece
  PROVE  BoardKeys(kinds, Put(m, s, piece)) = Xor(BoardKeys(kinds, m), KeyOf(kinds, piece, s))
<1>1. KeyOf(kinds, NoPiece, s) = {}
  BY Pieces1 DEF KeyOf
<1>2. \A z : Xor(z, {}) = z
  BY DEF Xor
<1> QED BY <1>1, <1>2, KeysPut

Boards == [Square -> Piece \cup {NoPiece}]

LEMMA PutBoard ==
  ASSUME NEW m \in Boards, NEW s \in Square, NEW piece \in Piece \cup {NoPiece}
  PROVE  Put(m, s, piece) \in Boards
BY DEF Boards, Put

\* A move empties squares and fills empty ones.
LEMMA MadeMoved ==
  ASSUME NEW p, Legal(p), NEW mv, StepInv(p, mv), ~IsCastling(mv)
  PROVE  \E m1, m2 \in Boards :
           /\ m1 = Put(p.mailbox, mv.from, NoPiece)
           /\ IF IsCapture(mv)
              THEN /\ m1[CaptureSquare(p.side, mv)] = p.mailbox[CaptureSquare(p.side, mv)]
                   /\ m2 = Put(m1, CaptureSquare(p.side, mv), NoPiece)
              ELSE m2 = m1
           /\ m2[mv.to] = NoPiece
           /\ MadeMailbox(p.mailbox, p.side, mv) = Put(m2, mv.to, LandsAs(p.mailbox[mv.from], mv))
<1> DEFINE m == p.mailbox
           us == p.side
           lands == LandsAs(m[mv.from], mv)
           captureSq == CaptureSquare(us, mv)
           made == MadeMailbox(m, us, mv)
           m1 == Put(m, mv.from, NoPiece)
           m2 == IF IsCapture(mv) THEN Put(m1, captureSq, NoPiece) ELSE m1
<1>1. m \in Boards /\ mv.from \in Square /\ mv.to \in Square
  BY BoardFunction DEF Legal, StepInv, Boards
<1>2. /\ mv.from # mv.to /\ lands \in Piece
      /\ IsCapture(mv) => captureSq \in Square /\ captureSq # mv.from
      /\ mv.flag # EnPassant => captureSq = mv.to
      /\ mv.flag = EnPassant => IsCapture(mv) /\ captureSq # mv.to /\ m[mv.to] = NoPiece
      /\ ~IsCapture(mv) => m[mv.to] = NoPiece
  BY MoverIs
<1>3. \A s \in Square : made[s] = IF s = mv.to THEN lands
        ELSE IF s = mv.from THEN NoPiece
        ELSE IF mv.flag = EnPassant /\ s = captureSq THEN NoPiece ELSE m[s]
  BY DEF MadeMailbox
<1>4. DOMAIN made = Square /\ made = [s \in Square |-> made[s]]
  BY DEF MadeMailbox
<1> HIDE DEF lands, captureSq, made
<1>5. m1 \in Boards /\ \A s \in Square : m1[s] = IF s = mv.from THEN NoPiece ELSE m[s]
  BY <1>1, PutBoard, PutIs DEF Boards
<1>6. m1 = Put(m, mv.from, NoPiece) /\ m2 = IF IsCapture(mv) THEN Put(m1, captureSq, NoPiece) ELSE m1
  OBVIOUS
<1> HIDE DEF m1, m2
<1>7. m2 \in Boards /\ \A s \in Square : m2[s] = IF IsCapture(mv) /\ s = captureSq THEN NoPiece ELSE m1[s]
  <2>1. CASE IsCapture(mv)
    BY <1>2, <1>5, <1>6, <2>1, PutBoard, PutIs DEF Boards
  <2>2. CASE ~IsCapture(mv)
    BY <1>5, <1>6, <2>2
  <2> QED BY <2>1, <2>2
<1>8. m2[mv.to] = NoPiece
  BY <1>1, <1>2, <1>5, <1>7
<1>9. made = Put(m2, mv.to, lands)
  <2> DEFINE n == Put(m2, mv.to, lands)
  <2>1. n \in Boards /\ \A s \in Square : n[s] = IF s = mv.to THEN lands ELSE m2[s]
    BY <1>1, <1>2, <1>7, PutBoard, PutIs DEF Boards
  <2> HIDE DEF n
  <2>2. \A s \in Square : n[s] = made[s]
    BY <1>2, <1>3, <1>5, <1>7, <2>1
  <2>3. n = [s \in Square |-> n[s]]
    BY <2>1 DEF Boards
  <2> QED BY <1>4, <2>2, <2>3 DEF n
<1>10. IsCapture(mv) => m1[captureSq] = m[captureSq]
  BY <1>2, <1>5
<1> QED BY <1>5, <1>6, <1>7, <1>8, <1>9, <1>10 DEF lands, captureSq, made

LEMMA MadeCastled ==
  ASSUME NEW p, Legal(p), NEW mv, StepInv(p, mv), IsCastling(mv)
  PROVE  LET rook == CastleRookSquares(p.side, mv.flag) IN
         \E m1, m2, m3 \in Boards :
           /\ m1 = Put(p.mailbox, mv.from, NoPiece)
           /\ m1[rook[1]] = Rook(p.side) /\ m2 = Put(m1, rook[1], NoPiece)
           /\ m2[mv.to] = NoPiece /\ m3 = Put(m2, mv.to, p.mailbox[mv.from])
           /\ m3[rook[2]] = NoPiece
           /\ MadeMailbox(p.mailbox, p.side, mv) = Put(m3, rook[2], Rook(p.side))
<1> DEFINE m == p.mailbox
           us == p.side
           rook == CastleRookSquares(us, mv.flag)
           made == MadeMailbox(m, us, mv)
           m1 == Put(m, mv.from, NoPiece)
           m2 == Put(m1, rook[1], NoPiece)
           m3 == Put(m2, mv.to, m[mv.from])
           n == Put(m3, rook[2], Rook(us))
<1>1. m \in Boards /\ mv.from \in Square /\ mv.to \in Square
  BY BoardFunction DEF Legal, StepInv, Boards
<1>2. /\ rook[1] \in Square /\ rook[2] \in Square /\ rook[1] # rook[2]
      /\ rook[1] \notin {mv.from, mv.to} /\ rook[2] \notin {mv.from, mv.to}
      /\ m[rook[1]] = Rook(us) /\ m[rook[2]] = NoPiece /\ m[mv.to] = NoPiece
      /\ ~IsPromotion(mv) /\ mv.flag # EnPassant
  BY CastlingIs
<1>3. mv.from # mv.to /\ LandsAs(m[mv.from], mv) = m[mv.from] /\ m[mv.from] \in Piece /\ Rook(us) \in Piece
  BY <1>2, MoverIs, Pieces1
<1>4. \A s \in Square : made[s] = IF s = mv.to THEN m[mv.from]
        ELSE IF s = mv.from THEN NoPiece
        ELSE IF s = rook[1] THEN NoPiece ELSE IF s = rook[2] THEN Rook(us) ELSE m[s]
  BY <1>2, <1>3 DEF MadeMailbox
<1>5. DOMAIN made = Square /\ made = [s \in Square |-> made[s]]
  BY DEF MadeMailbox
<1>6. /\ m1 = Put(m, mv.from, NoPiece) /\ m2 = Put(m1, rook[1], NoPiece)
      /\ m3 = Put(m2, mv.to, m[mv.from]) /\ n = Put(m3, rook[2], Rook(us))
  OBVIOUS
<1> HIDE DEF rook, made, m1, m2, m3, n
<1>7. m1 \in Boards /\ \A s \in Square : m1[s] = IF s = mv.from THEN NoPiece ELSE m[s]
  BY <1>1, <1>6, PutBoard, PutIs DEF Boards
<1>8. m2 \in Boards /\ \A s \in Square : m2[s] = IF s = rook[1] THEN NoPiece ELSE m1[s]
  BY <1>2, <1>6, <1>7, PutBoard, PutIs DEF Boards
<1>9. m3 \in Boards /\ \A s \in Square : m3[s] = IF s = mv.to THEN m[mv.from] ELSE m2[s]
  BY <1>1, <1>3, <1>6, <1>8, PutBoard, PutIs DEF Boards
<1>10. n \in Boards /\ \A s \in Square : n[s] = IF s = rook[2] THEN Rook(us) ELSE m3[s]
  BY <1>2, <1>3, <1>6, <1>9, PutBoard, PutIs DEF Boards
<1>11. made = n
  <2>1. \A s \in Square : n[s] = made[s]
    BY <1>2, <1>3, <1>4, <1>7, <1>8, <1>9, <1>10
  <2>2. n = [s \in Square |-> n[s]]
    BY <1>10 DEF Boards
  <2> QED BY <1>5, <2>1, <2>2
<1>12. m1[rook[1]] = Rook(us) /\ m2[mv.to] = NoPiece /\ m3[rook[2]] = NoPiece
  BY <1>1, <1>2, <1>3, <1>7, <1>8, <1>9
<1> QED BY <1>6, <1>7, <1>8, <1>9, <1>11, <1>12 DEF rook, made, m1, m2, m3, n
-----------------------------------------------------------------------------
\* The key of a position in its parts, which have no fact in common.
RightKeys(R) == {CastlingKey(r) : r \in R}
TurnKeys(c) == IF c = "White" THEN {TurnKey} ELSE {}

LEMMA BoardKeysAre ==
  ASSUME NEW p, Sound(p)
  PROVE  /\ {PieceKey(p.mailbox[s], s) : s \in {s \in Square : p.mailbox[s] # NoPiece}} = BoardKeys(PieceKind, p.mailbox)
         /\ PawnZobristFromScratch(p) = BoardKeys({"Pawn"}, p.mailbox)
<1> DEFINE m == p.mailbox
<1>1. \A s \in Square : m[s] \in Piece \cup {NoPiece}
  BY BoardFunction
<1>2. \A s \in Square : m[s] # NoPiece <=> m[s].kind \in PieceKind
  BY <1>1, Pieces1
<1>3. {PieceKey(m[s], s) : s \in {s \in Square : m[s] # NoPiece}} = BoardKeys(PieceKind, m)
  <2> HIDE DEF m
  <2> QED BY <1>2 DEF BoardKeys, KeyOf
<1>4. \A c \in Color, s \in Square : s \in Pieces(p, c, "Pawn") <=> m[s] = Pawn(c)
  <2>1. ASSUME NEW c \in Color PROVE Pieces(p, c, "Pawn") = {s \in Square : m[s] = [color |-> c, kind |-> "Pawn"]}
    <3>1. \A k \in PieceKind : Pieces(p, c, k) = {s \in Square : p.mailbox[s] = [color |-> c, kind |-> k]}
      BY PieceSets
    <3>2. "Pawn" \in PieceKind
      BY DEF PieceKind
    <3> QED BY <3>1, <3>2
  <2> QED BY Zenon, <2>1 DEF Pawn
<1>5. \A c \in Color : Pieces(p, c, "Pawn") \subseteq Square
  <2>1. ASSUME NEW c \in Color PROVE Pieces(p, c, "Pawn") = {s \in Square : m[s] = [color |-> c, kind |-> "Pawn"]}
    <3>1. \A k \in PieceKind : Pieces(p, c, k) = {s \in Square : p.mailbox[s] = [color |-> c, kind |-> k]}
      BY PieceSets
    <3>2. "Pawn" \in PieceKind
      BY DEF PieceKind
    <3> QED BY <3>1, <3>2
  <2> QED BY <2>1
<1>6. \A k : k \in PawnZobristFromScratch(p) <=>
             \E c \in Color : \E s \in Pieces(p, c, "Pawn") : k = PieceKey(Pawn(c), s)
  BY DEF PawnZobristFromScratch, Pawn
<1>7. \A k : k \in BoardKeys({"Pawn"}, m) <=> \E s \in Square : m[s].kind = "Pawn" /\ k = PieceKey(m[s], s)
  BY DEF BoardKeys, KeyOf
<1>8. \A s \in Square : m[s].kind = "Pawn" => m[s].color \in Color /\ m[s] = Pawn(m[s].color)
  <2>1. \A x \in Piece \cup {NoPiece} : x.kind = "Pawn" => x.color \in Color /\ x = Pawn(x.color)
    BY DEF Piece, NoPiece, Pawn
  <2> QED BY <1>1, <2>1
<1>9. \A c \in Color : Pawn(c).kind = "Pawn"
  BY DEF Pawn
<1> HIDE DEF m
<1>10. \A k : k \in PawnZobristFromScratch(p) <=> k \in BoardKeys({"Pawn"}, m)
  <2> SUFFICES ASSUME NEW k PROVE k \in PawnZobristFromScratch(p) <=> k \in BoardKeys({"Pawn"}, m)
    OBVIOUS
  <2>1. ASSUME k \in PawnZobristFromScratch(p) PROVE k \in BoardKeys({"Pawn"}, m)
    <3>1. PICK c \in Color : \E s \in Pieces(p, c, "Pawn") : k = PieceKey(Pawn(c), s)
      BY <1>6, <2>1
    <3>2. PICK s \in Pieces(p, c, "Pawn") : k = PieceKey(Pawn(c), s)
      BY <3>1
    <3>3. s \in Square /\ m[s] = Pawn(c)
      BY <1>4, <1>5, <3>2
    <3> QED BY <1>7, <1>9, <3>2, <3>3
  <2>2. ASSUME k \in BoardKeys({"Pawn"}, m) PROVE k \in PawnZobristFromScratch(p)
    <3>1. PICK s \in Square : m[s].kind = "Pawn" /\ k = PieceKey(m[s], s)
      BY <1>7, <2>2
    <3>2. m[s].color \in Color /\ m[s] = Pawn(m[s].color)
      BY <1>8, <3>1
    <3>3. s \in Pieces(p, m[s].color, "Pawn")
      BY <1>4, <3>2
    <3> QED BY <1>6, <3>1, <3>2, <3>3
  <2> QED BY <2>1, <2>2
<1> QED BY <1>3, <1>10 DEF m

LEMMA KeyParts ==
  ASSUME NEW p, Sound(p)
  PROVE  FromScratch(p) = Xor(Xor(Xor(BoardKeys(PieceKind, p.mailbox), RightKeys(p.castling)),
                                  EpKeys(EpFileToHash(p))), TurnKeys(p.side))
<1> DEFINE A == BoardKeys(PieceKind, p.mailbox)
           B == RightKeys(p.castling)
           D == EpKeys(EpFileToHash(p))
           E == TurnKeys(p.side)
<1>1. FromScratch(p) = A \cup B \cup D \cup E
  <2>1. FromScratch(p) = {PieceKey(p.mailbox[s], s) : s \in {s \in Square : p.mailbox[s] # NoPiece}} \cup B \cup D \cup E
    BY DEF FromScratch, RightKeys, TurnKeys
  <2> QED BY <2>1, BoardKeysAre
<1>2. \A k \in A : k[1] \in Color
  <2>1. \A s \in Square : p.mailbox[s] \in Piece \cup {NoPiece}
    BY BoardFunction
  <2>2. \A s \in Square : p.mailbox[s].kind \in PieceKind => p.mailbox[s].color \in Color
    BY <2>1, Pieces1
  <2>3. \A s \in Square : \A k \in KeyOf(PieceKind, p.mailbox[s], s) : k[1] \in Color
    BY <2>2 DEF KeyOf, PieceKey
  <2> QED BY <2>3 DEF BoardKeys
<1>3. \A k \in B : k[1] = "Castling"
  BY DEF RightKeys, CastlingKey
<1>4. \A k \in D : k[1] = "EpFile"
  BY DEF EpKeys, EpFileKey
<1>5. \A k \in E : k[1] = "Turn"
  BY DEF TurnKeys, TurnKey
<1>6. "Castling" \notin Color /\ "EpFile" \notin Color /\ "Turn" \notin Color
  BY DEF Color
<1> HIDE DEF A, B, D, E
<1>7. A \cap B = {} /\ (A \cup B) \cap D = {} /\ (A \cup B \cup D) \cap E = {}
  BY <1>2, <1>3, <1>4, <1>5, <1>6
<1>8. A \cup B \cup D \cup E = Xor(Xor(Xor(A, B), D), E)
  <2>1. Xor(A, B) = A \cup B
    BY <1>7 DEF Xor
  <2>2. Xor(A \cup B, D) = A \cup B \cup D
    BY <1>7 DEF Xor
  <2>3. Xor(A \cup B \cup D, E) = A \cup B \cup D \cup E
    BY <1>7 DEF Xor
  <2> QED BY <2>1, <2>2, <2>3
<1> QED BY <1>1, <1>8 DEF A, B, D, E

LEMMA RightKeysLost ==
  ASSUME NEW R, NEW Q
  PROVE  RightKeys((R \ Q) \cup (Q \ R)) = Xor(RightKeys(R), RightKeys(Q))
<1>1. \A r, q : CastlingKey(r) = CastlingKey(q) => r = q
  BY DEF CastlingKey
<1>2. \A S, r : CastlingKey(r) \in RightKeys(S) <=> r \in S
  BY <1>1 DEF RightKeys
<1>3. \A S : \A k \in RightKeys(S) : \E r : k = CastlingKey(r)
  BY DEF RightKeys
<1>4. \A k : k \in RightKeys((R \ Q) \cup (Q \ R)) <=> k \in Xor(RightKeys(R), RightKeys(Q))
  <2> SUFFICES ASSUME NEW k
               PROVE  k \in RightKeys((R \ Q) \cup (Q \ R)) <=> k \in Xor(RightKeys(R), RightKeys(Q))
    OBVIOUS
  <2>1. CASE \E r : k = CastlingKey(r)
    <3>1. PICK r : k = CastlingKey(r)
      BY <2>1
    <3> QED BY <1>2, <3>1 DEF Xor
  <2>2. CASE ~\E r : k = CastlingKey(r)
    BY <1>3, <2>2 DEF Xor
  <2> QED BY <2>1, <2>2
<1> QED BY <1>4

LEMMA TurnPassed ==
  ASSUME NEW c \in Color
  PROVE  TurnKeys(Flip(c)) = Xor(TurnKeys(c), {TurnKey})
<1>1. CASE c = "White"
  BY <1>1 DEF TurnKeys, Flip, Xor
<1>2. CASE c = "Black"
  BY <1>2 DEF TurnKeys, Flip, Xor
<1> QED BY <1>1, <1>2 DEF Color

\* The order in which the words of a move are XORed does not matter.
LEMMA XorMove ==
  ASSUME NEW B, NEW F, NEW T, NEW X, NEW Ca, NEW Cb, NEW Ea, NEW Eb, NEW Ta, NEW t, NEW z,
         z = Xor(Xor(Xor(B, Ca), Ea), Ta)
  PROVE  Xor(Xor(Xor(Xor(Xor(Xor(Xor(z, F), T), X), Xor(Ca, Cb)), Ea), Eb), t)
           = Xor(Xor(Xor(Xor(Xor(Xor(B, F), X), T), Cb), Eb), Xor(Ta, t))
<1> DEFINE L == Xor(Xor(Xor(Xor(Xor(Xor(Xor(z, F), T), X), Xor(Ca, Cb)), Ea), Eb), t)
           R == Xor(Xor(Xor(Xor(Xor(Xor(B, F), X), T), Cb), Eb), Xor(Ta, t))
<1>1. ASSUME NEW k PROVE k \in L <=> k \in R
  <2>1. \A P, Q : k \in Xor(P, Q) <=> ~(k \in P <=> k \in Q)
    BY DEF Xor
  <2> QED BY <2>1
<1> HIDE DEF L, R
<1>2. L = R
  BY <1>1
<1> QED BY <1>2 DEF L, R
LEMMA KeyMade ==
  ASSUME NEW p, Legal(p), NEW mv, StepInv(p, mv), NEW q, q = MakeMove(p, mv), p.zobrist = FromScratch(p)
  PROVE  q.zobrist = FromScratch(q)
<1> DEFINE m == p.mailbox
           us == p.side
           mover == m[mv.from]
           lands == LandsAs(mover, mv)
           captureSq == CaptureSquare(us, mv)
           rook == CastleRookSquares(us, mv.flag)
           undo == Undo(p, mv)
           P == PieceKind
           K == BoardKeys(P, m)
           F == KeyOf(P, mover, mv.from)
           T == KeyOf(P, lands, mv.to)
           X == IF IsCastling(mv) THEN Xor(KeyOf(P, Rook(us), rook[1]), KeyOf(P, Rook(us), rook[2]))
                ELSE IF IsCapture(mv) THEN KeyOf(P, m[captureSq], captureSq) ELSE {}
           Ca == RightKeys(p.castling)
           Cb == RightKeys(q.castling)
           Ea == EpKeys(EpFileToHash(p))
           Eb == EpKeys(EpFileToHash(q))
           Ta == TurnKeys(us)
<1>0. Sound(p) /\ us \in Color /\ m \in Boards /\ DOMAIN m = Square /\ mv.from \in Square /\ mv.to \in Square
  BY PieceSets, BoardFunction DEF Legal, StepInv, Boards
<1>1. /\ mover \in Piece /\ mover.color = us /\ lands \in Piece
      /\ IsCapture(mv) => captureSq \in Square /\ m[captureSq] \in Piece
      /\ ~IsPromotion(mv) => lands = mover
  BY MoverIs
<1>2. /\ undo.zobrist = p.zobrist /\ undo.castling = p.castling
      /\ undo.captured = IF IsCapture(mv) THEN m[captureSq] ELSE NoPiece
  BY UndoIs
<1>3. /\ Sound(q) /\ q.side = Flip(us) /\ q.mailbox = MadeMailbox(m, us, mv)
      /\ q.zobrist = ZobristAfterMake(mv, mover, undo, EpFileToHash(p), EpFileToHash(q), q.castling)
  BY MakeMoveIs
<1>4. /\ \A x \in Piece, s \in Square : KeyOf(P, x, s) = {PieceKey(x, s)}
      /\ P \in SUBSET PieceKind
  BY Pieces1 DEF KeyOf
<1>c. IsCastling(mv) => /\ rook[1] \in Square /\ rook[2] \in Square /\ rook[1] # rook[2]
                        /\ ~IsCapture(mv) /\ ~IsPromotion(mv)
  BY CastlingIs
<1>5. BoardKeys(P, q.mailbox) = Xor(Xor(Xor(K, F), X), T)
  <2>1. CASE ~IsCastling(mv)
    <3>1. PICK m1, m2 \in Boards :
           /\ m1 = Put(m, mv.from, NoPiece)
           /\ IF IsCapture(mv)
              THEN m1[captureSq] = m[captureSq] /\ m2 = Put(m1, captureSq, NoPiece)
              ELSE m2 = m1
           /\ m2[mv.to] = NoPiece
           /\ q.mailbox = Put(m2, mv.to, lands)
      BY <1>3, <2>1, MadeMoved
    <3>2. DOMAIN m1 = Square /\ DOMAIN m2 = Square
      BY DEF Boards
    <3> HIDE DEF m, lands, captureSq, K, F, T, rook, us, mover, undo, P
    <3>3. BoardKeys(P, m1) = Xor(K, F)
      BY <1>0, <1>4, <3>1, KeysEmptied DEF K, F, mover
    <3>4. BoardKeys(P, m2) = Xor(Xor(K, F), X)
      <4>1. CASE IsCapture(mv)
        <5>1. BoardKeys(P, m2) = Xor(BoardKeys(P, m1), KeyOf(P, m1[captureSq], captureSq))
          BY <1>1, <1>4, <3>1, <3>2, <4>1, KeysEmptied
        <5> QED BY <2>1, <3>1, <3>3, <4>1, <5>1 DEF X
      <4>2. CASE ~IsCapture(mv)
        <5>1. \A z : Xor(z, {}) = z
          BY DEF Xor
        <5> QED BY <2>1, <3>1, <3>3, <4>2, <5>1
      <4> QED BY <4>1, <4>2
    <3>5. BoardKeys(P, Put(m2, mv.to, lands)) = Xor(BoardKeys(P, m2), KeyOf(P, lands, mv.to))
      BY <1>0, <1>4, <3>1, <3>2, KeysFilled
    <3> QED BY <3>1, <3>4, <3>5 DEF T
  <2>2. CASE IsCastling(mv)
    <3>0. lands = mover /\ Rook(us) \in Piece
      BY <1>0, <1>1, <1>c, <2>2, Pieces1
    <3>1. PICK m1, m2, m3 \in Boards :
           /\ m1 = Put(m, mv.from, NoPiece)
           /\ m1[rook[1]] = Rook(us) /\ m2 = Put(m1, rook[1], NoPiece)
           /\ m2[mv.to] = NoPiece /\ m3 = Put(m2, mv.to, mover)
           /\ m3[rook[2]] = NoPiece
           /\ q.mailbox = Put(m3, rook[2], Rook(us))
      BY <1>3, <2>2, MadeCastled
    <3>2. DOMAIN m1 = Square /\ DOMAIN m2 = Square /\ DOMAIN m3 = Square
      BY DEF Boards
    <3> DEFINE R1 == KeyOf(P, Rook(us), rook[1])
               R2 == KeyOf(P, Rook(us), rook[2])
    <3> HIDE DEF m, lands, captureSq, K, F, T, rook, us, mover, undo, X, P
    <3>3. BoardKeys(P, m1) = Xor(K, F)
      BY <1>0, <1>4, <3>1, KeysEmptied DEF K, F, mover
    <3>4. BoardKeys(P, m2) = Xor(Xor(K, F), R1)
      BY <1>c, <1>4, <2>2, <3>0, <3>1, <3>2, <3>3, KeysEmptied
    <3>5. BoardKeys(P, m3) = Xor(Xor(Xor(K, F), R1), T)
      BY <1>0, <1>4, <3>0, <3>1, <3>2, <3>4, KeysFilled DEF T
    <3>6. BoardKeys(P, q.mailbox) = Xor(Xor(Xor(Xor(K, F), R1), T), R2)
      BY <1>c, <1>4, <2>2, <3>0, <3>1, <3>2, <3>5, KeysFilled
    <3>7. X = Xor(R1, R2)
      BY <2>2 DEF X
    <3> HIDE DEF R1, R2
    <3>8. Xor(Xor(Xor(Xor(K, F), R1), T), R2) = Xor(Xor(Xor(K, F), Xor(R1, R2)), T)
      <4>1. ASSUME NEW k PROVE k \in Xor(Xor(Xor(Xor(K, F), R1), T), R2) <=> k \in Xor(Xor(Xor(K, F), Xor(R1, R2)), T)
        <5>1. \A A, B : k \in Xor(A, B) <=> ~(k \in A <=> k \in B)
          BY DEF Xor
        <5> QED BY <5>1
      <4> QED BY <4>1
    <3> QED BY <3>6, <3>7, <3>8
  <2> QED BY <2>1, <2>2
<1>6. q.zobrist = Xor(Xor(Xor(Xor(Xor(Xor(Xor(p.zobrist, F), T), X), Xor(Ca, Cb)), Ea), Eb), {TurnKey})
  <2>1. RightKeys((p.castling \ q.castling) \cup (q.castling \ p.castling)) = Xor(Ca, Cb)
    BY RightKeysLost
  <2>2. [color |-> us, kind |-> "Rook"] = Rook(us)
    BY DEF Rook
  <2>3. \A x \in Piece : x # NoPiece
    BY Pieces1
  <2>4. \A z : Xor(z, {}) = z
    BY DEF Xor
  <2>f. F = {PieceKey(mover, mv.from)} /\ T = {PieceKey(lands, mv.to)}
    BY <1>0, <1>1, <1>4
  <2>x. X = IF IsCastling(mv) THEN {PieceKey(Rook(us), rook[1]), PieceKey(Rook(us), rook[2])}
            ELSE IF IsCapture(mv) THEN {PieceKey(m[captureSq], captureSq)} ELSE {}
    <3>1. CASE IsCastling(mv)
      <4> DEFINE A == {PieceKey(Rook(us), rook[1])}
                 B == {PieceKey(Rook(us), rook[2])}
      <4>1. PieceKey(Rook(us), rook[1]) # PieceKey(Rook(us), rook[2])
        BY <1>c, <3>1 DEF PieceKey
      <4>2. A \cap B = {}
        BY <4>1
      <4>3. Rook(us) \in Piece
        BY <1>0, Pieces1
      <4>4. X = Xor(A, B)
        BY <1>c, <1>4, <3>1, <4>3
      <4>5. A \cup B = {PieceKey(Rook(us), rook[1]), PieceKey(Rook(us), rook[2])}
        OBVIOUS
      <4> HIDE DEF A, B, X, m, rook, us
      <4>6. Xor(A, B) = A \cup B
        BY <4>2 DEF Xor
      <4> QED BY <3>1, <4>4, <4>5, <4>6
    <3>2. CASE ~IsCastling(mv)
      BY <1>1, <1>4, <3>2
    <3> QED BY <3>1, <3>2
  <2> HIDE DEF m, lands, captureSq, K, F, T, rook, us, mover, undo, X, Ca, Cb, Ea, Eb
  <2> DEFINE z1 == Xor(Xor(undo.zobrist, {PieceKey(mover, mv.from)}), {PieceKey(lands, mv.to)})
             z2 == IF undo.captured # NoPiece THEN Xor(z1, {PieceKey(undo.captured, captureSq)}) ELSE z1
             z3 == IF IsCastling(mv) THEN Xor(z2, {PieceKey(Rook(us), rook[1]), PieceKey(Rook(us), rook[2])}) ELSE z2
             z4 == Xor(z3, RightKeys((p.castling \ q.castling) \cup (q.castling \ p.castling)))
  <2>5. q.zobrist = Xor(Xor(Xor(z4, Ea), Eb), {TurnKey})
    BY <1>1, <1>2, <1>3, <2>2 DEF ZobristAfterMake, RightKeys, lands, captureSq, rook, Ea, Eb
  <2>6. z1 = Xor(Xor(p.zobrist, F), T)
    BY <1>2, <2>f
  <2> HIDE DEF z1
  <2>7. z3 = Xor(z1, X)
    <3>1. CASE IsCastling(mv)
      BY <1>c, <1>2, <2>x, <3>1
    <3>2. CASE ~IsCastling(mv) /\ IsCapture(mv)
      BY <1>1, <1>2, <2>3, <2>x, <3>2
    <3>3. CASE ~IsCastling(mv) /\ ~IsCapture(mv)
      BY <1>2, <2>4, <2>x, <3>3
    <3> QED BY <3>1, <3>2, <3>3
  <2> HIDE DEF z3
  <2> QED BY <2>1, <2>5, <2>6, <2>7
<1>7. p.zobrist = Xor(Xor(Xor(K, Ca), Ea), Ta)
  BY <1>0, KeyParts
<1>8. FromScratch(q) = Xor(Xor(Xor(BoardKeys(P, q.mailbox), Cb), Eb), TurnKeys(Flip(us)))
  BY <1>3, KeyParts
<1>9. TurnKeys(Flip(us)) = Xor(Ta, {TurnKey})
  BY <1>0, TurnPassed
<1> HIDE DEF K, F, T, X, Ca, Cb, Ea, Eb, Ta, P
<1> QED BY <1>5, <1>6, <1>7, <1>8, <1>9, XorMove

LEMMA PawnKeyMade ==
  ASSUME NEW p, Legal(p), NEW mv, StepInv(p, mv), NEW q, q = MakeMove(p, mv), p.pawnZobrist = PawnZobristFromScratch(p)
  PROVE  q.pawnZobrist = PawnZobristFromScratch(q)
<1> DEFINE m == p.mailbox
           us == p.side
           mover == m[mv.from]
           lands == LandsAs(mover, mv)
           captureSq == CaptureSquare(us, mv)
           rook == CastleRookSquares(us, mv.flag)
           undo == Undo(p, mv)
           P == {"Pawn"}
           K == BoardKeys(P, m)
           F == KeyOf(P, mover, mv.from)
           T == KeyOf(P, lands, mv.to)
           X == IF IsCapture(mv) THEN KeyOf(P, m[captureSq], captureSq) ELSE {}
<1>0. Sound(p) /\ us \in Color /\ m \in Boards /\ DOMAIN m = Square /\ mv.from \in Square /\ mv.to \in Square
  BY PieceSets, BoardFunction DEF Legal, StepInv, Boards
<1>1. /\ mover \in Piece /\ mover.color = us /\ lands \in Piece
      /\ IsCapture(mv) => captureSq \in Square /\ m[captureSq] \in Piece /\ m[captureSq].color = Flip(us)
      /\ ~IsPromotion(mv) => lands = mover
      /\ IsPromotion(mv) => mover = Pawn(us) /\ lands.kind # "Pawn"
  BY MoverIs
<1>2. /\ undo.pawnZobrist = p.pawnZobrist
      /\ undo.captured = IF IsCapture(mv) THEN m[captureSq] ELSE NoPiece
  BY UndoIs
<1>3. /\ Sound(q) /\ q.mailbox = MadeMailbox(m, us, mv)
      /\ q.pawnZobrist = PawnZobristAfterMake(mv, mover, undo)
  BY MakeMoveIs
<1>4. P \in SUBSET PieceKind /\ \A z : Xor(z, {}) = z
  BY DEF PieceKind, Xor
<1>c. IsCastling(mv) => /\ rook[1] \in Square /\ rook[2] \in Square
                        /\ ~IsCapture(mv) /\ ~IsPromotion(mv) /\ mover = King(us)
  BY CastlingIs
<1>5. BoardKeys(P, q.mailbox) = Xor(Xor(Xor(K, F), X), T)
  <2>1. CASE ~IsCastling(mv)
    <3>1. PICK m1, m2 \in Boards :
           /\ m1 = Put(m, mv.from, NoPiece)
           /\ IF IsCapture(mv)
              THEN m1[captureSq] = m[captureSq] /\ m2 = Put(m1, captureSq, NoPiece)
              ELSE m2 = m1
           /\ m2[mv.to] = NoPiece
           /\ q.mailbox = Put(m2, mv.to, lands)
      BY <1>3, <2>1, MadeMoved
    <3>2. DOMAIN m1 = Square /\ DOMAIN m2 = Square
      BY DEF Boards
    <3> HIDE DEF m, lands, captureSq, K, F, T, rook, us, mover, undo, P
    <3>3. BoardKeys(P, m1) = Xor(K, F)
      BY <1>0, <1>4, <3>1, KeysEmptied DEF K, F, mover
    <3>4. BoardKeys(P, m2) = Xor(Xor(K, F), X)
      <4>1. CASE IsCapture(mv)
        <5>1. BoardKeys(P, m2) = Xor(BoardKeys(P, m1), KeyOf(P, m1[captureSq], captureSq))
          BY <1>1, <1>4, <3>1, <3>2, <4>1, KeysEmptied
        <5> QED BY <3>1, <3>3, <4>1, <5>1 DEF X
      <4>2. CASE ~IsCapture(mv)
        BY <1>4, <3>1, <3>3, <4>2 DEF X
      <4> QED BY <4>1, <4>2
    <3>5. BoardKeys(P, Put(m2, mv.to, lands)) = Xor(BoardKeys(P, m2), KeyOf(P, lands, mv.to))
      BY <1>0, <1>4, <3>1, <3>2, KeysFilled
    <3> QED BY <3>1, <3>4, <3>5 DEF T
  <2>2. CASE IsCastling(mv)
    <3>1. PICK m1, m2, m3 \in Boards :
           /\ m1 = Put(m, mv.from, NoPiece)
           /\ m1[rook[1]] = Rook(us) /\ m2 = Put(m1, rook[1], NoPiece)
           /\ m2[mv.to] = NoPiece /\ m3 = Put(m2, mv.to, mover)
           /\ m3[rook[2]] = NoPiece
           /\ q.mailbox = Put(m3, rook[2], Rook(us))
      BY <1>3, <2>2, MadeCastled
    <3>2. DOMAIN m1 = Square /\ DOMAIN m2 = Square /\ DOMAIN m3 = Square
      BY DEF Boards
    <3>3. /\ F = {} /\ T = {} /\ X = {}
          /\ \A s : KeyOf(P, Rook(us), s) = {} /\ KeyOf(P, mover, s) = {}
      BY <1>c, <1>1, <2>2 DEF KeyOf, King, Rook
    <3> HIDE DEF m, lands, captureSq, K, F, T, rook, us, mover, undo, X, P
    <3>4. BoardKeys(P, m1) = K
      BY <1>0, <1>4, <3>1, <3>3, KeysEmptied DEF K, mover
    <3>5. BoardKeys(P, m2) = K
      BY SMTT(40), <1>c, <1>4, <2>2, <3>1, <3>2, <3>3, <3>4, KeysEmptied
    <3>6. BoardKeys(P, m3) = K
      BY <1>0, <1>4, <3>1, <3>2, <3>3, <3>5, KeysFilled
    <3>7. BoardKeys(P, q.mailbox) = K
      BY <1>c, <1>4, <2>2, <3>1, <3>2, <3>3, <3>6, KeysFilled
    <3> QED BY <1>4, <3>3, <3>7
  <2> QED BY <2>1, <2>2
<1>6. q.pawnZobrist = Xor(Xor(Xor(p.pawnZobrist, F), T), X)
  <2>1. /\ F = IF mover.kind = "Pawn" THEN {PieceKey(Pawn(us), mv.from)} ELSE {}
        /\ T = IF mover.kind = "Pawn" /\ ~IsPromotion(mv) THEN {PieceKey(Pawn(us), mv.to)} ELSE {}
    <3>1. mover.kind = "Pawn" => mover = Pawn(us)
      BY <1>1, Pieces1 DEF Pawn
    <3>2. lands.kind = "Pawn" <=> mover.kind = "Pawn" /\ ~IsPromotion(mv)
      BY <1>1
    <3>3. lands.kind = "Pawn" => lands = Pawn(us)
      BY <1>1, <3>1, <3>2
    <3> HIDE DEF lands, mover
    <3> QED BY <3>1, <3>2, <3>3 DEF KeyOf
  <2>2. X = IF undo.captured.kind = "Pawn" THEN {PieceKey(Pawn(Flip(us)), captureSq)} ELSE {}
    <3>1. CASE IsCapture(mv)
      <4>1. m[captureSq].kind = "Pawn" => m[captureSq] = Pawn(Flip(us))
        BY <1>1, <3>1, Pieces1 DEF Pawn
      <4> HIDE DEF m, captureSq, undo
      <4> QED BY <1>2, <3>1, <4>1 DEF KeyOf
    <3>2. CASE ~IsCapture(mv)
      <4>1. NoPiece.kind # "Pawn"
        BY DEF NoPiece
      <4> QED BY <1>2, <3>2, <4>1
    <3> QED BY <3>1, <3>2
  <2> HIDE DEF m, lands, captureSq, K, F, T, rook, us, mover, undo, X
  <2> DEFINE z1 == IF mover.kind = "Pawn" THEN Xor(undo.pawnZobrist, {PieceKey(Pawn(us), mv.from)}) ELSE undo.pawnZobrist
             z2 == IF mover.kind = "Pawn" /\ ~IsPromotion(mv) THEN Xor(z1, {PieceKey(Pawn(us), mv.to)}) ELSE z1
  <2>3. q.pawnZobrist = IF undo.captured.kind = "Pawn" THEN Xor(z2, {PieceKey(Pawn(Flip(us)), captureSq)}) ELSE z2
    BY <1>1, <1>3 DEF PawnZobristAfterMake, Pawn, captureSq
  <2>4. z1 = Xor(p.pawnZobrist, F)
    BY <1>2, <1>4, <2>1
  <2> HIDE DEF z1
  <2>5. z2 = Xor(z1, T)
    BY <1>4, <2>1
  <2> HIDE DEF z2
  <2> QED BY <1>4, <2>2, <2>3, <2>4, <2>5
<1>7. p.pawnZobrist = K /\ PawnZobristFromScratch(q) = BoardKeys(P, q.mailbox)
  BY <1>0, <1>3, BoardKeysAre
<1> HIDE DEF K, F, T, X, P
<1>8. Xor(Xor(Xor(K, F), X), T) = Xor(Xor(Xor(K, F), T), X)
  <2>1. ASSUME NEW k PROVE k \in Xor(Xor(Xor(K, F), X), T) <=> k \in Xor(Xor(Xor(K, F), T), X)
    <3>1. \A A, B : k \in Xor(A, B) <=> ~(k \in A <=> k \in B)
      BY DEF Xor
    <3> QED BY <3>1
  <2> QED BY <2>1
<1> QED BY <1>5, <1>6, <1>7, <1>8
-----------------------------------------------------------------------------
\* Sums over the pieces of a board.
FoldInto(g, C, base, step, pick, S) == g \in [SUBSET S -> C] /\ FoldOf(g, base, step, pick, S)
Alike(C, T, stepS, stepT, pickS, pickT) ==
  /\ \A x \in T, c \in C : stepS[x][c] = stepT[x][c]
  /\ \A s \in SUBSET T : s # {} => pickS[s] \in s /\ pickS[s] = pickT[s]

LEMMA FoldsAlike ==
  ASSUME NEW C, NEW base, NEW S, IsFiniteSet(S), NEW T \in SUBSET S, NEW stepS, NEW stepT, NEW pickS, NEW pickT,
         Alike(C, T, stepS, stepT, pickS, pickT), NEW g, NEW h, FoldOf(g, base, stepS, pickS, S), FoldInto(h, C, base, stepT, pickT, T)
  PROVE  \A s \in SUBSET T : g[s] = h[s]
<1>10. h \in [SUBSET T -> C] /\ FoldOf(h, base, stepT, pickT, T)
  BY DEF FoldInto
<1>9. /\ \A x \in T, c \in C : stepS[x][c] = stepT[x][c]
      /\ \A s \in SUBSET T : s # {} => pickS[s] \in s /\ pickS[s] = pickT[s]
  BY DEF Alike
<1> DEFINE Bad == {s \in SUBSET T : g[s] # h[s]}
<1> SUFFICES ASSUME Bad # {} PROVE FALSE
  OBVIOUS
<1>0. Bad \in SUBSET SUBSET T /\ IsFiniteSet(T)
  BY FS_Subset
<1>1. PICK s \in Bad : \A u \in Bad : u \subseteq s => u = s
  <2> HIDE DEF Bad
  <2> QED BY <1>0, SmallestSet
<1>2. s # {}
  <2>1. g[{}] = base /\ h[{}] = base
    BY <1>10, FoldAt
  <2> QED BY <1>1, <2>1
<1>3. pickS[s] \in s /\ pickT[s] = pickS[s] /\ s \ {pickS[s]} \in (SUBSET T) \ Bad /\ s \in SUBSET T
  BY <1>1, <1>2, <1>9
<1>4. g[s] = stepS[pickS[s]][g[s \ {pickS[s]}]]
  <2>1. \A t \in SUBSET S : t # {} => g[t] = stepS[pickS[t]][g[t \ {pickS[t]}]]
    <3> SUFFICES ASSUME NEW t \in SUBSET S, t # {} PROVE g[t] = stepS[pickS[t]][g[t \ {pickS[t]}]]
      OBVIOUS
    <3>1. g[t] = IF t = {} THEN base ELSE stepS[pickS[t]][g[t \ {pickS[t]}]]
      BY DEF FoldOf
    <3> QED BY <3>1
  <2> QED BY <1>2, <1>3, <2>1
<1>5. h[s] = stepT[pickS[s]][h[s \ {pickS[s]}]]
  <2>1. \A t \in SUBSET T : t # {} => h[t] = stepT[pickT[t]][h[t \ {pickT[t]}]]
    <3> SUFFICES ASSUME NEW t \in SUBSET T, t # {} PROVE h[t] = stepT[pickT[t]][h[t \ {pickT[t]}]]
      BY Zenon
    <3>1. h[t] = IF t = {} THEN base ELSE stepT[pickT[t]][h[t \ {pickT[t]}]]
      BY Zenon, <1>10 DEF FoldOf
    <3> QED BY <3>1
  <2> QED BY <1>2, <1>3, <2>1
<1>6. g[s \ {pickS[s]}] = h[s \ {pickS[s]}] /\ h[s \ {pickS[s]}] \in C /\ pickS[s] \in T
  BY <1>3, <1>10
<1> DEFINE p == pickS[s]
           c == h[s \ {pickS[s]}]
<1>7. stepS[p][c] = stepT[p][c]
  <2>1. p \in T /\ c \in C
    BY <1>6
  <2> HIDE DEF p, c
  <2> QED BY <1>9, <2>1
<1>8. g[s] # h[s]
  BY <1>1
<1> QED BY <1>4, <1>5, <1>6, <1>7, <1>8

\* What commutes can be taken from the set in any order.
Commuting(C, step, S) == \A x, y \in S, c \in C : step[x][step[y][c]] = step[y][step[x][c]]

LastIn(g, step, S) == \A s \in SUBSET S : \A x \in s : g[s] = step[x][g[s \ {x}]]

LEMMA AnyLast ==
  ASSUME NEW C, NEW base, NEW step, NEW pick, NEW S, Foldable(C, base, step, pick, S), Commuting(C, step, S),
         NEW g, FoldInto(g, C, base, step, pick, S)
  PROVE  LastIn(g, step, S)
<1> USE DEF LastIn
<1>0. /\ IsFiniteSet(S) /\ \A s \in SUBSET S : s # {} => pick[s] \in s
      /\ \A x \in S, c \in C : step[x][c] \in C
      /\ g \in [SUBSET S -> C] /\ FoldOf(g, base, step, pick, S)
  BY DEF Foldable, FoldInto
<1> DEFINE Bad == {s \in SUBSET S : \E x \in s : g[s] # step[x][g[s \ {x}]]}
<1> SUFFICES ASSUME Bad # {} PROVE FALSE
  BY Zenon
<1>1. Bad \in SUBSET SUBSET S
  OBVIOUS
<1>2. PICK s \in Bad : \A u \in Bad : u \subseteq s => u = s
  <2> HIDE DEF Bad
  <2> QED BY <1>0, <1>1, SmallestSet
<1>3. PICK x \in s : g[s] # step[x][g[s \ {x}]]
  BY <1>2
<1> DEFINE y == pick[s]
<1>4. s \in SUBSET S /\ s # {} /\ y \in s
  BY <1>0, <1>2, <1>3
<1>5. g[s] = step[y][g[s \ {y}]]
  <2>1. g[s] = IF s = {} THEN base ELSE step[pick[s]][g[s \ {pick[s]}]]
    BY Zenon, <1>0, <1>4 DEF FoldOf
  <2> QED BY <1>4, <2>1
<1> HIDE DEF y
<1>6. x # y
  BY <1>3, <1>5
<1>7. s \ {y} \in (SUBSET S) \ Bad /\ s \ {x} \in (SUBSET S) \ Bad
  <2>1. s \ {y} \in SUBSET S /\ s \ {x} \in SUBSET S /\ s \ {y} # s /\ s \ {x} # s
    BY <1>3, <1>4
  <2> HIDE DEF Bad
  <2> QED BY <1>2, <2>1
<1>8. g[s \ {y}] = step[x][g[(s \ {y}) \ {x}]]
  BY <1>3, <1>6, <1>7
<1>9. g[s \ {x}] = step[y][g[(s \ {x}) \ {y}]]
  BY <1>4, <1>6, <1>7
<1>10. (s \ {y}) \ {x} = (s \ {x}) \ {y} /\ (s \ {x}) \ {y} \in SUBSET S /\ x \in S /\ y \in S
  BY <1>3, <1>4
<1> HIDE DEF Bad
<1>11. g[(s \ {x}) \ {y}] \in C
  BY <1>0, <1>10
<1>12. step[x][step[y][g[(s \ {x}) \ {y}]]] = step[y][step[x][g[(s \ {x}) \ {y}]]]
  BY <1>10, <1>11 DEF Commuting
<1> QED BY <1>3, <1>5, <1>8, <1>9, <1>10, <1>12

\* val gives each piece on each square its value, add sums them up.
Adding(C, base, add, val) ==
  /\ base \in C /\ \A a, b \in C : add[a][b] \in C
  /\ \A a, b, c \in C : add[a][add[b][c]] = add[b][add[a][c]]
  /\ \A piece \in Piece, s \in Square : val[piece][s] \in C

Occ(m) == {s \in Square : m[s] # NoPiece}
Picking(S) == [s \in SUBSET S |-> CHOOSE x \in s : TRUE]
StepsOver(C, add, val, m, S) == [x \in S |-> [c \in C |-> add[val[m[x]][x]][c]]]

\* v is the sum over the pieces of m.
Summed(v, C, base, add, val, m) ==
  \E g \in [SUBSET Occ(m) -> C] :
    FoldOf(g, base, StepsOver(C, add, val, m, Occ(m)), Picking(Occ(m)), Occ(m)) /\ v = g[Occ(m)]

LEMMA FiniteBoard == IsFiniteSet(Square) /\ \A m : IsFiniteSet(Occ(m))
<1>1. IsFiniteSet(Square)
  <2> DEFINE a == 0
             b == 63
  <2>1. a \in Int /\ b \in Int /\ Square = a..b
    BY DEF Square
  <2> HIDE DEF a, b
  <2> QED BY <2>1, FS_Interval
<1>2. \A m : Occ(m) \subseteq Square
  BY DEF Occ
<1> QED BY <1>1, <1>2, FS_Subset

LEMMA StepsFold ==
  ASSUME NEW C, NEW base, NEW add, NEW val, Adding(C, base, add, val), NEW m \in Boards, NEW S, S = Occ(m),
         NEW step, step = StepsOver(C, add, val, m, S), NEW pick, pick = Picking(S)
  PROVE  Foldable(C, base, step, pick, S) /\ Commuting(C, step, S)
<1>1. IsFiniteSet(S) /\ base \in C
  BY FiniteBoard DEF Adding
<1>2. \A x \in S : x \in Square /\ m[x] \in Piece
  BY DEF Occ, Boards
<1>3. \A x \in S : val[m[x]][x] \in C
  BY <1>2 DEF Adding
<1>4. \A x \in S, c \in C : step[x][c] = add[val[m[x]][x]][c]
  BY DEF StepsOver
<1>5. \A x \in S, c \in C : step[x][c] \in C
  BY <1>3, <1>4 DEF Adding
<1>6. \A s \in SUBSET S : s # {} => pick[s] \in s
  BY DEF Picking
<1>7. Commuting(C, step, S)
  <2> SUFFICES ASSUME NEW x \in S, NEW y \in S, NEW c \in C PROVE step[x][step[y][c]] = step[y][step[x][c]]
    BY DEF Commuting
  <2> DEFINE a == val[m[x]][x]
             b == val[m[y]][y]
  <2>1. a \in C /\ b \in C /\ step[y][c] \in C /\ step[x][c] \in C
    BY <1>3, <1>5
  <2>2. step[x][step[y][c]] = add[a][add[b][c]] /\ step[y][step[x][c]] = add[b][add[a][c]]
    BY SMTT(40), <1>4, <2>1
  <2> HIDE DEF a, b
  <2> QED BY <2>1, <2>2 DEF Adding
<1> QED BY <1>1, <1>5, <1>6, <1>7 DEF Foldable

LEMMA SumExists ==
  ASSUME NEW C, NEW base, NEW add, NEW val, Adding(C, base, add, val), NEW m \in Boards
  PROVE  \E v \in C : Summed(v, C, base, add, val, m)
<1> DEFINE S == Occ(m)
           step == StepsOver(C, add, val, m, S)
           pick == Picking(S)
<1>1. Foldable(C, base, step, pick, S)
  BY StepsFold
<1>2. \E g \in [SUBSET S -> C] : FoldOf(g, base, step, pick, S)
  <2> HIDE DEF S, step, pick
  <2> QED BY <1>1, FoldsExist
<1>3. PICK g \in [SUBSET S -> C] : FoldOf(g, base, step, pick, S)
  BY <1>2
<1>4. Summed(g[S], C, base, add, val, m)
  BY <1>3 DEF Summed
<1>5. g[S] \in C
  <2> HIDE DEF S
  <2> QED BY S \in SUBSET S
<1> QED BY <1>4, <1>5

LEMMA SumsAgree ==
  ASSUME NEW C, NEW base, NEW add, NEW val, Adding(C, base, add, val), NEW m \in Boards,
         NEW v, NEW w, Summed(v, C, base, add, val, m), Summed(w, C, base, add, val, m)
  PROVE  v = w
<1> DEFINE S == Occ(m)
           step == StepsOver(C, add, val, m, S)
           pick == Picking(S)
<1>1. PICK g \in [SUBSET S -> C] : FoldOf(g, base, step, pick, S) /\ v = g[S]
  BY DEF Summed
<1>2. PICK h \in [SUBSET S -> C] : FoldOf(h, base, step, pick, S) /\ w = h[S]
  BY DEF Summed
<1>3. IsFiniteSet(S) /\ S \in SUBSET S
  BY FiniteBoard
<1>4. \A s \in SUBSET S : s # {} => pick[s] \in s
  BY DEF Picking
<1>5. FoldOf(g, base, step, pick, S) /\ FoldOf(h, base, step, pick, S)
  BY <1>1, <1>2
<1> HIDE DEF S, step, pick
<1>6. \A s \in SUBSET S : g[s] = h[s]
  BY <1>3, <1>4, <1>5, FoldsAgree
<1> QED BY <1>1, <1>2, <1>3, <1>6

LEMMA SumEmptied ==
  ASSUME NEW C, NEW base, NEW add, NEW val, Adding(C, base, add, val), NEW m \in Boards, NEW s \in Square,
         m[s] # NoPiece, NEW n, n = Put(m, s, NoPiece),
         NEW v, NEW w, Summed(v, C, base, add, val, m), Summed(w, C, base, add, val, n)
  PROVE  v = add[val[m[s]][s]][w] /\ w \in C /\ v \in C
<1> DEFINE S == Occ(m)
           stepS == StepsOver(C, add, val, m, S)
           pickS == Picking(S)
           T == Occ(n)
           stepT == StepsOver(C, add, val, n, T)
           pickT == Picking(T)
<1>1. PICK g \in [SUBSET S -> C] : FoldOf(g, base, stepS, pickS, S) /\ v = g[S]
  BY DEF Summed
<1>2. PICK h \in [SUBSET T -> C] : FoldOf(h, base, stepT, pickT, T) /\ w = h[T]
  BY DEF Summed
<1>3. n \in Boards /\ \A t \in Square : n[t] = IF t = s THEN NoPiece ELSE m[t]
  BY PutBoard, PutIs DEF Boards
<1>4. T = S \ {s} /\ s \in S /\ \A t \in T : n[t] = m[t]
  BY <1>3 DEF Occ
<1>5. Foldable(C, base, stepS, pickS, S) /\ Commuting(C, stepS, S)
  BY StepsFold
<1>6. \A x \in T, c \in C : stepS[x][c] = stepT[x][c]
  <2> HIDE DEF S, T
  <2> QED BY <1>4 DEF StepsOver
<1>7. \A t \in SUBSET T : t # {} => pickS[t] \in t /\ pickS[t] = pickT[t]
  <2> HIDE DEF S, T
  <2> QED BY <1>4 DEF Picking
<1>8. stepS[s][w] = add[val[m[s]][s]][w] /\ w \in C
  <2> HIDE DEF S, T
  <2>1. w \in C
    BY <1>2, T \in SUBSET T
  <2> QED BY <1>4, <2>1 DEF StepsOver
<1>9. IsFiniteSet(S)
  BY FiniteBoard
<1> HIDE DEF S, T, stepS, stepT, pickS, pickT
<1>10. g[T] = h[T]
  <2>1. T \in SUBSET S
    BY <1>4
  <2>0. Alike(C, T, stepS, stepT, pickS, pickT)
    BY <1>6, <1>7 DEF Alike
  <2>3. FoldOf(g, base, stepS, pickS, S) /\ FoldInto(h, C, base, stepT, pickT, T)
    BY <1>1, <1>2 DEF FoldInto
  <2>2. \A t \in SUBSET T : g[t] = h[t]
    BY <1>9, <2>0, <2>1, <2>3, FoldsAlike
  <2> QED BY <2>2, T \in SUBSET T
<1>11. g[S] = stepS[s][g[S \ {s}]]
  <2>1. \A t \in SUBSET S : \A x \in t : g[t] = stepS[x][g[t \ {x}]]
    <3>1. FoldInto(g, C, base, stepS, pickS, S)
      BY <1>1 DEF FoldInto
    <3>2. Foldable(C, base, stepS, pickS, S)
      BY <1>5
    <3>3. Commuting(C, stepS, S)
      BY <1>5
    <3>4. LastIn(g, stepS, S)
      BY <3>1, <3>2, <3>3, AnyLast
    <3> QED BY Zenon, <3>4 DEF LastIn
  <2> QED BY <1>4, <2>1, S \in SUBSET S
<1>12. v \in C
  BY <1>1, S \in SUBSET S
<1> QED BY <1>1, <1>2, <1>4, <1>8, <1>10, <1>11, <1>12

\* The sums of the evaluation are such sums.
IntAdd == [a \in Int |-> [b \in Int |-> a + b]]
ScoreAdd == [a \in Int \X Int |-> [b \in Int \X Int |-> Plus(a, b)]]
PhaseVal == [piece \in Piece |-> [s \in Square |-> PhaseDelta[piece.kind]]]
ScoreVal == [piece \in Piece |-> [s \in Square |-> Psqt[piece.color][piece.kind][s]]]

LEMMA ScoreAdding == Adding(Int \X Int, Zero, ScoreAdd, ScoreVal)
<1> DEFINE C == Int \X Int
<1>1. \A a, b \in C : ScoreAdd[a][b] = Plus(a, b) /\ Plus(a, b) \in C
  BY ScoresAdd DEF ScoreAdd
<1>2. \A a, b, c \in C : Plus(a, Plus(b, c)) = Plus(b, Plus(a, c))
  BY DEF Plus
<1>3. ASSUME NEW piece \in Piece, NEW s \in Square PROVE ScoreVal[piece][s] \in C
  <2>1. piece.color \in Color /\ piece.kind \in PieceKind
    BY Pieces1
  <2>2. Psqt[piece.color][piece.kind][s] \in C
    BY <2>1, TablesAreScores
  <2> QED BY <2>2 DEF ScoreVal
<1>4. Zero \in C
  BY ScoresAdd
<1> HIDE DEF C
<1>5. \A a, b, c \in C : ScoreAdd[a][ScoreAdd[b][c]] = ScoreAdd[b][ScoreAdd[a][c]]
  <2> SUFFICES ASSUME NEW a \in C, NEW b \in C, NEW c \in C PROVE ScoreAdd[a][ScoreAdd[b][c]] = ScoreAdd[b][ScoreAdd[a][c]]
    OBVIOUS
  <2>1. ScoreAdd[a][ScoreAdd[b][c]] = Plus(a, Plus(b, c)) /\ ScoreAdd[b][ScoreAdd[a][c]] = Plus(b, Plus(a, c))
    BY <1>1
  <2> QED BY <1>2, <2>1
<1>6. \A a, b \in C : ScoreAdd[a][b] \in C
  BY <1>1
<1>7. Adding(C, Zero, ScoreAdd, ScoreVal)
  BY <1>3, <1>4, <1>5, <1>6 DEF Adding
<1> QED BY <1>7 DEF C

LEMMA PhaseAdding == Adding(Int, 0, IntAdd, PhaseVal)
<1> DEFINE C == Int
<1>1. \A a, b \in C : IntAdd[a][b] = a + b /\ a + b \in C
  BY DEF IntAdd
<1>2. \A a, b, c \in C : a + (b + c) = b + (a + c)
  OBVIOUS
<1>3. ASSUME NEW piece \in Piece, NEW s \in Square PROVE PhaseVal[piece][s] \in C
  <2>1. piece.color \in Color /\ piece.kind \in PieceKind
    BY Pieces1
  <2>2. PhaseDelta[piece.kind] \in C
    BY <2>1, TablesAreScores
  <2> QED BY <2>2 DEF PhaseVal
<1>4. 0 \in C
  OBVIOUS
<1> HIDE DEF C
<1>5. \A a, b, c \in C : IntAdd[a][IntAdd[b][c]] = IntAdd[b][IntAdd[a][c]]
  <2> SUFFICES ASSUME NEW a \in C, NEW b \in C, NEW c \in C PROVE IntAdd[a][IntAdd[b][c]] = IntAdd[b][IntAdd[a][c]]
    OBVIOUS
  <2>1. IntAdd[a][IntAdd[b][c]] = a + (b + c) /\ IntAdd[b][IntAdd[a][c]] = b + (a + c)
    BY <1>1
  <2> QED BY <1>2, <2>1
<1>6. \A a, b \in C : IntAdd[a][b] \in C
  BY <1>1
<1>7. Adding(C, 0, IntAdd, PhaseVal)
  BY <1>3, <1>4, <1>5, <1>6 DEF Adding
<1> QED BY <1>7 DEF C

\* g folds the pieces of m, val and add looked up one by one.
Picked(s) == CHOOSE x \in s : TRUE
Totals(g, C, base, add, val, m) ==
  /\ DOMAIN g = SUBSET Occ(m) /\ g[{}] = base
  /\ g = [s \in SUBSET Occ(m) |-> g[s]]
  /\ \A s \in SUBSET Occ(m) : s # {} /\ g[s \ {Picked(s)}] \in C =>
       g[s] = add[val[m[Picked(s)]][Picked(s)]][g[s \ {Picked(s)}]]

LEMMA TotalsSum ==
  ASSUME NEW C, NEW base, NEW add, NEW val, Adding(C, base, add, val), NEW m \in Boards,
         NEW g, Totals(g, C, base, add, val, m)
  PROVE  Summed(g[Occ(m)], C, base, add, val, m)
<1> DEFINE S == Occ(m)
           step == StepsOver(C, add, val, m, S)
           pick == Picking(S)
<1>1. Foldable(C, base, step, pick, S)
  BY StepsFold
<1>2. /\ IsFiniteSet(S) /\ base \in C
      /\ \A s \in SUBSET S : s # {} => pick[s] \in s
      /\ \A x \in S, c \in C : step[x][c] \in C
  BY <1>1 DEF Foldable
<1>3. \A s \in SUBSET S : pick[s] = Picked(s)
  BY DEF Picking, Picked
<1>4. \A x \in S, c \in C : step[x][c] = add[val[m[x]][x]][c]
  BY DEF StepsOver
<1>5. /\ DOMAIN g = SUBSET S /\ g[{}] = base /\ g = [s \in SUBSET S |-> g[s]]
      /\ \A s \in SUBSET S : s # {} /\ g[s \ {pick[s]}] \in C => g[s] = add[val[m[pick[s]]][pick[s]]][g[s \ {pick[s]}]]
  BY <1>3 DEF Totals
<1> HIDE DEF S, step, pick
<1>6. \A s \in SUBSET S : s # {} /\ g[s \ {pick[s]}] \in C => g[s] = step[pick[s]][g[s \ {pick[s]}]] /\ g[s] \in C
  <2> SUFFICES ASSUME NEW s \in SUBSET S, s # {}, g[s \ {pick[s]}] \in C
               PROVE  g[s] = step[pick[s]][g[s \ {pick[s]}]] /\ g[s] \in C
    OBVIOUS
  <2>1. pick[s] \in S
    BY <1>2
  <2>2. g[s] = add[val[m[pick[s]]][pick[s]]][g[s \ {pick[s]}]]
    BY <1>5
  <2>3. g[s] = step[pick[s]][g[s \ {pick[s]}]]
    BY <1>4, <2>1, <2>2
  <2> QED BY <1>2, <2>1, <2>3
<1>7. \A T \in SUBSET S : g[T] \in C
  <2> SUFFICES ASSUME NEW T \in SUBSET S PROVE g[T] \in C
    OBVIOUS
  <2>1. IsFiniteSet(T) /\ \A s \in SUBSET T : s # {} => pick[s] \in s
    BY <1>2, FS_Subset
  <2>2. g[{}] \in C /\ \A s \in SUBSET T : s # {} /\ g[s \ {pick[s]}] \in C => g[s] \in C
    BY <1>2, <1>5, <1>6
  <2> QED BY <2>1, <2>2, FoldStays
<1>8. g \in [SUBSET S -> C]
  BY Zenon, <1>5, <1>7
<1>9. FoldOf(g, base, step, pick, S)
  <2>1. ASSUME NEW s \in SUBSET S PROVE g[s] = IF s = {} THEN base ELSE step[pick[s]][g[s \ {pick[s]}]]
    <3>1. CASE s = {}
      BY <1>5, <3>1
    <3>2. CASE s # {}
      <4>1. s \ {pick[s]} \in SUBSET S
        OBVIOUS
      <4>2. g[s \ {pick[s]}] \in C
        BY <1>7, <4>1
      <4> QED BY <1>6, <3>2, <4>2
    <3> QED BY <3>1, <3>2
  <2>2. g = [s \in SUBSET S |-> IF s = {} THEN base ELSE step[pick[s]][g[s \ {pick[s]}]]]
    BY <1>5, <2>1
  <2> QED BY Zenon, <2>2 DEF FoldOf
<1> QED BY <1>8, <1>9 DEF Summed, S, step, pick

LEMMA SumsAre ==
  ASSUME NEW p, Sound(p)
  PROVE  /\ Summed(ScoreFromScratch(p), Int \X Int, Zero, ScoreAdd, ScoreVal, p.mailbox)
         /\ Summed(PhaseFromScratch(p), Int, 0, IntAdd, PhaseVal, p.mailbox)
<1> DEFINE S == OccupiedAll(p)
           C == Int \X Int
           m == p.mailbox
           pick == Picking(S)
<1>1. IsFiniteSet(S) /\ \A s \in S : s \in Square /\ m[s].color \in Color /\ m[s].kind \in PieceKind
  BY OccupiedIs
<1>2. S = Occ(m) /\ m \in Boards
  BY PieceSets, BoardFunction DEF Occ, Boards
<1>3. \A x \in S : m[x] \in Piece /\ x \in Square
  BY <1>2 DEF Occ, Boards
<1>4. \A x \in S : /\ ScoreVal[m[x]][x] = SquareScore(p, x) /\ SquareScore(p, x) \in C
                   /\ PhaseVal[m[x]][x] = PhaseDelta[m[x].kind] /\ PhaseDelta[m[x].kind] \in Int
  <2> SUFFICES ASSUME NEW x \in S PROVE /\ ScoreVal[m[x]][x] = SquareScore(p, x) /\ SquareScore(p, x) \in C
                   /\ PhaseVal[m[x]][x] = PhaseDelta[m[x].kind] /\ PhaseDelta[m[x].kind] \in Int
    OBVIOUS
  <2>1. SquareScore(p, x) \in C /\ PhaseDelta[m[x].kind] \in Int
    BY <1>1, TablesAreScores DEF SquareScore
  <2>2. ScoreVal[m[x]][x] = SquareScore(p, x)
    BY <1>3 DEF ScoreVal, SquareScore
  <2>3. PhaseVal[m[x]][x] = PhaseDelta[m[x].kind]
    BY <1>3 DEF PhaseVal
  <2> QED BY <2>1, <2>2, <2>3
<1>5. S = OccupiedAll(p) /\ m = p.mailbox
  OBVIOUS
<1>6. \A s \in SUBSET S : pick[s] = Picked(s) /\ Picked(s) = (CHOOSE x \in s : TRUE) /\ (s # {} => Picked(s) \in s)
  BY DEF Picking, Picked
<1> HIDE DEF S, m, pick
<1>7. Summed(ScoreFromScratch(p), C, Zero, ScoreAdd, ScoreVal, m)
  <2> DEFINE step == StepsOver(C, ScoreAdd, ScoreVal, m, S)
  <2>1. Adding(C, Zero, ScoreAdd, ScoreVal)
    BY ScoreAdding
  <2>a. \A a, b \in C : ScoreAdd[a][b] = Plus(a, b)
    BY DEF ScoreAdd
  <2> HIDE DEF C
  <2>c. \A x \in S, c \in C : ScoreAdd[ScoreVal[m[x]][x]][c] = Plus(SquareScore(p, x), c)
    BY <1>4, <2>a DEF C
  <2>2. Foldable(C, Zero, step, pick, S)
    BY <1>2, <2>1, StepsFold DEF pick
  <2>3. PICK f \in [SUBSET S -> C] : FoldOf(f, Zero, step, pick, S)
    <3> HIDE DEF step
    <3> QED BY <2>2, FoldsExist
  <2>4. ASSUME NEW s \in SUBSET S, s # {}
        PROVE  step[pick[s]][f[s \ {pick[s]}]] = Plus(SquareScore(p, CHOOSE x \in s : TRUE), f[s \ {CHOOSE x \in s : TRUE}])
    <3>1. pick[s] \in S /\ f[s \ {pick[s]}] \in C
      BY <1>6, <2>3, <2>4
    <3>2. step[pick[s]][f[s \ {pick[s]}]] = ScoreAdd[ScoreVal[m[pick[s]]][pick[s]]][f[s \ {pick[s]}]]
      BY <3>1 DEF StepsOver
    <3>3. ScoreAdd[ScoreVal[m[pick[s]]][pick[s]]][f[s \ {pick[s]}]] = Plus(SquareScore(p, pick[s]), f[s \ {pick[s]}])
      BY <2>c, <3>1
    <3> QED BY <1>6, <3>2, <3>3
  <2>5. f = [s \in SUBSET S |-> IF s = {} THEN Zero ELSE Plus(SquareScore(p, CHOOSE x \in s : TRUE), f[s \ {CHOOSE x \in s : TRUE}])]
    <3>1. f = [s \in SUBSET S |-> IF s = {} THEN Zero ELSE step[pick[s]][f[s \ {pick[s]}]]]
      BY <2>3 DEF FoldOf
    <3> HIDE DEF step
    <3> QED BY Zenon, <2>4, <3>1
  <2>6. ScoreFold(f, p)
    BY <1>5, <2>5 DEF ScoreFold
  <2> DEFINE g == CHOOSE g : ScoreFold(g, p)
  <2>7. ScoreFold(g, p) /\ ScoreFromScratch(p) = g[S]
    BY <1>5, <2>6, ScoreIs
  <2> HIDE DEF g, step
  <2>8. g = [s \in SUBSET S |-> IF s = {} THEN Zero ELSE Plus(SquareScore(p, CHOOSE x \in s : TRUE), g[s \ {CHOOSE x \in s : TRUE}])]
    BY <1>5, <2>7 DEF ScoreFold
  <2>9. DOMAIN g = SUBSET S /\ g[{}] = Zero /\ g = [s \in SUBSET S |-> g[s]]
    BY <2>8
  <2>10. ASSUME NEW s \in SUBSET S, s # {}, g[s \ {Picked(s)}] \in C
         PROVE  g[s] = ScoreAdd[ScoreVal[m[Picked(s)]][Picked(s)]][g[s \ {Picked(s)}]]
    <3>1. g[s] = Plus(SquareScore(p, Picked(s)), g[s \ {Picked(s)}])
      BY <2>8, <2>10 DEF Picked
    <3>2. Picked(s) \in S
      BY <1>6, <2>10
    <3> QED BY <1>4, <2>a, <2>10, <3>1, <3>2
  <2>11. Totals(g, C, Zero, ScoreAdd, ScoreVal, m)
    BY <1>2, <2>9, <2>10 DEF Totals
  <2> QED BY <1>2, <2>1, <2>7, <2>11, TotalsSum
<1>8. Summed(PhaseFromScratch(p), Int, 0, IntAdd, PhaseVal, m)
  <2> DEFINE D == Int
             step == StepsOver(D, IntAdd, PhaseVal, m, S)
  <2>1. Adding(D, 0, IntAdd, PhaseVal)
    BY PhaseAdding
  <2>a. \A a, b \in D : IntAdd[a][b] = a + b
    BY DEF IntAdd
  <2>b. \A x \in S : PhaseDelta[m[x].kind] \in D
    BY <1>4
  <2> HIDE DEF D
  <2>c. ASSUME NEW x \in S, NEW c \in D PROVE IntAdd[PhaseVal[m[x]][x]][c] = PhaseDelta[m[x].kind] + c
    <3>1. PhaseVal[m[x]][x] = PhaseDelta[m[x].kind] /\ PhaseDelta[m[x].kind] \in D
      BY <1>4, <2>b
    <3>2. IntAdd[PhaseDelta[m[x].kind]][c] = PhaseDelta[m[x].kind] + c
      BY <2>a, <3>1
    <3> QED BY <3>1, <3>2
  <2>2. Foldable(D, 0, step, pick, S)
    BY <1>2, <2>1, StepsFold DEF pick
  <2>3. PICK f \in [SUBSET S -> D] : FoldOf(f, 0, step, pick, S)
    <3> HIDE DEF step
    <3> QED BY <2>2, FoldsExist
  <2>4. ASSUME NEW s \in SUBSET S, s # {}
        PROVE  step[pick[s]][f[s \ {pick[s]}]] = PhaseDelta[m[CHOOSE x \in s : TRUE].kind] + f[s \ {CHOOSE x \in s : TRUE}]
    <3>1. pick[s] \in S /\ f[s \ {pick[s]}] \in D
      BY <1>6, <2>3, <2>4
    <3>2. step[pick[s]][f[s \ {pick[s]}]] = IntAdd[PhaseVal[m[pick[s]]][pick[s]]][f[s \ {pick[s]}]]
      BY <3>1 DEF StepsOver
    <3>3. IntAdd[PhaseVal[m[pick[s]]][pick[s]]][f[s \ {pick[s]}]] = PhaseDelta[m[pick[s]].kind] + f[s \ {pick[s]}]
      BY Zenon, <2>c, <3>1
    <3> QED BY <1>6, <3>2, <3>3
  <2>5. f = [s \in SUBSET S |-> IF s = {} THEN 0 ELSE PhaseDelta[m[CHOOSE x \in s : TRUE].kind] + f[s \ {CHOOSE x \in s : TRUE}]]
    <3>1. f = [s \in SUBSET S |-> IF s = {} THEN 0 ELSE step[pick[s]][f[s \ {pick[s]}]]]
      BY <2>3 DEF FoldOf
    <3> HIDE DEF step
    <3> QED BY Zenon, <2>4, <3>1
  <2>6. PhaseFold(f, p)
    BY <1>5, <2>5 DEF PhaseFold
  <2> DEFINE g == CHOOSE g : PhaseFold(g, p)
  <2>7. PhaseFold(g, p) /\ PhaseFromScratch(p) = g[S]
    BY <1>5, <2>6, PhaseIs
  <2> HIDE DEF g, step
  <2>8. g = [s \in SUBSET S |-> IF s = {} THEN 0 ELSE PhaseDelta[m[CHOOSE x \in s : TRUE].kind] + g[s \ {CHOOSE x \in s : TRUE}]]
    BY <1>5, <2>7 DEF PhaseFold
  <2>9. DOMAIN g = SUBSET S /\ g[{}] = 0 /\ g = [s \in SUBSET S |-> g[s]]
    BY <2>8
  <2>10. ASSUME NEW s \in SUBSET S, s # {}, g[s \ {Picked(s)}] \in D
         PROVE  g[s] = IntAdd[PhaseVal[m[Picked(s)]][Picked(s)]][g[s \ {Picked(s)}]]
    <3>1. g[s] = PhaseDelta[m[Picked(s)].kind] + g[s \ {Picked(s)}]
      BY <2>8, <2>10 DEF Picked
    <3>2. Picked(s) \in S
      BY <1>6, <2>10
    <3> QED BY <1>4, <2>a, <2>b, <2>10, <3>1, <3>2
  <2>11. Totals(g, D, 0, IntAdd, PhaseVal, m)
    BY <1>2, <2>9, <2>10 DEF Totals
  <2>12. Summed(PhaseFromScratch(p), D, 0, IntAdd, PhaseVal, m)
    BY <1>2, <2>1, <2>7, <2>11, TotalsSum
  <2> QED BY <2>12 DEF D
<1> QED BY <1>7, <1>8 DEF m

\* What a move does to a sum: what stood on its squares is taken off, what
\* stands there is put on.
SumOver(C, add, val, m, us, mv, v, u) ==
  LET mover == m[mv.from]
      captureSq == CaptureSquare(us, mv)
      rook == CastleRookSquares(us, mv.flag)
  IN \E w \in C :
     IF IsCastling(mv)
     THEN /\ v = add[val[mover][mv.from]][add[val[Rook(us)][rook[1]]][w]]
          /\ u = add[val[Rook(us)][rook[2]]][add[val[mover][mv.to]][w]]
     ELSE /\ v = add[val[mover][mv.from]][IF IsCapture(mv) THEN add[val[m[captureSq]][captureSq]][w] ELSE w]
          /\ u = add[val[LandsAs(mover, mv)][mv.to]][w]

LEMMA SumTaken ==
  ASSUME NEW C, NEW base, NEW add, NEW val, Adding(C, base, add, val)
  PROVE  /\ \A a \in Boards, s \in Square : \A x, y :
              a[s] # NoPiece /\ Summed(x, C, base, add, val, a) /\ Summed(y, C, base, add, val, Put(a, s, NoPiece))
                => x = add[val[a[s]][s]][y]
         /\ \A a \in Boards, s \in Square, piece \in Piece : \A x, y :
              a[s] = NoPiece /\ Summed(x, C, base, add, val, a) /\ Summed(y, C, base, add, val, Put(a, s, piece))
                => y = add[val[piece][s]][x]
<1>1. ASSUME NEW m \in Boards, NEW s \in Square, m[s] # NoPiece, NEW v, NEW w, NEW n, n = Put(m, s, NoPiece),
             Summed(v, C, base, add, val, m), Summed(w, C, base, add, val, n)
      PROVE  v = add[val[m[s]][s]][w]
  BY <1>1, SumEmptied
<1>2. ASSUME NEW m \in Boards, NEW s \in Square, m[s] = NoPiece, NEW piece \in Piece, NEW v, NEW w,
             NEW n, n = Put(m, s, piece),
             Summed(v, C, base, add, val, m), Summed(w, C, base, add, val, n)
      PROVE  w = add[val[piece][s]][v]
  <2>1. n \in Boards /\ n[s] = piece /\ n[s] # NoPiece
    <3>1. n \in Boards
      BY <1>2, PutBoard
    <3>2. n[s] = piece
      BY <1>2 DEF Put, Boards
    <3> QED BY <3>1, <3>2, Pieces1
  <2>2. m = Put(n, s, NoPiece)
    <3>1. Put(n, s, NoPiece) \in Boards
      BY <2>1, PutBoard
    <3>2. \A t \in Square : Put(n, s, NoPiece)[t] = m[t]
      BY <1>2, <2>1, PutIs DEF Boards
    <3> QED BY <1>2, <3>1, <3>2 DEF Boards
  <2>3. w = add[val[n[s]][s]][v]
    BY <1>1, <1>2, <2>1, <2>2
  <2> QED BY <2>1, <2>3
<1> QED BY <1>1, <1>2

LEMMA SumMade ==
  ASSUME NEW C, NEW base, NEW add, NEW val, Adding(C, base, add, val),
         NEW p, Legal(p), NEW mv, StepInv(p, mv), NEW q, q = MakeMove(p, mv),
         NEW v, Summed(v, C, base, add, val, p.mailbox), NEW u, Summed(u, C, base, add, val, q.mailbox)
  PROVE  SumOver(C, add, val, p.mailbox, p.side, mv, v, u)
<1> DEFINE m == p.mailbox
           us == p.side
           mover == m[mv.from]
           lands == LandsAs(mover, mv)
           captureSq == CaptureSquare(us, mv)
           rook == CastleRookSquares(us, mv.flag)
           SumOf(x, a) == Summed(x, C, base, add, val, a)
<1>0. Sound(p) /\ us \in Color /\ m \in Boards /\ mv.from \in Square /\ mv.to \in Square
  BY PieceSets, BoardFunction DEF Legal, StepInv, Boards
<1>1. /\ mover \in Piece /\ lands \in Piece /\ mover # NoPiece
      /\ IsCapture(mv) => captureSq \in Square /\ m[captureSq] \in Piece
      /\ ~IsPromotion(mv) => lands = mover
      /\ \A piece \in Piece : piece # NoPiece
  BY MoverIs, Pieces1
<1>3. q.mailbox = MadeMailbox(m, us, mv)
  BY MakeMoveIs
<1>c. IsCastling(mv) => rook[1] \in Square /\ rook[2] \in Square /\ Rook(us) \in Piece
  BY <1>0, CastlingIs, Pieces1
<1>v. SumOf(v, m) /\ SumOf(u, q.mailbox)
  OBVIOUS
<1>e. \A a \in Boards, s \in Square : \A x, y : a[s] # NoPiece /\ SumOf(x, a) /\ SumOf(y, Put(a, s, NoPiece)) => x = add[val[a[s]][s]][y]
  BY SumTaken
<1>f. \A a \in Boards, s \in Square, piece \in Piece : \A x, y :
        a[s] = NoPiece /\ SumOf(x, a) /\ SumOf(y, Put(a, s, piece)) => y = add[val[piece][s]][x]
  BY SumTaken
<1>g. \A a \in Boards : \E x \in C : SumOf(x, a)
  BY SumExists
<1>h. \A a \in Boards : \A x, y : SumOf(x, a) /\ SumOf(y, a) => x = y
  BY SumsAgree
<1> HIDE DEF SumOf
<1>2. ASSUME ~IsCastling(mv)
      PROVE  \E w \in C : /\ v = add[val[mover][mv.from]][IF IsCapture(mv) THEN add[val[m[captureSq]][captureSq]][w] ELSE w]
                          /\ u = add[val[lands][mv.to]][w]
  <2>1. PICK m1, m2 \in Boards :
         /\ m1 = Put(m, mv.from, NoPiece)
         /\ IF IsCapture(mv)
            THEN m1[captureSq] = m[captureSq] /\ m2 = Put(m1, captureSq, NoPiece)
            ELSE m2 = m1
         /\ m2[mv.to] = NoPiece
         /\ q.mailbox = Put(m2, mv.to, lands)
    BY <1>2, <1>3, MadeMoved
  <2>2. PICK v1 \in C : SumOf(v1, m1)
    BY <1>g
  <2>3. PICK v2 \in C : SumOf(v2, m2)
    BY <1>g
  <2> HIDE DEF m, lands, captureSq, rook, us
  <2>4. v = add[val[mover][mv.from]][v1]
    <3>1. m[mv.from] # NoPiece /\ m1 = Put(m, mv.from, NoPiece) /\ m \in Boards /\ mv.from \in Square
      BY <1>0, <1>1, <2>1
    <3>2. SumOf(v, m)
      BY <1>v
    <3> QED BY <2>2, <3>1, <3>2, <1>e
  <2>5. v1 = IF IsCapture(mv) THEN add[val[m[captureSq]][captureSq]][v2] ELSE v2
    <3>1. CASE IsCapture(mv)
      <4>1. m1[captureSq] # NoPiece /\ captureSq \in Square /\ m2 = Put(m1, captureSq, NoPiece)
        BY <1>1, <2>1, <3>1
      <4>2. v1 = add[val[m1[captureSq]][captureSq]][v2]
        BY <2>2, <2>3, <4>1, <1>e
      <4> QED BY <2>1, <3>1, <4>2
    <3>2. CASE ~IsCapture(mv)
      <4>1. m1 = m2
        BY <2>1, <3>2
      <4>2. v1 = v2
        <5>1. SumOf(v1, m1) /\ SumOf(v2, m1)
          BY <2>2, <2>3, <4>1
        <5> QED BY <5>1, <1>h
      <4> QED BY <3>2, <4>2
    <3> QED BY <3>1, <3>2
  <2>6. u = add[val[lands][mv.to]][v2]
    <3>1. m2[mv.to] = NoPiece /\ q.mailbox = Put(m2, mv.to, lands) /\ lands \in Piece /\ mv.to \in Square
      BY <1>0, <1>1, <2>1
    <3>2. SumOf(u, q.mailbox)
      BY <1>v
    <3> QED BY <2>3, <3>1, <3>2, <1>f
  <2> QED BY Zenon, <2>3, <2>4, <2>5, <2>6
<1>4. ASSUME IsCastling(mv)
      PROVE  \E w \in C : /\ v = add[val[mover][mv.from]][add[val[Rook(us)][rook[1]]][w]]
                          /\ u = add[val[Rook(us)][rook[2]]][add[val[mover][mv.to]][w]]
  <2>1. PICK m1, m2, m3 \in Boards :
         /\ m1 = Put(m, mv.from, NoPiece)
         /\ m1[rook[1]] = Rook(us) /\ m2 = Put(m1, rook[1], NoPiece)
         /\ m2[mv.to] = NoPiece /\ m3 = Put(m2, mv.to, mover)
         /\ m3[rook[2]] = NoPiece
         /\ q.mailbox = Put(m3, rook[2], Rook(us))
    BY <1>3, <1>4, MadeCastled
  <2>2. PICK v1 \in C : SumOf(v1, m1)
    BY <1>g
  <2>3. PICK v2 \in C : SumOf(v2, m2)
    BY <1>g
  <2>4. PICK v3 \in C : SumOf(v3, m3)
    BY <1>g
  <2>9. rook[1] \in Square /\ rook[2] \in Square /\ Rook(us) \in Piece /\ Rook(us) # NoPiece
    BY <1>1, <1>4, <1>c
  <2> HIDE DEF m, lands, captureSq, rook, us
  <2>5. v = add[val[mover][mv.from]][v1]
    <3>1. m[mv.from] # NoPiece /\ m1 = Put(m, mv.from, NoPiece) /\ m \in Boards /\ mv.from \in Square
      BY <1>0, <1>1, <2>1
    <3>2. SumOf(v, m)
      BY <1>v
    <3> QED BY <2>2, <3>1, <3>2, <1>e
  <2>6. v1 = add[val[Rook(us)][rook[1]]][v2]
    <3>1. m1[rook[1]] # NoPiece /\ m2 = Put(m1, rook[1], NoPiece)
      BY <2>1, <2>9
    <3>2. v1 = add[val[m1[rook[1]]][rook[1]]][v2]
      BY <2>2, <2>3, <2>9, <3>1, <1>e
    <3> QED BY <2>1, <3>2
  <2>7. v3 = add[val[mover][mv.to]][v2]
    <3>1. m2[mv.to] = NoPiece /\ m3 = Put(m2, mv.to, mover)
      BY <2>1
    <3> QED BY <1>0, <1>1, <2>3, <2>4, <3>1, <1>f
  <2>8. u = add[val[Rook(us)][rook[2]]][v3]
    <3>1. m3[rook[2]] = NoPiece /\ q.mailbox = Put(m3, rook[2], Rook(us))
      BY <2>1
    <3>2. SumOf(u, q.mailbox)
      BY <1>v
    <3>3. Rook(us) \in Piece /\ rook[2] \in Square
      BY <2>9
    <3> QED BY <2>4, <3>1, <3>2, <3>3, <1>f
  <2> QED BY Zenon, <2>3, <2>5, <2>6, <2>7, <2>8
<1> QED BY Zenon, <1>2, <1>4 DEF SumOver

LEMMA ScoresCancel ==
  ASSUME NEW a \in Int \X Int, NEW t \in Int \X Int, NEW x \in Int \X Int, NEW y \in Int \X Int, NEW w \in Int \X Int
  PROVE  /\ Plus(Plus(a, Plus(x, w)), Plus(Minus(Minus(t, a), x), Zero)) = Plus(t, w)
         /\ Plus(Plus(a, w), Plus(Minus(Minus(t, a), Zero), Zero)) = Plus(t, w)
         /\ Plus(Plus(a, Plus(x, w)), Plus(Minus(Minus(t, a), Zero), Minus(y, x))) = Plus(y, Plus(t, w))
<1>1. \A b, c \in Int \X Int : Minus(b, c) = <<b[1] - c[1], b[2] - c[2]>>
  BY DEF Minus, Plus, Times
<1>2. \A b, c \in Int \X Int : Plus(b, c) \in Int \X Int /\ Minus(b, c) \in Int \X Int
  BY ScoresAdd
<1>3. Zero \in Int \X Int /\ Zero[1] = 0 /\ Zero[2] = 0
  BY DEF Zero
<1>4. \A b, c \in Int \X Int : /\ Minus(b, c)[1] = b[1] - c[1] /\ Minus(b, c)[2] = b[2] - c[2]
                               /\ Plus(b, c)[1] = b[1] + c[1] /\ Plus(b, c)[2] = b[2] + c[2]
  BY <1>1 DEF Plus
<1>5. ASSUME NEW b \in Int \X Int, NEW c \in Int \X Int, b[1] = c[1], b[2] = c[2] PROVE b = c
  BY <1>5
<1>6. a[1] \in Int /\ a[2] \in Int /\ t[1] \in Int /\ t[2] \in Int /\ x[1] \in Int /\ x[2] \in Int
      /\ y[1] \in Int /\ y[2] \in Int /\ w[1] \in Int /\ w[2] \in Int
  OBVIOUS
<1> HIDE DEF Plus, Minus
<1>7. Plus(Plus(a, Plus(x, w)), Plus(Minus(Minus(t, a), x), Zero)) = Plus(t, w)
  <2> DEFINE b == Plus(Plus(a, Plus(x, w)), Plus(Minus(Minus(t, a), x), Zero))
             c == Plus(t, w)
  <2>1. /\ Plus(x, w) \in Int \X Int /\ Plus(a, Plus(x, w)) \in Int \X Int /\ Minus(t, a) \in Int \X Int
        /\ Minus(Minus(t, a), x) \in Int \X Int /\ Plus(Minus(Minus(t, a), x), Zero) \in Int \X Int
    BY <1>2, <1>3
  <2>2. b \in Int \X Int /\ c \in Int \X Int
    BY <1>2, <2>1
  <2>3. b[1] = c[1] /\ b[2] = c[2]
    <3>1. Plus(a, Plus(x, w))[1] = a[1] + (x[1] + w[1]) /\ Plus(a, Plus(x, w))[2] = a[2] + (x[2] + w[2])
      BY <1>4, <2>1
    <3>2. /\ Minus(Minus(t, a), x)[1] = (t[1] - a[1]) - x[1] /\ Minus(Minus(t, a), x)[2] = (t[2] - a[2]) - x[2]
      BY <1>4, <2>1
    <3>3. /\ Plus(Minus(Minus(t, a), x), Zero)[1] = ((t[1] - a[1]) - x[1]) + 0
          /\ Plus(Minus(Minus(t, a), x), Zero)[2] = ((t[2] - a[2]) - x[2]) + 0
      BY <1>3, <1>4, <2>1, <3>2
    <3>4. /\ b[1] = (a[1] + (x[1] + w[1])) + (((t[1] - a[1]) - x[1]) + 0)
          /\ b[2] = (a[2] + (x[2] + w[2])) + (((t[2] - a[2]) - x[2]) + 0)
      BY <1>4, <2>1, <3>1, <3>3
    <3>5. c[1] = t[1] + w[1] /\ c[2] = t[2] + w[2]
      BY <1>4
    <3> HIDE DEF b, c
    <3> QED BY <1>6, <3>4, <3>5
  <2> HIDE DEF b, c
  <2>4. b = c
    BY <1>5, <2>2, <2>3
  <2> QED BY <2>4 DEF b, c
<1>8. Plus(Plus(a, w), Plus(Minus(Minus(t, a), Zero), Zero)) = Plus(t, w)
  <2> DEFINE b == Plus(Plus(a, w), Plus(Minus(Minus(t, a), Zero), Zero))
             c == Plus(t, w)
  <2>1. /\ Plus(a, w) \in Int \X Int /\ Minus(t, a) \in Int \X Int
        /\ Minus(Minus(t, a), Zero) \in Int \X Int /\ Plus(Minus(Minus(t, a), Zero), Zero) \in Int \X Int
    BY <1>2, <1>3
  <2>2. b \in Int \X Int /\ c \in Int \X Int
    BY <1>2, <2>1
  <2>3. b[1] = c[1] /\ b[2] = c[2]
    BY SMTT(40), <1>3, <1>4, <1>6, <2>1
  <2> HIDE DEF b, c
  <2>4. b = c
    BY <1>5, <2>2, <2>3
  <2> QED BY <2>4 DEF b, c
<1>9. Plus(Plus(a, Plus(x, w)), Plus(Minus(Minus(t, a), Zero), Minus(y, x))) = Plus(y, Plus(t, w))
  <2> DEFINE b == Plus(Plus(a, Plus(x, w)), Plus(Minus(Minus(t, a), Zero), Minus(y, x)))
             c == Plus(y, Plus(t, w))
  <2>1. /\ Plus(x, w) \in Int \X Int /\ Plus(a, Plus(x, w)) \in Int \X Int /\ Minus(t, a) \in Int \X Int
        /\ Minus(Minus(t, a), Zero) \in Int \X Int /\ Plus(Minus(Minus(t, a), Zero), Minus(y, x)) \in Int \X Int
        /\ Minus(y, x) \in Int \X Int /\ Plus(t, w) \in Int \X Int
    BY <1>2, <1>3
  <2>2. b \in Int \X Int /\ c \in Int \X Int
    BY <1>2, <2>1
  <2>3. b[1] = c[1] /\ b[2] = c[2]
    <3>1. Plus(a, Plus(x, w))[1] = a[1] + (x[1] + w[1]) /\ Plus(a, Plus(x, w))[2] = a[2] + (x[2] + w[2])
      BY SMTT(40), <1>4, <2>1
    <3>2. /\ Minus(Minus(t, a), Zero)[1] = (t[1] - a[1]) - 0 /\ Minus(Minus(t, a), Zero)[2] = (t[2] - a[2]) - 0
      BY SMTT(40), <1>3, <1>4, <2>1
    <3>3. /\ Plus(Minus(Minus(t, a), Zero), Minus(y, x))[1] = ((t[1] - a[1]) - 0) + (y[1] - x[1])
          /\ Plus(Minus(Minus(t, a), Zero), Minus(y, x))[2] = ((t[2] - a[2]) - 0) + (y[2] - x[2])
      BY <1>4, <2>1, <3>2
    <3>4. /\ b[1] = (a[1] + (x[1] + w[1])) + (((t[1] - a[1]) - 0) + (y[1] - x[1]))
          /\ b[2] = (a[2] + (x[2] + w[2])) + (((t[2] - a[2]) - 0) + (y[2] - x[2]))
      BY <1>4, <2>1, <3>1, <3>3
    <3>5. c[1] = y[1] + (t[1] + w[1]) /\ c[2] = y[2] + (t[2] + w[2])
      BY <1>4, <2>1
    <3> HIDE DEF b, c
    <3> QED BY <1>6, <3>4, <3>5
  <2> HIDE DEF b, c
  <2>4. b = c
    BY <1>5, <2>2, <2>3
  <2> QED BY <2>4 DEF b, c
<1> QED BY <1>7, <1>8, <1>9

LEMMA ScoreMade ==
  ASSUME NEW p, Legal(p), NEW mv, StepInv(p, mv), NEW q, q = MakeMove(p, mv), p.score = ScoreFromScratch(p)
  PROVE  q.score = ScoreFromScratch(q)
<1> DEFINE C == Int \X Int
           m == p.mailbox
           us == p.side
           mover == m[mv.from]
           lands == LandsAs(mover, mv)
           captureSq == CaptureSquare(us, mv)
           rook == CastleRookSquares(us, mv.flag)
           undo == Undo(p, mv)
           v == ScoreFromScratch(p)
           u == ScoreFromScratch(q)
           V(piece, s) == Psqt[piece.color][piece.kind][s]
           A == V(mover, mv.from)
           T == V(lands, mv.to)
           X == V(m[captureSq], captureSq)
           R1 == V(Rook(us), rook[1])
           R2 == V(Rook(us), rook[2])
<1>0. Sound(p) /\ us \in Color /\ mv.from \in Square /\ mv.to \in Square
  BY PieceSets DEF Legal, StepInv
<1>1. /\ mover \in Piece /\ mover.color = us /\ lands \in Piece
      /\ IsCapture(mv) => captureSq \in Square /\ m[captureSq] \in Piece
      /\ ~IsPromotion(mv) => lands = mover
      /\ \A piece \in Piece : piece # NoPiece
  BY MoverIs, Pieces1
<1>2. undo.captured = IF IsCapture(mv) THEN m[captureSq] ELSE NoPiece
  BY UndoIs
<1>3. Sound(q) /\ q.score = Plus(p.score, ScoreDelta(mv, mover, undo.captured))
  BY MakeMoveIs
<1>c. IsCastling(mv) => rook[1] \in Square /\ rook[2] \in Square /\ Rook(us) \in Piece /\ ~IsCapture(mv) /\ ~IsPromotion(mv)
  BY <1>0, CastlingIs, Pieces1
<1>4. SumOver(C, ScoreAdd, ScoreVal, m, us, mv, v, u)
  <2>1. Summed(v, C, Zero, ScoreAdd, ScoreVal, p.mailbox) /\ Summed(u, C, Zero, ScoreAdd, ScoreVal, q.mailbox)
    BY <1>0, <1>3, SumsAre
  <2>2. Adding(C, Zero, ScoreAdd, ScoreVal)
    BY ScoreAdding
  <2> HIDE DEF C, v, u
  <2> QED BY <2>1, <2>2, SumMade
<1>5. \A piece \in Piece, s \in Square : ScoreVal[piece][s] = V(piece, s) /\ V(piece, s) \in C
  <2> SUFFICES ASSUME NEW piece \in Piece, NEW s \in Square PROVE ScoreVal[piece][s] = V(piece, s) /\ V(piece, s) \in C
    OBVIOUS
  <2>1. piece.color \in Color /\ piece.kind \in PieceKind
    BY Pieces1
  <2> QED BY <2>1, TablesAreScores DEF ScoreVal
<1>6. \A a, b \in C : ScoreAdd[a][b] = Plus(a, b) /\ Plus(a, b) \in C
  BY ScoresAdd DEF ScoreAdd
<1>7. /\ A \in C /\ T \in C /\ ScoreVal[mover][mv.from] = A /\ ScoreVal[lands][mv.to] = T
      /\ IsCapture(mv) => X \in C /\ ScoreVal[m[captureSq]][captureSq] = X
      /\ IsCastling(mv) => /\ R1 \in C /\ R2 \in C /\ ScoreVal[Rook(us)][rook[1]] = R1 /\ ScoreVal[Rook(us)][rook[2]] = R2
                           /\ ScoreVal[mover][mv.to] = T
  <2>1. A \in C /\ ScoreVal[mover][mv.from] = A
    BY <1>0, <1>1, <1>5
  <2>2. T \in C /\ ScoreVal[lands][mv.to] = T
    BY <1>0, <1>1, <1>5
  <2>3. IsCapture(mv) => X \in C /\ ScoreVal[m[captureSq]][captureSq] = X
    BY <1>1, <1>5
  <2>4. IsCastling(mv) => /\ R1 \in C /\ R2 \in C /\ ScoreVal[Rook(us)][rook[1]] = R1 /\ ScoreVal[Rook(us)][rook[2]] = R2
    <3> SUFFICES ASSUME IsCastling(mv)
                 PROVE  /\ R1 \in C /\ R2 \in C /\ ScoreVal[Rook(us)][rook[1]] = R1 /\ ScoreVal[Rook(us)][rook[2]] = R2
      OBVIOUS
    <3>1. rook[1] \in Square /\ rook[2] \in Square /\ Rook(us) \in Piece
      BY <1>c
    <3> HIDE DEF rook, us, C
    <3> QED BY <1>5, <3>1
  <2>5. IsCastling(mv) => lands = mover
    BY <1>1, <1>c
  <2> HIDE DEF A, T, X, R1, R2, mover, lands, captureSq, rook, us, m, C
  <2> QED BY <2>1, <2>2, <2>3, <2>4, <2>5
<1>8. ScoreDelta(mv, mover, undo.captured)
        = Plus(Minus(Minus(T, A), IF IsCapture(mv) THEN X ELSE Zero), IF IsCastling(mv) THEN Minus(R2, R1) ELSE Zero)
  <2>1. undo.captured # NoPiece <=> IsCapture(mv)
    BY <1>1, <1>2
  <2>2. Rook(us).color = us /\ Rook(us).kind = "Rook"
    BY DEF Rook
  <2>3. mover.color = us
    BY <1>1
  <2> HIDE DEF mover, m, us, undo
  <2>4. ScoreDelta(mv, mover, undo.captured)
         = Plus(Minus(Minus(T, A), IF undo.captured # NoPiece THEN V(undo.captured, captureSq) ELSE Zero),
                IF IsCastling(mv) THEN Minus(Psqt[us]["Rook"][rook[2]], Psqt[us]["Rook"][rook[1]]) ELSE Zero)
    BY <2>3 DEF ScoreDelta
  <2>5. Psqt[us]["Rook"][rook[2]] = R2 /\ Psqt[us]["Rook"][rook[1]] = R1
    BY <2>2
  <2>6. (IF undo.captured # NoPiece THEN V(undo.captured, captureSq) ELSE Zero) = IF IsCapture(mv) THEN X ELSE Zero
    BY <1>2, <2>1
  <2> QED BY <2>4, <2>5, <2>6
<1> HIDE DEF C, m, us, mover, lands, captureSq, rook, undo, v, u, A, T, X, R1, R2
<1>9. p.score = v
  BY DEF v
<1>10. q.score = u
  <2>1. CASE IsCastling(mv)
    <3>1. PICK w \in C : v = ScoreAdd[A][ScoreAdd[R1][w]] /\ u = ScoreAdd[R2][ScoreAdd[T][w]]
      BY Zenon, <1>4, <1>7, <2>1 DEF SumOver, mover, rook
    <3>2. v = Plus(A, Plus(R1, w)) /\ u = Plus(R2, Plus(T, w))
      BY <1>6, <1>7, <2>1, <3>1
    <3>3. q.score = Plus(v, Plus(Minus(Minus(T, A), Zero), Minus(R2, R1)))
      BY <1>3, <1>8, <1>9, <1>c, <2>1
    <3>4. Plus(Plus(A, Plus(R1, w)), Plus(Minus(Minus(T, A), Zero), Minus(R2, R1))) = Plus(R2, Plus(T, w))
      BY <1>7, <2>1, ScoresCancel DEF C
    <3> QED BY <3>2, <3>3, <3>4
  <2>2. CASE ~IsCastling(mv) /\ IsCapture(mv)
    <3>1. PICK w \in C : v = ScoreAdd[A][ScoreAdd[X][w]] /\ u = ScoreAdd[T][w]
      BY <1>4, <1>7, <2>2 DEF SumOver, mover, lands, captureSq
    <3>2. v = Plus(A, Plus(X, w)) /\ u = Plus(T, w)
      BY <1>6, <1>7, <2>2, <3>1
    <3>3. q.score = Plus(v, Plus(Minus(Minus(T, A), X), Zero))
      BY <1>3, <1>8, <1>9, <2>2
    <3>4. Plus(Plus(A, Plus(X, w)), Plus(Minus(Minus(T, A), X), Zero)) = Plus(T, w)
      BY <1>7, <2>2, ScoresCancel DEF C
    <3> QED BY <3>2, <3>3, <3>4
  <2>3. CASE ~IsCastling(mv) /\ ~IsCapture(mv)
    <3>1. PICK w \in C : v = ScoreAdd[A][w] /\ u = ScoreAdd[T][w]
      BY <1>4, <1>7, <2>3 DEF SumOver, mover, lands
    <3>2. v = Plus(A, w) /\ u = Plus(T, w)
      BY <1>6, <1>7, <3>1
    <3>3. q.score = Plus(v, Plus(Minus(Minus(T, A), Zero), Zero))
      BY <1>3, <1>8, <1>9, <2>3
    <3>4. Plus(Plus(A, w), Plus(Minus(Minus(T, A), Zero), Zero)) = Plus(T, w)
      BY <1>7, ScoresCancel DEF C
    <3> QED BY <3>2, <3>3, <3>4
  <2> QED BY <2>1, <2>2, <2>3
<1> QED BY <1>10 DEF u

LEMMA PhaseMade ==
  ASSUME NEW p, Legal(p), NEW mv, StepInv(p, mv), NEW q, q = MakeMove(p, mv), p.phase = PhaseFromScratch(p)
  PROVE  q.phase = PhaseFromScratch(q)
<1> DEFINE C == Int
           m == p.mailbox
           us == p.side
           mover == m[mv.from]
           lands == LandsAs(mover, mv)
           captureSq == CaptureSquare(us, mv)
           rook == CastleRookSquares(us, mv.flag)
           undo == Undo(p, mv)
           v == PhaseFromScratch(p)
           u == PhaseFromScratch(q)
           A == PhaseDelta[mover.kind]
           T == PhaseDelta[lands.kind]
           X == PhaseDelta[m[captureSq].kind]
           R == PhaseDelta[Rook(us).kind]
<1>0. Sound(p) /\ us \in Color /\ mv.from \in Square /\ mv.to \in Square
  BY PieceSets DEF Legal, StepInv
<1>1. /\ mover \in Piece /\ mover.color = us /\ lands \in Piece
      /\ IsCapture(mv) => captureSq \in Square /\ m[captureSq] \in Piece
      /\ ~IsPromotion(mv) => lands = mover
      /\ IsPromotion(mv) => mover = Pawn(us)
      /\ \A piece \in Piece : piece # NoPiece
  BY MoverIs, Pieces1
<1>2. undo.captured = IF IsCapture(mv) THEN m[captureSq] ELSE NoPiece
  BY UndoIs
<1>3. Sound(q) /\ q.phase = p.phase + PhaseDeltaOf(mv, undo.captured)
  BY MakeMoveIs
<1>c. IsCastling(mv) => rook[1] \in Square /\ rook[2] \in Square /\ Rook(us) \in Piece /\ ~IsCapture(mv) /\ ~IsPromotion(mv)
  BY <1>0, CastlingIs, Pieces1
<1>4. SumOver(C, IntAdd, PhaseVal, m, us, mv, v, u)
  <2>1. Summed(v, C, 0, IntAdd, PhaseVal, p.mailbox) /\ Summed(u, C, 0, IntAdd, PhaseVal, q.mailbox)
    BY <1>0, <1>3, SumsAre
  <2>2. Adding(C, 0, IntAdd, PhaseVal)
    BY PhaseAdding
  <2> HIDE DEF C, v, u
  <2> QED BY <2>1, <2>2, SumMade
<1>5. \A piece \in Piece, s \in Square : PhaseVal[piece][s] = PhaseDelta[piece.kind] /\ PhaseDelta[piece.kind] \in C
  <2> SUFFICES ASSUME NEW piece \in Piece, NEW s \in Square
               PROVE  PhaseVal[piece][s] = PhaseDelta[piece.kind] /\ PhaseDelta[piece.kind] \in C
    OBVIOUS
  <2>1. piece.color \in Color /\ piece.kind \in PieceKind
    BY Pieces1
  <2>2. PhaseDelta[piece.kind] \in C
    BY <2>1, TablesAreScores
  <2> QED BY <2>2 DEF PhaseVal
<1>6. \A a, b \in C : IntAdd[a][b] = a + b /\ a + b \in C
  BY DEF IntAdd
<1>7. /\ A \in C /\ T \in C /\ PhaseVal[mover][mv.from] = A /\ PhaseVal[lands][mv.to] = T
      /\ IsCapture(mv) => X \in C /\ PhaseVal[m[captureSq]][captureSq] = X
      /\ IsCastling(mv) => /\ R \in C /\ PhaseVal[Rook(us)][rook[1]] = R /\ PhaseVal[Rook(us)][rook[2]] = R
                           /\ PhaseVal[mover][mv.to] = A
  <2>1. A \in C /\ PhaseVal[mover][mv.from] = A
    BY <1>0, <1>1, <1>5
  <2>2. T \in C /\ PhaseVal[lands][mv.to] = T
    BY <1>0, <1>1, <1>5
  <2>3. IsCapture(mv) => X \in C /\ PhaseVal[m[captureSq]][captureSq] = X
    BY <1>1, <1>5
  <2>4. IsCastling(mv) => /\ R \in C /\ PhaseVal[Rook(us)][rook[1]] = R /\ PhaseVal[Rook(us)][rook[2]] = R
    <3> SUFFICES ASSUME IsCastling(mv)
                 PROVE  R \in C /\ PhaseVal[Rook(us)][rook[1]] = R /\ PhaseVal[Rook(us)][rook[2]] = R
      OBVIOUS
    <3>1. rook[1] \in Square /\ rook[2] \in Square /\ Rook(us) \in Piece
      BY <1>c
    <3> HIDE DEF rook, us, C
    <3> QED BY <1>5, <3>1
  <2>5. PhaseVal[mover][mv.to] = A
    BY <1>0, <1>1, <1>5
  <2> HIDE DEF A, T, X, R, mover, lands, captureSq, rook, us, m, C
  <2> QED BY <2>1, <2>2, <2>3, <2>4, <2>5
<1>8. PhaseDeltaOf(mv, undo.captured) = (T - A) - (IF IsCapture(mv) THEN X ELSE 0)
  <2>1. undo.captured # NoPiece <=> IsCapture(mv)
    BY <1>1, <1>2
  <2>2. (IF IsPromotion(mv) THEN PhaseDelta[PromotionKind(mv)] ELSE 0) = T - A
    <3>1. CASE IsPromotion(mv)
      <4>1. A = 0
        BY <1>1, <3>1 DEF Pawn, PhaseDelta
      <4>2. T = PhaseDelta[PromotionKind(mv)]
        BY <3>1 DEF LandsAs
      <4>3. T \in Int
        BY <1>7
      <4> HIDE DEF A, T
      <4> QED BY <3>1, <4>1, <4>2, <4>3
    <3>2. CASE ~IsPromotion(mv)
      <4>1. A = T /\ A \in Int
        BY <1>1, <1>7, <3>2
      <4> HIDE DEF A, T
      <4> QED BY <3>2, <4>1
    <3> QED BY <3>1, <3>2
  <2>3. (IF undo.captured # NoPiece THEN PhaseDelta[undo.captured.kind] ELSE 0) = IF IsCapture(mv) THEN X ELSE 0
    BY <1>2, <2>1
  <2> HIDE DEF A, T, X, undo
  <2> QED BY <2>2, <2>3 DEF PhaseDeltaOf
<1>9. p.phase = v /\ (IsCastling(mv) => A = T)
  BY <1>1, <1>c
<1> HIDE DEF C, m, us, mover, lands, captureSq, rook, undo, v, u, A, T, X, R
<1>10. q.phase = u
  <2>1. CASE IsCastling(mv)
    <3>1. PICK w \in C : v = IntAdd[A][IntAdd[R][w]] /\ u = IntAdd[R][IntAdd[A][w]]
      BY Zenon, <1>4, <1>7, <2>1 DEF SumOver, mover, rook
    <3>2. v = A + (R + w) /\ u = R + (A + w)
      BY <1>6, <1>7, <2>1, <3>1
    <3>3. q.phase = v + ((T - A) - 0)
      BY <1>3, <1>8, <1>9, <1>c, <2>1
    <3>4. A \in Int /\ R \in Int /\ w \in Int /\ A = T
      BY <1>7, <1>9, <2>1 DEF C
    <3> QED BY <3>2, <3>3, <3>4
  <2>2. CASE ~IsCastling(mv) /\ IsCapture(mv)
    <3>1. PICK w \in C : v = IntAdd[A][IntAdd[X][w]] /\ u = IntAdd[T][w]
      BY <1>4, <1>7, <2>2 DEF SumOver, mover, lands, captureSq
    <3>2. v = A + (X + w) /\ u = T + w
      BY <1>6, <1>7, <2>2, <3>1
    <3>3. q.phase = v + ((T - A) - X)
      BY <1>3, <1>8, <1>9, <2>2
    <3>4. A \in Int /\ X \in Int /\ w \in Int /\ T \in Int
      BY <1>7, <2>2 DEF C
    <3> QED BY <3>2, <3>3, <3>4
  <2>3. CASE ~IsCastling(mv) /\ ~IsCapture(mv)
    <3>1. PICK w \in C : v = IntAdd[A][w] /\ u = IntAdd[T][w]
      BY <1>4, <1>7, <2>3 DEF SumOver, mover, lands
    <3>2. v = A + w /\ u = T + w
      BY <1>6, <1>7, <3>1
    <3>3. q.phase = v + ((T - A) - 0)
      BY <1>3, <1>8, <1>9, <2>3
    <3>4. A \in Int /\ w \in Int /\ T \in Int
      BY <1>7 DEF C
    <3> QED BY <3>2, <3>3, <3>4
  <2> QED BY <2>1, <2>2, <2>3
<1> QED BY <1>10 DEF u

\* A king is worth nothing and no piece more than four: the phase of a board
\* with a king fits its byte.
LEMMA PhaseBounded ==
  ASSUME NEW m \in Boards, NEW v, Summed(v, Int, 0, IntAdd, PhaseVal, m)
  PROVE  v \in Nat /\ v <= 4 * Cardinality(Occ(m))
<1> DEFINE S == Occ(m)
           C == Int
           step == StepsOver(C, IntAdd, PhaseVal, m, S)
           pick == Picking(S)
<1>1. PICK g \in [SUBSET S -> C] : FoldOf(g, 0, step, pick, S) /\ v = g[S]
  BY DEF Summed
<1>2. IsFiniteSet(S) /\ S \in SUBSET S
  BY FiniteBoard
<1>3. \A s \in SUBSET S : s # {} => pick[s] \in s
  BY DEF Picking
<1>4. \A x \in S, c \in Int : \E d \in 0..4 : step[x][c] = d + c
  <2> SUFFICES ASSUME NEW x \in S, NEW c \in Int PROVE \E d \in 0..4 : step[x][c] = d + c
    OBVIOUS
  <2>1. x \in Square /\ m[x] \in Piece
    BY DEF Occ, Boards
  <2> DEFINE d == PhaseDelta[m[x].kind]
  <2>2. d \in 0..4
    <3>1. m[x].kind \in PieceKind
      BY <2>1, Pieces1
    <3> QED BY <3>1 DEF PhaseDelta, PieceKind
  <2>3. PhaseVal[m[x]][x] = d
    BY <2>1 DEF PhaseVal
  <2>4. step[x][c] = IntAdd[PhaseVal[m[x]][x]][c]
    BY DEF StepsOver
  <2> HIDE DEF d, step
  <2>5. IntAdd[d][c] = d + c
    BY <2>2 DEF IntAdd
  <2> QED BY <2>2, <2>3, <2>4, <2>5
<1>5. FoldOf(g, 0, step, pick, S)
  BY <1>1
<1>c. \A s \in SUBSET S : g[s] \in Int
  BY <1>1
<1> HIDE DEF S, step, pick
<1>6. g[{}] = 0
  BY <1>5, FoldAt
<1>7. \A s \in SUBSET S : s # {} => g[s] = step[pick[s]][g[s \ {pick[s]}]]
  <2> SUFFICES ASSUME NEW s \in SUBSET S, s # {} PROVE g[s] = step[pick[s]][g[s \ {pick[s]}]]
    OBVIOUS
  <2>1. g[s] = IF s = {} THEN 0 ELSE step[pick[s]][g[s \ {pick[s]}]]
    BY <1>5 DEF FoldOf
  <2> QED BY <2>1
<1> DEFINE Bad == {s \in SUBSET S : ~(g[s] \in Nat /\ g[s] <= 4 * Cardinality(s))}
<1>8. Bad = {}
  <2> SUFFICES ASSUME Bad # {} PROVE FALSE
    OBVIOUS
  <2>0. Bad \in SUBSET SUBSET S
    OBVIOUS
  <2>1. PICK s \in Bad : \A u \in Bad : u \subseteq s => u = s
    <3> HIDE DEF Bad
    <3> QED BY <1>2, <2>0, SmallestSet
  <2>2. s \in SUBSET S /\ ~(g[s] \in Nat /\ g[s] <= 4 * Cardinality(s)) /\ IsFiniteSet(s)
    BY <1>2, <2>1, FS_Subset
  <2>3. s # {}
    BY <1>6, <2>2, FS_EmptySet
  <2> DEFINE t == s \ {pick[s]}
  <2>4. pick[s] \in s /\ t \in SUBSET S /\ t # s /\ t \subseteq s
    BY <1>3, <2>2, <2>3
  <2>5. g[t] \in Nat /\ g[t] <= 4 * Cardinality(t)
    BY <2>1, <2>4
  <2>6. Cardinality(t) = Cardinality(s) - 1 /\ Cardinality(s) \in Nat
    BY <2>2, <2>4, FS_RemoveElement, FS_CardinalityType
  <2>7. g[s] = step[pick[s]][g[t]] /\ pick[s] \in S
    BY <1>7, <2>2, <2>3, <2>4
  <2> HIDE DEF t
  <2>8. PICK d \in 0..4 : g[s] = d + g[t]
    BY <1>4, <2>5, <2>7
  <2> QED BY <2>2, <2>5, <2>6, <2>8
<1>9. g[S] \in Nat /\ g[S] <= 4 * Cardinality(S)
  BY <1>2, <1>8
<1> QED BY <1>1, <1>9 DEF S

LEMMA PhaseFits ==
  ASSUME NEW p, Sound(p), NEW k \in Square, NEW c \in Color, p.mailbox[k] = King(c)
  PROVE  PhaseFromScratch(p) \in 0..255
<1> DEFINE m == p.mailbox
           n == Put(m, k, NoPiece)
           v == PhaseFromScratch(p)
<1>1. m \in Boards /\ n \in Boards /\ m[k] # NoPiece /\ m[k] = King(c) /\ King(c) \in Piece
  <2>1. m \in Boards /\ King(c) \in Piece
    BY BoardFunction, Pieces1 DEF Boards
  <2> QED BY <2>1, PutBoard, Pieces1
<1>2. Summed(v, Int, 0, IntAdd, PhaseVal, m)
  BY SumsAre
<1>3. Adding(Int, 0, IntAdd, PhaseVal)
  BY PhaseAdding
<1>n. n = Put(m, k, NoPiece)
  OBVIOUS
<1>o. Occ(n) \subseteq Square \ {k}
  <2>1. n[k] = NoPiece
    BY <1>1 DEF Put, Boards
  <2> QED BY <2>1 DEF Occ
<1> HIDE DEF m, n, v
<1>4. PICK w \in Int : Summed(w, Int, 0, IntAdd, PhaseVal, n)
  <2> DEFINE C == Int
  <2>1. Adding(C, 0, IntAdd, PhaseVal)
    BY <1>3
  <2> HIDE DEF C
  <2>2. \E w \in C : Summed(w, C, 0, IntAdd, PhaseVal, n)
    BY <1>1, <2>1, SumExists
  <2> QED BY <2>2 DEF C
<1>5. v = IntAdd[PhaseVal[m[k]][k]][w]
  BY <1>1, <1>2, <1>3, <1>4, <1>n, SumTaken
<1>6. PhaseVal[m[k]][k] = 0
  <2>1. PhaseVal[m[k]][k] = PhaseDelta[m[k].kind]
    BY <1>1 DEF PhaseVal
  <2>2. m[k].kind = "King"
    BY <1>1 DEF King
  <2> QED BY <2>1, <2>2 DEF PhaseDelta
<1>7. v = w
  <2>1. IntAdd[0][w] = 0 + w
    BY DEF IntAdd
  <2> QED BY <1>5, <1>6, <2>1
<1>8. w \in Nat /\ w <= 4 * Cardinality(Occ(n))
  BY <1>1, <1>4, PhaseBounded
<1>9. Cardinality(Occ(n)) \in Nat /\ Cardinality(Occ(n)) <= 63
  <2>1. IsFiniteSet(Square) /\ Cardinality(Square) = 64
    <3> DEFINE a == 0
               b == 63
    <3>1. a \in Int /\ b \in Int /\ Square = a..b /\ b - a + 1 = 64 /\ a <= b
      BY DEF Square
    <3> HIDE DEF a, b
    <3> QED BY <3>1, FS_Interval
  <2>2. IsFiniteSet(Square \ {k}) /\ Cardinality(Square \ {k}) = 63
    BY <2>1, FS_RemoveElement
  <2>3. IsFiniteSet(Occ(n)) /\ Cardinality(Occ(n)) <= Cardinality(Square \ {k})
    BY <1>o, <2>2, FS_Subset
  <2> QED BY <2>2, <2>3, FS_CardinalityType
<1> QED BY <1>7, <1>8, <1>9 DEF v

-----------------------------------------------------------------------------
\* The values kept by small steps are those of a full computation, and a move
\* leaves its own king standing.
ValuesInv(p) ==
  /\ p.zobrist = FromScratch(p) /\ p.pawnZobrist = PawnZobristFromScratch(p)
  /\ p.score = ScoreFromScratch(p) /\ p.phase = PhaseFromScratch(p)
StandsFor(p, c) == p.mailbox[p.kingSq[c]] = King(c)
Sane(p) == Legal(p) /\ ValuesInv(p) /\ StandsFor(p, Flip(p.side))

LEMMA SameValues ==
  ASSUME NEW p, Sound(p), NEW q, Sound(q), p.mailbox = q.mailbox
  PROVE  /\ PawnZobristFromScratch(q) = PawnZobristFromScratch(p)
         /\ ScoreFromScratch(q) = ScoreFromScratch(p) /\ PhaseFromScratch(q) = PhaseFromScratch(p)
         /\ (p.castling = q.castling /\ p.ep = q.ep /\ p.side = q.side) => FromScratch(q) = FromScratch(p)
<1> DEFINE m == p.mailbox
<1>0. m \in Boards /\ m = p.mailbox /\ m = q.mailbox
  BY BoardFunction DEF Boards
<1>1. PawnZobristFromScratch(q) = PawnZobristFromScratch(p)
  BY BoardKeysAre
<1>2. ScoreFromScratch(q) = ScoreFromScratch(p)
  <2> DEFINE C == Int \X Int
             v == ScoreFromScratch(p)
             u == ScoreFromScratch(q)
  <2>1. Adding(C, Zero, ScoreAdd, ScoreVal)
    BY ScoreAdding
  <2>2. Summed(v, C, Zero, ScoreAdd, ScoreVal, m) /\ Summed(u, C, Zero, ScoreAdd, ScoreVal, m)
    BY SumsAre
  <2> HIDE DEF C, v, u, m
  <2>3. u = v
    BY <1>0, <2>1, <2>2, SumsAgree
  <2> QED BY <2>3 DEF u, v
<1>3. PhaseFromScratch(q) = PhaseFromScratch(p)
  <2> DEFINE C == Int
             v == PhaseFromScratch(p)
             u == PhaseFromScratch(q)
  <2>1. Adding(C, 0, IntAdd, PhaseVal)
    BY PhaseAdding
  <2>2. Summed(v, C, 0, IntAdd, PhaseVal, m) /\ Summed(u, C, 0, IntAdd, PhaseVal, m)
    BY SumsAre
  <2> HIDE DEF C, v, u, m
  <2>3. u = v
    BY <1>0, <2>1, <2>2, SumsAgree
  <2> QED BY <2>3 DEF u, v
<1>4. ASSUME p.castling = q.castling, p.ep = q.ep, p.side = q.side
      PROVE  FromScratch(q) = FromScratch(p)
  <2>1. Pieces(p, p.side, "Pawn") = Pieces(q, p.side, "Pawn")
    <3>0. p.side \in Color
      BY PieceSets
    <3>1. ASSUME NEW c \in Color, NEW k \in PieceKind PROVE Pieces(p, c, k) = Pieces(q, c, k)
      <4>1. Pieces(p, c, k) = {s \in Square : p.mailbox[s] = [color |-> c, kind |-> k]}
        BY PieceSets
      <4>2. Pieces(q, c, k) = {s \in Square : q.mailbox[s] = [color |-> c, kind |-> k]}
        BY PieceSets
      <4> QED BY <4>1, <4>2
    <3>2. "Pawn" \in PieceKind
      BY DEF PieceKind
    <3> QED BY <3>0, <3>1, <3>2
  <2>2. EpFileToHash(p) = EpFileToHash(q)
    BY <1>4, <2>1 DEF EpFileToHash
  <2> QED BY <1>4, <2>2, KeyParts
<1> QED BY <1>1, <1>2, <1>3, <1>4

LEMMA KingKept ==
  ASSUME NEW p, Legal(p), StandsFor(p, p.side), NEW mv, StepInv(p, mv), NEW q, q = MakeMove(p, mv)
  PROVE  StandsFor(q, p.side)
<1> DEFINE m == p.mailbox
           us == p.side
           mover == m[mv.from]
           lands == LandsAs(mover, mv)
           captureSq == CaptureSquare(us, mv)
           rook == CastleRookSquares(us, mv.flag)
           k == p.kingSq[us]
<1>0. /\ us \in Color /\ p.kingSq \in [Color -> Square] /\ KingInv(p) /\ m[k] = King(us) /\ k \in Square
      /\ mv.from \in Square /\ mv.to \in Square /\ Flip(us) # us
  BY FlipTwice DEF Legal, StepInv, Sound, Shape, StandsFor
<1>1. q.mailbox = MadeMailbox(m, us, mv) /\ q.kingSq = KingPut(p.kingSq, mv.to, mover)
  BY MakeMoveIs
<1>2. /\ mover \in Piece /\ mover.color = us
      /\ ~IsPromotion(mv) => lands = mover
      /\ IsPromotion(mv) => mover = Pawn(us)
      /\ IsCapture(mv) => captureSq \in Square /\ m[captureSq].color = Flip(us)
      /\ mv.flag # EnPassant => captureSq = mv.to
      /\ mv.flag = EnPassant => IsCapture(mv) /\ m[mv.to] = NoPiece
      /\ ~IsCapture(mv) => m[mv.to] = NoPiece
  BY MoverIs
<1>3. IsCastling(mv) => m[mv.from] = King(us)
  BY CastlingIs
<1>4. \A s \in Square :
        q.mailbox[s] = IF s = mv.to THEN lands
                       ELSE IF s = mv.from THEN NoPiece
                       ELSE IF mv.flag = EnPassant /\ s = captureSq THEN NoPiece
                       ELSE IF IsCastling(mv) /\ s = rook[1] THEN NoPiece
                       ELSE IF IsCastling(mv) /\ s = rook[2] THEN Rook(us)
                       ELSE m[s]
  BY <1>1 DEF MadeMailbox
<1>5. King(us).kind = "King" /\ Pawn(us).kind # "King" /\ King(us).color = us /\ King(us) # NoPiece
  BY <1>0, Pieces1 DEF King, Pawn
<1>6. mover.kind = "King" => mover = King(us)
  BY <1>2, Pieces1 DEF King
<1>7. mover = m[mv.from]
  OBVIOUS
<1> HIDE DEF mover, lands, captureSq, rook, k
<1>8. CASE mover.kind = "King"
  <2>1. q.kingSq[us] = mv.to
    BY <1>0, <1>1, <1>2, <1>8 DEF KingPut
  <2>2. lands = King(us)
    BY <1>2, <1>5, <1>6, <1>8
  <2> QED BY <1>0, <1>4, <2>1, <2>2 DEF StandsFor
<1>9. CASE mover.kind # "King"
  <2>1. q.kingSq[us] = k
    BY <1>1, <1>9 DEF KingPut, k
  <2>2. k # mv.from /\ ~IsCastling(mv)
    BY <1>0, <1>3, <1>5, <1>7, <1>9
  <2>3. k # mv.to
    BY <1>0, <1>2, <1>5
  <2>4. ~(mv.flag = EnPassant /\ k = captureSq)
    BY <1>0, <1>2, <1>5
  <2>5. q.mailbox[k] = m[k]
    BY <1>0, <1>4, <2>2, <2>3, <2>4
  <2> QED BY <1>0, <2>1, <2>5 DEF StandsFor
<1> QED BY <1>8, <1>9

LEMMA MadeSane ==
  ASSUME NEW p, Sane(p), StandsFor(p, p.side), NEW mv, StepInv(p, mv), NEW q, q = MakeMove(p, mv)
  PROVE  Sane(q)
<1>0. Legal(p) /\ ValuesInv(p) /\ p.side \in Color
  BY PieceSets DEF Sane, Legal
<1>1. Legal(q)
  BY <1>0, MadeLegal
<1>2. ValuesInv(q)
  BY <1>0, KeyMade, PawnKeyMade, ScoreMade, PhaseMade DEF ValuesInv
<1>3. q.side = Flip(p.side)
  BY <1>0, MakeMoveIs
<1>4. StandsFor(q, p.side)
  BY <1>0, KingKept
<1> QED BY <1>0, <1>1, <1>2, <1>3, <1>4, FlipTwice DEF Sane

LEMMA PassedSane ==
  ASSUME NEW p, Sane(p), StandsFor(p, p.side), NEW q, q = MakeNullMove(p)
  PROVE  Sane(q)
<1>0. Legal(p) /\ ValuesInv(p) /\ p.side \in Color /\ Sound(p)
  BY PieceSets DEF Sane, Legal
<1>1. /\ Sound(q) /\ q.side = Flip(p.side) /\ q.castling = p.castling /\ q.ep = NoSquare
      /\ q.mailbox = p.mailbox /\ q.kingSq = p.kingSq
      /\ q.zobrist = Xor(Xor(p.zobrist, EpKeys(EpFileToHash(p))), {TurnKey})
      /\ q.pawnZobrist = p.pawnZobrist /\ q.score = p.score /\ q.phase = p.phase
  BY <1>0, UnmakeNullIs
<1>2. Legal(q)
  BY <1>0, PassedLegal
<1>3. q.zobrist = FromScratch(q)
  <2> DEFINE B == BoardKeys(PieceKind, p.mailbox)
             R == RightKeys(p.castling)
             E == EpKeys(EpFileToHash(p))
             T == TurnKeys(p.side)
  <2>1. p.zobrist = Xor(Xor(Xor(B, R), E), T)
    BY <1>0, KeyParts DEF ValuesInv
  <2>2. FromScratch(q) = Xor(Xor(Xor(B, R), {}), Xor(T, {TurnKey}))
    <3>1. EpKeys(EpFileToHash(q)) = {}
      BY <1>1 DEF EpFileToHash, EpKeys
    <3>2. TurnKeys(q.side) = Xor(T, {TurnKey})
      BY <1>0, <1>1, TurnPassed
    <3> QED BY <1>1, <3>1, <3>2, KeyParts
  <2>3. q.zobrist = Xor(Xor(Xor(Xor(Xor(B, R), E), T), E), {TurnKey})
    BY <1>1, <2>1
  <2> DEFINE D == Xor(B, R)
             u == {TurnKey}
  <2> HIDE DEF E, T, D, u
  <2>4. Xor(Xor(Xor(Xor(D, E), T), E), u) = Xor(Xor(D, {}), Xor(T, u))
    <3>1. ASSUME NEW k PROVE k \in Xor(Xor(Xor(Xor(D, E), T), E), u) <=> k \in Xor(Xor(D, {}), Xor(T, u))
      <4>1. \A X, Y : k \in Xor(X, Y) <=> ~(k \in X <=> k \in Y)
        BY DEF Xor
      <4> QED BY <4>1
    <3> QED BY <3>1
  <2> QED BY <2>2, <2>3, <2>4 DEF D, u
<1>4. ValuesInv(q)
  BY <1>0, <1>1, <1>3, SameValues DEF ValuesInv
<1>5. StandsFor(q, Flip(q.side))
  BY <1>0, <1>1, FlipTwice DEF StandsFor
<1> QED BY <1>2, <1>4, <1>5 DEF Sane

LEMMA RefreshedValues ==
  ASSUME NEW p, Sound(p), NEW q, q = Refresh(p)
  PROVE  ValuesInv(q)
<1>1. /\ Sound(q) /\ q.mailbox = p.mailbox /\ q.side = p.side /\ q.castling = p.castling /\ q.ep = p.ep
  BY Refreshed
<1>2. /\ FromScratch(q) = FromScratch(p) /\ PawnZobristFromScratch(q) = PawnZobristFromScratch(p)
      /\ ScoreFromScratch(q) = ScoreFromScratch(p) /\ PhaseFromScratch(q) = PhaseFromScratch(p)
  BY <1>1, SameValues
<1> DEFINE z == FromScratch(p)
           pz == PawnZobristFromScratch(p)
           score == ScoreFromScratch(p)
           phase == PhaseFromScratch(p)
<1>3. z \in Keys /\ pz \in Keys /\ score \in Int \X Int /\ phase \in Int
  BY KeysTyped, ScoreTyped
<1>4. q = Valued(p, z, pz, score, phase)
  BY DEF Refresh, Valued
<1>5. /\ z = FromScratch(q) /\ pz = PawnZobristFromScratch(q) /\ score = ScoreFromScratch(q) /\ phase = PhaseFromScratch(q)
  BY <1>2
<1> HIDE DEF z, pz, score, phase
<1>6. q.zobrist = z /\ q.pawnZobrist = pz /\ q.score = score /\ q.phase = phase
  BY <1>3, <1>4, ValuedIs
<1> QED BY <1>5, <1>6 DEF ValuesInv

LEMMA KingsStand ==
  ASSUME NEW p, Legal(p), ValidPostParse(p), NEW c \in Color
  PROVE  StandsFor(p, c)
<1> DEFINE K == Pieces(p, c, "King")
<1>1. Cardinality(K) = 1
  BY DEF ValidPostParse
<1>2. K # {}
  <2> SUFFICES ASSUME K = {} PROVE FALSE
    OBVIOUS
  <2> QED BY <1>1, FS_EmptySet
<1>3. PICK s : s \in K
  BY <1>2
<1>4. s \in Square /\ p.mailbox[s] = King(c)
  <2>1. \A k \in PieceKind : Pieces(p, c, k) = {t \in Square : p.mailbox[t] = [color |-> c, kind |-> k]}
    BY PieceSets DEF Legal
  <2>2. "King" \in PieceKind
    BY DEF PieceKind
  <2>3. K = {t \in Square : p.mailbox[t] = [color |-> c, kind |-> "King"]}
    BY <2>1, <2>2
  <2> QED BY <1>3, <2>3 DEF King
<1> QED BY <1>4 DEF Legal, KingInv, StandsFor

LEMMA ParseSane ==
  ASSUME NEW fen \in FenType, Parse(fen).err = "None"
  PROVE  Sane(Parse(fen).pos)
<1> DEFINE placed == ParsePlacement(fen.placement)
           dressed == SetAuxState(placed.pos, fen.side, ToSet(fen.castling), SanitizeEp(placed.pos, fen.side, fen.ep),
                                  fen.halfmove, fen.fullmove)
           q == Refresh(dressed)
           p == Parse(fen).pos
<1>1. ValidPostParse(q) /\ p = q /\ Sound(dressed)
  BY Accepted
<1>2. Legal(p)
  BY ParseLegal
<1> HIDE DEF dressed
<1>4. ValuesInv(q)
  BY <1>1, RefreshedValues
<1> HIDE DEF q, p
<1>5. StandsFor(p, Flip(p.side))
  <2>1. Flip(p.side) \in Color
    BY <1>2, PieceSets DEF Legal
  <2> QED BY <1>1, <1>2, <2>1, KingsStand
<1>6. Sane(p)
  BY <1>1, <1>2, <1>4, <1>5 DEF Sane
<1> QED BY <1>6 DEF p
-----------------------------------------------------------------------------
\* What is written is read back: a reader that has read some tokens goes on
\* with the next one from there.
IsTokens(tokens) == tokens \in Seq(Token)

LEMMA NothingRead ==
  ASSUME NEW rank \in 0..7, NEW start \in Cursor
  PROVE  IsTokens(<<>>) /\ TokensRead(start, <<>>, rank) = start
<1> DEFINE n == 0
           tokens == <<>>
<1>1. n \in Nat /\ n = 0 /\ tokens \in [1..n -> Token] /\ tokens \in Seq(Token)
  BY EmptySeq
<1> HIDE DEF n, tokens
<1>2. PICK h \in [0..n -> Cursor] : ReadBy(h, n, start, tokens, rank)
  BY <1>1, TokenByToken
<1> QED BY <1>1, <1>2 DEF ReadBy, IsTokens, tokens

ReadsOn(start, rank, tokens, token, more) ==
  /\ IsTokens(more)
  /\ TokensRead(start, more, rank) = PlaceToken(TokensRead(start, tokens, rank), token, rank)

LEMMA ReadMore ==
  ASSUME NEW tokens, IsTokens(tokens), NEW token \in Token, NEW rank \in 0..7, NEW start \in Cursor,
         NEW more, more = Append(tokens, token)
  PROVE  ReadsOn(start, rank, tokens, token, more)
<1> DEFINE n == Len(tokens)
           m == n + 1
<1>1. n \in Nat /\ tokens \in [1..n -> Token]
  BY LenProperties DEF IsTokens
<1>2. /\ more \in Seq(Token) /\ Len(more) = m /\ more[m] = token
      /\ \A k \in 1..n : more[k] = tokens[k]
  BY AppendProperties DEF IsTokens
<1>3. m \in Nat /\ more \in [1..m -> Token]
  <2>1. m \in Nat
    BY <1>1
  <2> QED BY <1>2, <2>1, LenProperties
<1>4. \A k \in 0..n : k \in 0..m /\ (k # 0 => k \in 1..n /\ k \in 1..m /\ k - 1 \in 0..n)
  BY <1>1
<1>5. m \in 1..m /\ n \in 0..n /\ m - 1 = n
  BY <1>1
<1> HIDE DEF n, m
<1>6. PICK h \in [0..n -> Cursor] : ReadBy(h, n, start, tokens, rank)
  BY <1>1, TokenByToken
<1>7. PICK g \in [0..m -> Cursor] : ReadBy(g, m, start, more, rank)
  BY <1>3, TokenByToken
<1> DEFINE Good == {k \in 0..n : g[k] = h[k]}
<1>8. 0 \in Good
  BY <1>1, <1>6, <1>7 DEF ReadBy
<1>9. ASSUME NEW k \in 1..n, k - 1 \in Good PROVE k \in Good
  <2>1. k \in 0..n /\ k \in 1..n /\ k \in 1..m
    BY <1>1, <1>4
  <2>2. g[k] = PlaceToken(g[k - 1], more[k], rank) /\ h[k] = PlaceToken(h[k - 1], tokens[k], rank)
    BY <1>6, <1>7, <2>1 DEF ReadBy
  <2> QED BY <1>2, <1>9, <2>1, <2>2
<1>10. \A k \in 0..n : k \in Good
  <2> HIDE DEF Good
  <2> QED BY <1>1, <1>8, <1>9, UpTo
<1>11. g[n] = h[n]
  BY <1>5, <1>10
<1>12. g[m] = PlaceToken(g[n], token, rank)
  BY <1>2, <1>5, <1>7 DEF ReadBy
<1> QED BY <1>2, <1>5, <1>6, <1>7, <1>11, <1>12 DEF ReadBy, IsTokens, ReadsOn

LEMMA TokenFits ==
  ASSUME NEW c \in Cursor, NEW token \in Token, NEW rank \in 0..7, c.err = "None", NEW d, d = PlaceToken(c, token, rank)
  PROVE  /\ IsRun(token) /\ c.file + token.run <= 8 => d.err = "None"
         /\ ~IsRun(token) /\ c.file < 8 /\ ~(token.kind = "Pawn" /\ rank \in {0, 7}) => d.err = "None"
<1>1. c \in [pos : Shape, file : 0..8, err : CursorErr]
  BY DEF Cursor
<1>2. ASSUME IsRun(token), c.file + token.run <= 8 PROVE d.err = "None"
  <2>1. token.run \in 1..8
    BY <1>2, Tokens DEF Token
  <2>2. d = [c EXCEPT !.file = @ + token.run]
    BY <1>1, <1>2, <2>1 DEF PlaceToken
  <2> QED BY <1>1, <2>2
<1>3. ASSUME ~IsRun(token), c.file < 8, ~(token.kind = "Pawn" /\ rank \in {0, 7}) PROVE d.err = "None"
  <2>1. d = [c EXCEPT !.pos = SetPiece(@, FromFileRank(c.file, rank), token), !.file = @ + 1]
    BY <1>1, <1>3 DEF PlaceToken
  <2> QED BY <1>1, <2>1
<1> QED BY <1>2, <1>3

LEMMA ReadNext ==
  \A rank \in 0..7, start \in Cursor, token \in Token : \A tokens :
     IsTokens(tokens) => ReadsOn(start, rank, tokens, token, Append(tokens, token))
<1> SUFFICES ASSUME NEW rank \in 0..7, NEW start \in Cursor, NEW token \in Token, NEW tokens, IsTokens(tokens)
             PROVE  ReadsOn(start, rank, tokens, token, Append(tokens, token))
  OBVIOUS
<1> DEFINE more == Append(tokens, token)
<1>1. more = Append(tokens, token)
  OBVIOUS
<1> HIDE DEF more
<1>2. ReadsOn(start, rank, tokens, token, more)
  BY <1>1, ReadMore
<1> QED BY <1>2 DEF more

PieceSet(c, piece, rank, d) == d.file = c.file + 1 /\ d.pos = SetPiece(c.pos, FromFileRank(c.file, rank), piece)

LEMMA PieceRead ==
  ASSUME NEW c \in Cursor, NEW piece \in Piece, NEW rank \in 0..7, c.err = "None", c.file < 8,
         ~(piece.kind = "Pawn" /\ rank \in {0, 7}), NEW d, d = PlaceToken(c, piece, rank)
  PROVE  d \in Cursor /\ d.err = "None" /\ PieceSet(c, piece, rank, d)
<1>0. piece \in Token /\ ~IsRun(piece)
  BY Tokens DEF Token
<1>1. c \in [pos : Shape, file : 0..8, err : CursorErr]
  BY DEF Cursor
<1>2. d.err = "None"
  BY <1>0, TokenFits
<1>3. d \in Cursor
  BY <1>0, TokenPlaced
<1>4. d = [c EXCEPT !.pos = SetPiece(@, FromFileRank(c.file, rank), piece), !.file = @ + 1]
  BY <1>0, <1>1 DEF PlaceToken
<1> DEFINE q == SetPiece(c.pos, FromFileRank(c.file, rank), piece)
<1>5. d = [c EXCEPT !.pos = q, !.file = c.file + 1]
  BY <1>4
<1>6. q = SetPiece(c.pos, FromFileRank(c.file, rank), piece)
  OBVIOUS
<1> HIDE DEF q
<1>7. d.pos = q /\ d.file = c.file + 1
  BY <1>1, <1>5
<1> QED BY <1>2, <1>3, <1>6, <1>7 DEF PieceSet

\* Some squares of a position, copied to an empty board.
Kinged(p) == Legal(p) /\ \A c \in Color : StandsFor(p, c)
Copied(p, q, D) ==
  /\ Sound(q)
  /\ \A s \in Square : q.mailbox[s] = IF s \in D THEN p.mailbox[s] ELSE NoPiece
  /\ \A c \in Color : q.kingSq[c] = IF p.kingSq[c] \in D THEN p.kingSq[c] ELSE A1

\* The squares that come before a file of a rank.
Done(rank, file) == {s \in Square : Rank(s) > rank \/ (Rank(s) = rank /\ File(s) < file)}

LEMMA SquaresOfRank ==
  ASSUME NEW rank \in 0..7, NEW k \in 0..7, NEW s, s = FromFileRank(k, rank)
  PROVE  /\ s \in Square /\ Rank(s) = rank /\ File(s) = k
         /\ Done(rank, k + 1) = Done(rank, k) \cup {s}
         /\ \A t \in Square : Rank(t) = rank /\ File(t) = k => t = s
<1>1. s = 8 * rank + k
  BY DEF FromFileRank, OnBoard
<1>2. s \in Square /\ Rank(s) = rank /\ File(s) = k
  BY <1>1 DEF Square, Rank, File
<1>3. \A t \in Square : Rank(t) = rank /\ File(t) = k => t = s
  BY <1>1, OnTheBoard
<1>4. ASSUME NEW t \in Square
      PROVE  t \in Done(rank, k + 1) <=> t \in Done(rank, k) \/ t = s
  <2>1. Rank(t) \in 0..7 /\ File(t) \in 0..7
    BY OnTheBoard
  <2> QED BY <1>2, <1>3, <2>1 DEF Done
<1>5. Done(rank, k + 1) \subseteq Square /\ Done(rank, k) \subseteq Square
  BY DEF Done
<1> QED BY <1>2, <1>3, <1>4, <1>5

LEMMA CopySkipped ==
  ASSUME NEW p, Kinged(p), NEW q, NEW D, Copied(p, q, D), NEW E, \A s \in Square : s \in E /\ s \notin D => p.mailbox[s] = NoPiece
  PROVE  Copied(p, q, D \cup E)
<1>1. \A c \in Color : p.kingSq[c] \in Square /\ p.mailbox[p.kingSq[c]] # NoPiece
  BY BoardFunction, Pieces1 DEF Kinged, Legal, StandsFor
<1> QED BY <1>1 DEF Copied

LEMMA CopyPlaced ==
  ASSUME NEW p, Kinged(p), NEW q, NEW D, Copied(p, q, D), NEW s \in Square, p.mailbox[s] # NoPiece,
         NEW r, r = SetPiece(q, s, p.mailbox[s])
  PROVE  Copied(p, r, D \cup {s})
<1> DEFINE piece == p.mailbox[s]
<1>0. /\ Sound(p) /\ KingInv(p) /\ Sound(q) /\ piece \in Piece /\ p.kingSq \in [Color -> Square] /\ q.kingSq \in [Color -> Square]
  BY BoardFunction DEF Kinged, Legal, Copied
<1>1. /\ Sound(r) /\ r.mailbox = Put(q.mailbox, s, piece) /\ r.kingSq = KingPut(q.kingSq, s, piece)
  BY <1>0, SetPieceIs
<1>2. \A t \in Square : r.mailbox[t] = IF t = s THEN piece ELSE q.mailbox[t]
  BY <1>0, <1>1, PutIs, BoardFunction
<1>3. ASSUME NEW t \in Square PROVE r.mailbox[t] = IF t \in D \cup {s} THEN p.mailbox[t] ELSE NoPiece
  BY <1>2 DEF Copied
<1>4. ASSUME NEW c \in Color PROVE r.kingSq[c] = IF p.kingSq[c] \in D \cup {s} THEN p.kingSq[c] ELSE A1
  <2>1. q.kingSq[c] = IF p.kingSq[c] \in D THEN p.kingSq[c] ELSE A1
    BY DEF Copied
  <2>2. p.mailbox[p.kingSq[c]] = King(c) /\ p.kingSq[c] \in Square
    BY <1>0 DEF Kinged, StandsFor
  <2>3. CASE piece = King(c)
    <3>1. p.kingSq[c] = s
      BY <1>0, <2>3 DEF KingInv
    <3>2. r.kingSq[c] = s
      BY <1>0, <1>1, <2>3 DEF KingPut, King
    <3> QED BY <3>1, <3>2
  <2>4. CASE piece # King(c)
    <3>1. p.kingSq[c] # s
      BY <2>2, <2>4
    <3>2. ~(piece.kind = "King" /\ piece.color = c)
      BY <1>0, <2>4, Pieces1 DEF King
    <3>3. r.kingSq[c] = q.kingSq[c]
      BY <1>0, <1>1, <3>2 DEF KingPut
    <3> QED BY <2>1, <3>1, <3>3
  <2> QED BY <2>3, <2>4
<1> QED BY <1>1, <1>3, <1>4 DEF Copied

-----------------------------------------------------------------------------
\* What has been written of a rank, once it is read.
WideToken == Piece \cup {Empty(n) : n \in Nat}
Writer == [tokens : Seq(WideToken), run : Nat]
ReadTo(p, d, rank, k) == d \in Cursor /\ d.err = "None" /\ d.file = k /\ Copied(p, d.pos, Done(rank, k))
Half(w, k, p, rank, start) ==
  /\ IsTokens(w.tokens) /\ w.run \in 0..k
  /\ ReadTo(p, TokensRead(start, w.tokens, rank), rank, k - w.run)
  /\ \A f \in (k - w.run)..(k - 1) : p.mailbox[FromFileRank(f, rank)] = NoPiece

LEMMA RunSkipped ==
  ASSUME NEW p, Kinged(p), NEW rank \in 0..7, NEW j \in 0..8, NEW k \in 0..8, j <= k, NEW q, Copied(p, q, Done(rank, j)),
         \A f \in j..(k - 1) : p.mailbox[FromFileRank(f, rank)] = NoPiece
  PROVE  Copied(p, q, Done(rank, k))
<1>1. \A s \in Square : s \in Done(rank, k) /\ s \notin Done(rank, j) => p.mailbox[s] = NoPiece
  <2> SUFFICES ASSUME NEW s \in Square, s \in Done(rank, k), s \notin Done(rank, j) PROVE p.mailbox[s] = NoPiece
    OBVIOUS
  <2>1. Rank(s) \in 0..7 /\ File(s) \in 0..7 /\ s = 8 * Rank(s) + File(s)
    BY OnTheBoard
  <2>2. Rank(s) = rank /\ File(s) \in j..(k - 1)
    <3> DEFINE a == Rank(s)
               b == File(s)
    <3>1. a > rank \/ (a = rank /\ b < k)
      BY DEF Done
    <3>2. ~(a > rank) /\ ~(a = rank /\ b < j)
      BY DEF Done
    <3>3. a \in Int /\ b \in Int
      BY <2>1
    <3> HIDE DEF a, b
    <3>4. a = rank /\ b \in j..(k - 1)
      BY <3>1, <3>2, <3>3
    <3> QED BY <3>4 DEF a, b
  <2>3. s = FromFileRank(File(s), rank)
    BY <2>1, <2>2 DEF FromFileRank, OnBoard
  <2> QED BY <2>2, <2>3
<1>2. Done(rank, j) \cup Done(rank, k) = Done(rank, k)
  <2>1. ASSUME NEW s \in Done(rank, j) PROVE s \in Done(rank, k)
    <3>1. s \in Square /\ File(s) \in 0..7
      BY OnTheBoard DEF Done
    <3> QED BY <3>1 DEF Done
  <2> QED BY <2>1
<1>3. Copied(p, q, Done(rank, j) \cup Done(rank, k))
  BY <1>1, CopySkipped
<1> QED BY <1>2, <1>3

LEMMA Flushed ==
  ASSUME NEW p, Kinged(p), NEW rank \in 0..7, NEW start \in Cursor, NEW k \in 0..8, NEW w, Half(w, k, p, rank, start)
  PROVE  IsTokens(Flush(w)) /\ ReadTo(p, TokensRead(start, Flush(w), rank), rank, k)
<1> DEFINE n == w.run
           j == k - n
           d == TokensRead(start, w.tokens, rank)
<1>1. /\ IsTokens(w.tokens) /\ n \in 0..k /\ n = w.run
      /\ d \in Cursor /\ d.err = "None" /\ d.file = j /\ Copied(p, d.pos, Done(rank, j))
      /\ \A f \in j..(k - 1) : p.mailbox[FromFileRank(f, rank)] = NoPiece
  BY DEF Half, ReadTo
<1>2. CASE n = 0
  BY <1>1, <1>2 DEF Flush, ReadTo
<1>3. CASE n # 0
  <2> DEFINE more == Append(w.tokens, Empty(n))
             e == TokensRead(start, more, rank)
  <2>0. n \in 0..k
    BY <1>1
  <2>n. n \in 1..8 /\ j \in 0..8 /\ j <= k /\ j + n = k
    BY <1>3, <2>0
  <2>f. Flush(w) = more
    BY <2>n DEF Flush
  <2>1. n \in 1..8 /\ Flush(w) = more /\ j \in 0..8 /\ j <= k /\ j + n = k
    BY <2>n, <2>f
  <2>2. Empty(n) \in Token /\ IsRun(Empty(n)) /\ Empty(n).run = n
    BY <2>1, Tokens DEF Token
  <2>m. /\ more = Append(w.tokens, Empty(n)) /\ e = TokensRead(start, more, rank)
        /\ d = TokensRead(start, w.tokens, rank)
    OBVIOUS
  <2> HIDE DEF j, e, d, more, n
  <2>3. IsTokens(more) /\ e = PlaceToken(d, Empty(n), rank)
    <3> DEFINE tokens == w.tokens
               token == Empty(n)
    <3>1. IsTokens(tokens) /\ token \in Token /\ more = Append(tokens, token)
      BY <1>1, <2>2, <2>m
    <3> HIDE DEF tokens, token
    <3>2. /\ IsTokens(more)
          /\ TokensRead(start, more, rank) = PlaceToken(TokensRead(start, tokens, rank), token, rank)
      BY <3>1, ReadNext DEF ReadsOn
    <3> QED BY <2>m, <3>2 DEF tokens, token
  <2>4. e.err = "None"
    BY <1>1, <2>1, <2>2, <2>3, TokenFits
  <2>5. e \in Cursor /\ e.pos = d.pos /\ e.file = k
    <3> DEFINE token == Empty(n)
    <3>1. d \in Cursor /\ token \in Token /\ e = PlaceToken(d, token, rank) /\ IsRun(token) /\ token.run = n
      BY <1>1, <2>2, <2>3
    <3> HIDE DEF token
    <3>2. e \in Cursor /\ e.pos = d.pos /\ e.file = d.file + token.run
      BY <2>4, <3>1, TokenPlaced
    <3> QED BY <1>1, <2>1, <3>1, <3>2
  <2>6. Copied(p, e.pos, Done(rank, k))
    BY <1>1, <2>1, <2>5, RunSkipped
  <2> QED BY <2>1, <2>3, <2>4, <2>5, <2>6, <2>m DEF ReadTo
<1> QED BY <1>2, <1>3

LEMMA SquareWritten ==
  ASSUME NEW p, Kinged(p), NEW rank \in 0..7, NEW start \in Cursor, NEW k \in 0..7, NEW w, Half(w, k, p, rank, start),
         w \in Writer,
         NEW x, x = WriteSquare(w, p.mailbox[FromFileRank(k, rank)])
  PROVE  Half(x, k + 1, p, rank, start)
<1> DEFINE s == FromFileRank(k, rank)
           piece == p.mailbox[s]
<1>0. /\ s \in Square /\ Rank(s) = rank /\ File(s) = k /\ Done(rank, k + 1) = Done(rank, k) \cup {s}
  BY SquaresOfRank
<1>1. /\ IsTokens(w.tokens) /\ w.run \in 0..k
      /\ ReadTo(p, TokensRead(start, w.tokens, rank), rank, k - w.run)
      /\ \A f \in (k - w.run)..(k - 1) : p.mailbox[FromFileRank(f, rank)] = NoPiece
  BY DEF Half
<1>2. CASE piece = NoPiece
  <2>1. x.tokens = w.tokens /\ x.run = w.run + 1
    BY <1>2 DEF WriteSquare, Writer
  <2>2. k + 1 - x.run = k - w.run /\ x.run \in 0..(k + 1)
    BY <1>1, <2>1
  <2>3. ASSUME NEW f \in (k - w.run)..(k + 1 - 1) PROVE p.mailbox[FromFileRank(f, rank)] = NoPiece
    <3>1. f = k \/ f \in (k - w.run)..(k - 1)
      BY <1>1
    <3> QED BY <1>1, <1>2, <3>1
  <2> QED BY <1>1, <2>1, <2>2, <2>3 DEF Half
<1>3. CASE piece # NoPiece
  <2> DEFINE tokens == Flush(w)
             d == TokensRead(start, tokens, rank)
             more == Append(tokens, piece)
             e == TokensRead(start, more, rank)
  <2>1. x.tokens = more /\ x.run = 0
    BY <1>3 DEF WriteSquare
  <2>2. IsTokens(tokens) /\ d \in Cursor /\ d.err = "None" /\ d.file = k /\ Copied(p, d.pos, Done(rank, k))
    BY Flushed DEF ReadTo
  <2>3. piece \in Piece /\ piece \in Token /\ ~IsRun(piece)
    BY <1>0, <1>3, BoardFunction, Tokens DEF Kinged, Legal, Token
  <2>4. ~(piece.kind = "Pawn" /\ rank \in {0, 7})
    BY <1>0 DEF Kinged, Legal, PawnInv
  <2> HIDE DEF tokens
  <2>m. more = Append(tokens, piece) /\ d = TokensRead(start, tokens, rank)
    OBVIOUS
  <2>s. s = FromFileRank(d.file, rank)
    BY <2>2
  <2>p. piece = p.mailbox[s]
    OBVIOUS
  <2>e. e = TokensRead(start, more, rank)
    OBVIOUS
  <2> HIDE DEF e, d, more, piece, s
  <2>5. IsTokens(more) /\ e = PlaceToken(d, piece, rank)
    <3>1. /\ IsTokens(more)
          /\ TokensRead(start, more, rank) = PlaceToken(TokensRead(start, tokens, rank), piece, rank)
      BY <2>2, <2>3, <2>m, ReadNext DEF ReadsOn
    <3> QED BY <2>m, <2>e, <3>1
  <2>6. e \in Cursor /\ e.err = "None" /\ PieceSet(d, piece, rank, e)
    <3>1. d.file < 8
      BY <2>2
    <3> QED BY <2>2, <2>3, <2>4, <2>5, <3>1, PieceRead
  <2>7. e \in Cursor /\ e.file = k + 1 /\ e.pos = SetPiece(d.pos, s, piece)
    BY <2>2, <2>6, <2>s DEF PieceSet
  <2>8. Copied(p, e.pos, Done(rank, k + 1))
    BY <1>0, <1>3, <2>2, <2>7, <2>p, CopyPlaced
  <2>9. k + 1 - x.run = k + 1
    BY <2>1
  <2>10. ReadTo(p, e, rank, k + 1)
    BY <2>6, <2>7, <2>8 DEF ReadTo
  <2>11. (k + 1)..(k + 1 - 1) = {}
    OBVIOUS
  <2> QED BY <2>1, <2>5, <2>9, <2>10, <2>11, <2>e DEF Half
<1> QED BY <1>2, <1>3

\* The writer, square by square.
Files == [i \in 1..8 |-> i - 1]
Blank == [tokens |-> <<>>, run |-> 0]
WriterFold(g, p, rank) ==
  g = [s \in SUBSET DOMAIN Files |->
         IF s = {} THEN Blank
         ELSE WriteSquare(g[s \ {Max(s)}], PieceAt(p, FromFileRank(Files[Max(s)], rank)))]
Written(p, rank) == (CHOOSE g : WriterFold(g, p, rank))[DOMAIN Files]

LEMMA WrittenIs ==
  ASSUME NEW p, NEW rank
  PROVE  FormatRank(p, rank) = Flush(Written(p, rank))
<1>1. FoldLeft(LAMBDA w, file : WriteSquare(w, PieceAt(p, FromFileRank(file, rank))), Blank, Files) = Written(p, rank)
  BY DEF FoldLeft, MapThenFoldSet, WriterFold, Written
<1> QED BY Zenon, <1>1 DEF FormatRank, Blank, Files

LEMMA WriterStays ==
  ASSUME NEW w \in Writer, NEW piece \in Piece \cup {NoPiece}
  PROVE  WriteSquare(w, piece) \in Writer
<1> DEFINE S == Seq(WideToken)
<1>1. w.tokens \in S /\ w.run \in Nat /\ w \in [tokens : S, run : Nat]
  BY DEF Writer
<1>2. \A t \in S, x \in WideToken : Append(t, x) \in S
  BY AppendProperties
<1>3. Empty(w.run) \in WideToken /\ Piece \subseteq WideToken
  BY <1>1 DEF WideToken
<1> HIDE DEF S
<1>4. Flush(w) \in S
  BY <1>1, <1>2, <1>3 DEF Flush
<1>5. CASE piece = NoPiece
  <2>1. WriteSquare(w, piece) = [w EXCEPT !.run = @ + 1]
    BY <1>5 DEF WriteSquare
  <2>2. WriteSquare(w, piece) \in [tokens : S, run : Nat]
    BY <1>1, <2>1
  <2> QED BY <2>2 DEF Writer, S
<1>6. CASE piece # NoPiece
  <2>1. WriteSquare(w, piece) = [tokens |-> Append(Flush(w), piece), run |-> 0]
    BY <1>6 DEF WriteSquare
  <2>2. Append(Flush(w), piece) \in S
    BY <1>2, <1>3, <1>4, <1>6
  <2>3. WriteSquare(w, piece) \in [tokens : S, run : Nat]
    BY <2>1, <2>2
  <2> QED BY <2>3 DEF Writer, S
<1> QED BY <1>5, <1>6

WrittenBy(h, p, rank) ==
  /\ h[0] = Blank /\ h[8] = Written(p, rank)
  /\ \A k \in 1..8 : h[k] = WriteSquare(h[k - 1], p.mailbox[FromFileRank(k - 1, rank)])

LEMMA SquareBySquare ==
  ASSUME NEW p, Sound(p), NEW rank \in 0..7
  PROVE  \E h \in [0..8 -> Writer] : WrittenBy(h, p, rank)
<1> DEFINE n == 8
           at(x) == p.mailbox[FromFileRank(x - 1, rank)]
           step == [x \in 1..n |-> [w \in Writer |-> WriteSquare(w, at(x))]]
           pick == [s \in SUBSET (1..n) |-> Max(s)]
           g == CHOOSE g : WriterFold(g, p, rank)
           h == [k \in 0..n |-> g[1..k]]
<1>0. DOMAIN Files = 1..n /\ \A x \in 1..n : Files[x] = x - 1
  BY DEF Files
<1>n. n \in Nat /\ n = 8
  OBVIOUS
<1>m. n \in Nat
  OBVIOUS
<1>h. h = [k \in 0..n |-> g[1..k]]
  OBVIOUS
<1>b. Blank \in Writer
  <2>1. <<>> \in Seq(WideToken)
    BY EmptySeq
  <2> QED BY <2>1 DEF Blank, Writer
<1>r. \A x \in 1..n, w \in Writer : WriteSquare(w, at(x)) \in Writer
  <2> SUFFICES ASSUME NEW x \in 1..n, NEW w \in Writer PROVE WriteSquare(w, at(x)) \in Writer
    OBVIOUS
  <2>1. x - 1 \in 0..7
    OBVIOUS
  <2>2. FromFileRank(x - 1, rank) \in Square
    BY <2>1, SquaresOfRank
  <2>3. at(x) \in Piece \cup {NoPiece}
    BY <2>2, BoardFunction
  <2> HIDE DEF at
  <2> QED BY <2>3, WriterStays
<1>s. \A x \in 1..n : PieceAt(p, FromFileRank(Files[x], rank)) = at(x)
  BY <1>0 DEF PieceAt
<1>a. \A x \in 1..n : at(x) = p.mailbox[FromFileRank(x - 1, rank)]
  OBVIOUS
<1> HIDE DEF n, h, at
<1>1. WriterFold(g, p, rank)
  <2>1. \A x \in 1..n, w \in Writer : step[x][w] \in Writer
    BY <1>r
  <2>2. PICK f \in [SUBSET (1..n) -> Writer] : FoldOf(f, Blank, step, pick, 1..n)
    <3> HIDE DEF step
    <3> QED BY Zenon, <1>m, <1>b, <2>1, LeftFold
  <2>3. f = [s \in SUBSET (1..n) |-> IF s = {} THEN Blank ELSE step[pick[s]][f[s \ {pick[s]}]]]
    BY Zenon, <2>2 DEF FoldOf
  <2>4. \A s \in SUBSET (1..n) : s # {} =>
          step[pick[s]][f[s \ {pick[s]}]] = WriteSquare(f[s \ {Max(s)}], PieceAt(p, FromFileRank(Files[Max(s)], rank)))
    <3> SUFFICES ASSUME NEW s \in SUBSET (1..n), s # {}
                 PROVE  step[pick[s]][f[s \ {pick[s]}]]
                          = WriteSquare(f[s \ {Max(s)}], PieceAt(p, FromFileRank(Files[Max(s)], rank)))
      OBVIOUS
    <3>1. Max(s) \in s
      BY <1>m, MaxIn
    <3>2. pick[s] = Max(s) /\ f[s \ {Max(s)}] \in Writer /\ Max(s) \in 1..n
      BY Zenon, <2>2, <3>1
    <3>3. PieceAt(p, FromFileRank(Files[Max(s)], rank)) = at(Max(s))
      BY <1>s, <3>2
    <3> QED BY <3>2, <3>3
  <2>5. f = [s \in SUBSET (1..n) |-> IF s = {} THEN Blank
                ELSE WriteSquare(f[s \ {Max(s)}], PieceAt(p, FromFileRank(Files[Max(s)], rank)))]
    <3> HIDE DEF step, pick
    <3> QED BY Zenon, <2>3, <2>4
  <2>6. WriterFold(f, p, rank)
    BY <1>0, <2>5 DEF WriterFold
  <2> QED BY <2>6
<1> HIDE DEF g
<1>2. \A s \in SUBSET (1..n) :
        g[s] = IF s = {} THEN Blank
               ELSE WriteSquare(g[s \ {Max(s)}], PieceAt(p, FromFileRank(Files[Max(s)], rank)))
  BY <1>0, <1>1 DEF WriterFold
<1>3. h[0] = Blank
  <2>1. g[{}] = Blank
    BY <1>2
  <2>2. 1..0 = {} /\ 0 \in 0..n
    BY <1>n
  <2> QED BY <1>h, <2>1, <2>2
<1>4. \A k \in 1..n : h[k] = WriteSquare(h[k - 1], at(k))
  <2> SUFFICES ASSUME NEW k \in 1..n PROVE g[1..k] = WriteSquare(g[1..(k - 1)], at(k))
    BY <1>m, <1>h
  <2> DEFINE s == 1..k
  <2>1. s \in SUBSET (1..n) /\ s # {} /\ Max(s) = k /\ s \ {Max(s)} = 1..(k - 1)
    <3>1. k \in Nat /\ k # 0
      BY <1>m
    <3>2. Max(1..k) = k /\ (1..k) \ {Max(1..k)} = 1..(k - 1)
      BY <3>1, MaxPrefix
    <3>3. k <= n /\ k \in 1..k
      BY <1>m
    <3>4. 1..k \subseteq 1..n /\ 1..k # {}
      <4>1. 1..k # {}
        BY <3>3
      <4>2. ASSUME NEW x \in 1..k PROVE x \in 1..n
        BY <1>m, <3>1, <3>3
      <4> QED BY <4>1, <4>2
    <3> QED BY <3>2, <3>4
  <2> HIDE DEF s
  <2>2. g[s] = WriteSquare(g[s \ {Max(s)}], PieceAt(p, FromFileRank(Files[Max(s)], rank)))
    BY <1>2, <2>1
  <2> QED BY <1>s, <2>1, <2>2 DEF s
<1>5. h[n] = Written(p, rank)
  <2>1. h[n] = g[1..n]
    BY <1>h, <1>m
  <2>2. Written(p, rank) = g[DOMAIN Files]
    BY DEF Written, g
  <2> QED BY <1>0, <2>1, <2>2
<1>6. h \in [0..n -> Writer]
  <2> DEFINE Good == {k \in 0..n : h[k] \in Writer}
  <2>1. 0 \in Good
    BY <1>3, <1>b, <1>n
  <2>2. \A k \in 1..n : k - 1 \in Good => k \in Good
    <3> SUFFICES ASSUME NEW k \in 1..n, h[k - 1] \in Writer PROVE h[k] \in Writer
      BY <1>m
    <3> QED BY <1>4, <1>r
  <2>3. \A k \in 0..n : k \in Good
    <3> HIDE DEF Good
    <3> QED BY <1>m, <2>1, <2>2, UpTo
  <2> QED BY <1>h, <2>3
<1>7. \A k \in 1..n : h[k] = WriteSquare(h[k - 1], p.mailbox[FromFileRank(k - 1, rank)])
  BY <1>4, <1>a
<1> QED BY <1>n, <1>3, <1>5, <1>6, <1>7 DEF WrittenBy

LEMMA RankWritten ==
  ASSUME NEW p, Kinged(p), NEW rank \in 0..7, NEW start \in Cursor, ReadTo(p, start, rank, 0)
  PROVE  /\ IsTokens(FormatRank(p, rank))
         /\ ReadTo(p, TokensRead(start, FormatRank(p, rank), rank), rank, 8)
<1>1. PICK h \in [0..8 -> Writer] : WrittenBy(h, p, rank)
  BY SquareBySquare DEF Kinged, Legal
<1> DEFINE n == 8
           Good == {k \in 0..n : Half(h[k], k, p, rank, start)}
<1>n. n \in Nat /\ n = 8
  OBVIOUS
<1>m. n \in Nat
  OBVIOUS
<1>2. 0 \in Good
  <2>1. IsTokens(<<>>) /\ TokensRead(start, <<>>, rank) = start
    BY NothingRead
  <2>2. h[0].tokens = <<>> /\ h[0].run = 0
    BY <1>1 DEF WrittenBy, Blank
  <2>3. 0..(0 - 1) = {}
    OBVIOUS
  <2>4. Half(h[0], 0, p, rank, start)
    BY <2>1, <2>2, <2>3 DEF Half
  <2> QED BY <2>4
<1>3. ASSUME NEW k \in 1..n, k - 1 \in Good PROVE k \in Good
  <2> DEFINE w == h[k - 1]
             x == h[k]
             j == k - 1
  <2>1. /\ j \in 0..7 /\ j + 1 = k /\ w \in Writer /\ Half(w, j, p, rank, start)
        /\ x = WriteSquare(w, p.mailbox[FromFileRank(j, rank)])
    BY <1>1, <1>3 DEF WrittenBy
  <2>2. Half(x, k, p, rank, start) => k \in Good
    OBVIOUS
  <2> HIDE DEF w, x, j, Good
  <2>3. Half(x, j + 1, p, rank, start)
    BY <2>1, SquareWritten
  <2> QED BY <2>1, <2>2, <2>3
<1> HIDE DEF n
<1>4. \A k \in 0..n : k \in Good
  <2> HIDE DEF Good
  <2> QED BY <1>m, <1>2, <1>3, UpTo
<1> DEFINE w == Written(p, rank)
<1>5. Half(w, 8, p, rank, start)
  BY <1>1, <1>n, <1>4 DEF WrittenBy
<1> HIDE DEF w
<1>6. IsTokens(Flush(w)) /\ ReadTo(p, TokensRead(start, Flush(w), rank), rank, 8)
  <2> DEFINE k == 8
  <2>1. k \in 0..8 /\ Half(w, k, p, rank, start)
    BY <1>5
  <2> HIDE DEF k
  <2>2. IsTokens(Flush(w)) /\ ReadTo(p, TokensRead(start, Flush(w), rank), rank, k)
    BY <2>1, Flushed
  <2> QED BY <2>2 DEF k
<1> QED BY <1>6, WrittenIs DEF w

LEMMA RankBack ==
  ASSUME NEW p, Kinged(p), NEW rank \in 0..7, NEW c \in Cursor, c.err = "None", Copied(p, c.pos, Done(rank, 0)),
         NEW tokens, tokens = FormatRank(p, rank), NEW d, d = PlaceRank(c, tokens, rank)
  PROVE  IsTokens(tokens) /\ d \in Cursor /\ d.err = "None" /\ Copied(p, d.pos, Done(rank, 8))
<1> DEFINE start == [c EXCEPT !.file = 0]
           read == TokensRead(start, tokens, rank)
<1>1. d = IF read.err = "None" /\ read.file # 8 THEN [read EXCEPT !.err = "BadPiecePlacement"] ELSE read
  BY PlaceRankIs
<1>2. start \in Cursor /\ start.err = "None" /\ start.pos = c.pos /\ start.file = 0
  <2>1. c \in [pos : Shape, file : 0..8, err : CursorErr] /\ Sound(c.pos)
    BY DEF Cursor
  <2>2. start \in [pos : Shape, file : 0..8, err : CursorErr] /\ start.pos = c.pos /\ start.file = 0 /\ start.err = "None"
    BY <2>1
  <2> HIDE DEF start
  <2> QED BY <2>1, <2>2 DEF Cursor
<1>3. read = TokensRead(start, tokens, rank)
  OBVIOUS
<1> HIDE DEF start, read
<1>4. ReadTo(p, start, rank, 0)
  BY <1>2 DEF ReadTo
<1>5. IsTokens(tokens) /\ ReadTo(p, read, rank, 8)
  BY <1>2, <1>3, <1>4, RankWritten
<1> QED BY <1>1, <1>5 DEF ReadTo

LEMMA NextRank ==
  /\ \A rank \in 0..7 : Done(rank, 8) = Done(rank - 1, 0)
  /\ Done(7, 0) = {} /\ Done(-1, 0) = Square
<1>1. \A s \in Square : Rank(s) \in 0..7 /\ File(s) \in 0..7
  BY OnTheBoard
<1>2. ASSUME NEW rank \in 0..7 PROVE Done(rank, 8) = Done(rank - 1, 0)
  <2>1. ASSUME NEW s \in Square PROVE s \in Done(rank, 8) <=> s \in Done(rank - 1, 0)
    <3> DEFINE a == Rank(s)
               b == File(s)
    <3>1. a \in 0..7 /\ b \in 0..7
      BY <1>1
    <3>2. s \in Done(rank, 8) <=> a > rank \/ (a = rank /\ b < 8)
      BY DEF Done
    <3>3. s \in Done(rank - 1, 0) <=> a > rank - 1 \/ (a = rank - 1 /\ b < 0)
      BY DEF Done
    <3> HIDE DEF a, b
    <3> QED BY <3>1, <3>2, <3>3
  <2>2. Done(rank, 8) \subseteq Square /\ Done(rank - 1, 0) \subseteq Square
    BY DEF Done
  <2> QED BY <2>1, <2>2
<1>3. Done(7, 0) = {}
  BY <1>1 DEF Done
<1>4. Done(-1, 0) = Square
  BY <1>1 DEF Done
<1> QED BY <1>2, <1>3, <1>4

\* A cursor that has read some ranks of p.
Through(p, c, rank) == c \in Cursor /\ c.err = "None" /\ Copied(p, c.pos, Done(rank, 0))

LEMMA ThroughStart ==
  ASSUME NEW p, Kinged(p), NEW start, start = [pos |-> EmptyPosition, file |-> 0, err |-> "None"]
  PROVE  Through(p, start, 7)
<1>1. start \in Cursor /\ start.pos = EmptyPosition /\ start.err = "None"
  <2>1. start \in [pos : Shape, file : 0..8, err : CursorErr]
    BY EmptyBoard DEF CursorErr
  <2> QED BY <2>1, EmptyBoard DEF Cursor
<1>2. /\ \A s \in Square : EmptyPosition.mailbox[s] = NoPiece
      /\ \A c \in Color : EmptyPosition.kingSq[c] = A1
  BY DEF EmptyPosition
<1>3. Copied(p, start.pos, {})
  BY <1>1, <1>2, EmptyBoard DEF Copied
<1> QED BY <1>1, <1>3, NextRank DEF Through

LEMMA ThroughNext ==
  ASSUME NEW p, Kinged(p), NEW rank \in 0..7, NEW c, Through(p, c, rank)
  PROVE  /\ IsTokens(FormatRank(p, rank))
         /\ Through(p, PlaceRank(c, FormatRank(p, rank), rank), rank - 1)
<1> DEFINE tokens == FormatRank(p, rank)
           d == PlaceRank(c, tokens, rank)
<1>1. tokens = FormatRank(p, rank) /\ d = PlaceRank(c, tokens, rank)
  OBVIOUS
<1> HIDE DEF tokens, d
<1>2. IsTokens(tokens) /\ d \in Cursor /\ d.err = "None" /\ Copied(p, d.pos, Done(rank, 8))
  BY <1>1, RankBack DEF Through
<1>3. Done(rank, 8) = Done(rank - 1, 0)
  BY NextRank
<1>4. IsTokens(tokens) /\ Through(p, d, rank - 1)
  BY <1>2, <1>3 DEF Through
<1> QED BY <1>4 DEF tokens, d

LEMMA RanksAreTokens ==
  ASSUME NEW p, Kinged(p)
  PROVE  \A rank \in 0..7 : IsTokens(FormatRank(p, rank))
<1> DEFINE n == 7
           Good == {k \in 0..n : \E c : Through(p, c, 7 - k)}
<1>n. n \in Nat /\ n = 7
  OBVIOUS
<1>m. n \in Nat
  OBVIOUS
<1>1. 0 \in Good
  <2>1. Through(p, [pos |-> EmptyPosition, file |-> 0, err |-> "None"], 7)
    BY ThroughStart
  <2>2. 7 - 0 = 7
    OBVIOUS
  <2> QED BY <2>1, <2>2
<1>2. ASSUME NEW k \in 1..n, k - 1 \in Good PROVE k \in Good
  <2>1. PICK c : Through(p, c, 7 - (k - 1))
    BY <1>2
  <2>2. 7 - (k - 1) \in 0..7 /\ 7 - (k - 1) - 1 = 7 - k /\ k \in 0..n
    OBVIOUS
  <2> DEFINE rank == 7 - (k - 1)
  <2> HIDE DEF rank, n, Good
  <2>3. rank \in 0..7 /\ Through(p, c, rank) /\ rank - 1 = 7 - k
    BY <2>1, <2>2 DEF rank
  <2>4. \E d : Through(p, d, rank - 1)
    BY <2>3, ThroughNext
  <2> QED BY <2>2, <2>3, <2>4 DEF Good
<1> HIDE DEF n
<1>3. \A k \in 0..n : k \in Good
  <2> HIDE DEF Good
  <2> QED BY <1>m, <1>1, <1>2, UpTo
<1>4. ASSUME NEW rank \in 0..7 PROVE IsTokens(FormatRank(p, rank))
  <2>1. 7 - rank \in 0..n /\ 7 - (7 - rank) = rank
    BY <1>n
  <2>2. PICK c : Through(p, c, rank)
    BY <1>3, <2>1
  <2> QED BY <2>2, ThroughNext
<1> QED BY <1>4

LEMMA PlacementBack ==
  ASSUME NEW p, Kinged(p), NEW ranks, ranks = [i \in 1..8 |-> FormatRank(p, 8 - i)], NEW d, d = ParsePlacement(ranks)
  PROVE  d.err = "None" /\ Sound(d.pos) /\ d.pos.mailbox = p.mailbox /\ d.pos.kingSq = p.kingSq
<1> DEFINE start == [pos |-> EmptyPosition, file |-> 0, err |-> "None"]
<1>0. start = [pos |-> EmptyPosition, file |-> 0, err |-> "None"]
  OBVIOUS
<1>1. ranks \in [1..8 -> Seq(Token)] /\ \A i \in 1..8 : ranks[i] = FormatRank(p, 8 - i)
  <2>1. \A i \in 1..8 : 8 - i \in 0..7
    OBVIOUS
  <2>2. \A i \in 1..8 : FormatRank(p, 8 - i) \in Seq(Token)
    BY <2>1, RanksAreTokens DEF IsTokens
  <2> QED BY <2>2
<1>2. Len(ranks) = 8
  <2> DEFINE T == Seq(Token)
             n == 8
  <2>1. n \in Nat /\ ranks \in [1..n -> T]
    BY <1>1
  <2> HIDE DEF T, n
  <2>2. ranks \in Seq(T) /\ DOMAIN ranks = 1..n
    BY <2>1
  <2>3. Len(ranks) \in Nat /\ DOMAIN ranks = 1..Len(ranks)
    BY <2>2, LenProperties
  <2>4. Len(ranks) = n
    BY <2>1, <2>2, <2>3
  <2> QED BY <2>4 DEF n
<1>3. d = RanksRead(start, ranks)
  BY <1>2, PlacementIs
<1> HIDE DEF start
<1>4. Through(p, start, 7)
  BY <1>0, ThroughStart
<1>5. PICK h \in [0..8 -> Cursor] : RanksBy(h, start, ranks)
  <2>1. start \in Cursor
    BY <1>4 DEF Through
  <2> QED BY <1>1, <2>1, RankByRank
<1> DEFINE n == 8
           Good == {k \in 0..n : Through(p, h[k], 7 - k)}
<1>n. n \in Nat /\ n = 8
  OBVIOUS
<1>m. n \in Nat
  OBVIOUS
<1>6. 0 \in Good
  <2>1. 7 - 0 = 7 /\ h[0] = start
    BY <1>5 DEF RanksBy
  <2> QED BY <1>4, <2>1
<1>7. ASSUME NEW k \in 1..n, k - 1 \in Good PROVE k \in Good
  <2> DEFINE rank == 8 - k
             c == h[k - 1]
             e == h[k]
  <2>1. /\ rank \in 0..7 /\ rank = 7 - (k - 1) /\ rank - 1 = 7 - k
    OBVIOUS
  <2>2. Through(p, c, rank)
    BY <1>7, <2>1
  <2>3. e = PlaceRank(c, FormatRank(p, rank), rank)
    BY <1>1, <1>5 DEF RanksBy
  <2>4. Through(p, e, rank - 1) => k \in Good
    BY <2>1
  <2> HIDE DEF rank, c, e, Good
  <2>5. Through(p, e, rank - 1)
    BY <2>1, <2>2, <2>3, ThroughNext
  <2> QED BY <2>4, <2>5
<1> HIDE DEF n
<1>8. \A k \in 0..n : k \in Good
  <2> HIDE DEF Good
  <2> QED BY <1>m, <1>6, <1>7, UpTo
<1>9. Through(p, d, -1)
  <2>1. 8 \in Good /\ 7 - 8 = -1
    BY <1>n, <1>8
  <2>2. h[8] = d
    BY <1>3, <1>5 DEF RanksBy
  <2> QED BY <2>1, <2>2
<1>10. d.err = "None" /\ Copied(p, d.pos, Square)
  BY <1>9, NextRank DEF Through
<1> DEFINE q == d.pos
<1> HIDE DEF q
<1>11. Sound(q) /\ \A s \in Square : q.mailbox[s] = p.mailbox[s]
  BY <1>10 DEF Copied, q
<1>12. /\ q.mailbox \in [Square -> Piece \cup {NoPiece}] /\ p.mailbox \in [Square -> Piece \cup {NoPiece}]
       /\ q.kingSq \in [Color -> Square] /\ p.kingSq \in [Color -> Square]
  BY <1>11, BoardFunction DEF Kinged, Legal
<1>13. \A c \in Color : q.kingSq[c] = p.kingSq[c]
  BY <1>10, <1>12 DEF Copied, q
<1>14. q.mailbox = p.mailbox
  BY <1>11, <1>12
<1>15. q.kingSq = p.kingSq
  BY <1>12, <1>13
<1> QED BY <1>10, <1>11, <1>14, <1>15 DEF q

\* The letters of the castling rights are in their order.
Lettered(s, k, rights) ==
  /\ s \in Seq(Right)
  /\ \E at \in [1..Len(s) -> 1..k] :
        /\ \A i \in 1..Len(s) : CastlingLetters[at[i]] = s[i]
        /\ \A i, j \in 1..Len(s) : i < j => at[i] < at[j]
  /\ ToSet(s) = {CastlingLetters[i] : i \in 1..k} \cap rights
WriteLetter(rights, letters, i) ==
  IF CastlingLetters[i] \in rights THEN Append(letters, CastlingLetters[i]) ELSE letters

LEMMA LetterWritten ==
  ASSUME NEW rights \in SUBSET Right, NEW k \in 0..3, NEW s, Lettered(s, k, rights),
         NEW t, t = WriteLetter(rights, s, k + 1)
  PROVE  Lettered(t, k + 1, rights)
<1> DEFINE x == CastlingLetters[k + 1]
           n == Len(s)
<1>1. x \in Right
  BY DEF CastlingLetters, Right
<1>2. s \in Seq(Right) /\ n \in Nat /\ s \in [1..n -> Right] /\ DOMAIN s = 1..n
  BY LenProperties DEF Lettered
<1>3. PICK at \in [1..n -> 1..k] :
        /\ \A i \in 1..n : CastlingLetters[at[i]] = s[i]
        /\ \A i, j \in 1..n : i < j => at[i] < at[j]
  BY DEF Lettered
<1>4. {s[i] : i \in 1..n} = {CastlingLetters[i] : i \in 1..k} \cap rights
  BY <1>2 DEF Lettered, ToSet
<1>5. {CastlingLetters[i] : i \in 1..(k + 1)} = {CastlingLetters[i] : i \in 1..k} \cup {x}
  <2>1. 1..(k + 1) = (1..k) \cup {k + 1}
    OBVIOUS
  <2> QED BY <2>1
<1>6. CASE x \notin rights
  <2>1. t = s
    BY <1>6 DEF WriteLetter
  <2>2. at \in [1..n -> 1..(k + 1)]
    <3>1. 1..k \subseteq 1..(k + 1)
      OBVIOUS
    <3> QED BY <1>3, <3>1
  <2>3. ToSet(s) = {CastlingLetters[i] : i \in 1..(k + 1)} \cap rights
    <3>1. ToSet(s) = {CastlingLetters[i] : i \in 1..k} \cap rights
      BY DEF Lettered
    <3> HIDE DEF x
    <3> QED BY <1>5, <1>6, <3>1
  <2>4. \E to \in [1..n -> 1..(k + 1)] :
          /\ \A i \in 1..n : CastlingLetters[to[i]] = s[i]
          /\ \A i, j \in 1..n : i < j => to[i] < to[j]
    BY <1>3, <2>2
  <2>5. s \in Seq(Right)
    BY <1>2
  <2> HIDE <1>2, <1>3, <1>4, <1>5
  <2>6. Lettered(s, k + 1, rights)
    BY <2>3, <2>4, <2>5 DEF Lettered
  <2> QED BY <2>1, <2>6
<1>7. CASE x \in rights
  <2>1. /\ t \in Seq(Right) /\ Len(t) = n + 1 /\ t[n + 1] = x /\ \A i \in 1..n : t[i] = s[i]
    <3>1. t = Append(s, x)
      BY <1>7 DEF WriteLetter
    <3>2. s \in Seq(Right) /\ x \in Right /\ n = Len(s)
      BY <1>1, <1>2
    <3> HIDE DEF x, n
    <3>3. /\ Append(s, x) \in Seq(Right) /\ Len(Append(s, x)) = Len(s) + 1 /\ Append(s, x)[Len(s) + 1] = x
          /\ \A i \in 1..Len(s) : Append(s, x)[i] = s[i]
      BY <3>2, AppendProperties
    <3> QED BY <3>1, <3>2, <3>3
  <2> DEFINE m == n + 1
             to == [i \in 1..m |-> IF i \in 1..n THEN at[i] ELSE k + 1]
  <2>2. m \in Nat /\ m \notin 1..n /\ \A i \in 1..m : i \in 1..n \/ i = m
    BY <1>2
  <2>t. /\ \A i \in 1..n : i \in 1..m /\ to[i] = at[i] /\ at[i] \in 1..k
        /\ m \in 1..m /\ to[m] = k + 1
    <3>1. \A i \in 1..n : i \in 1..m
      BY <1>2
    <3>2. m \in 1..m
      BY <1>2
    <3> HIDE DEF m
    <3> QED BY <1>3, <2>2, <3>1, <3>2
  <2>3. to \in [1..m -> 1..(k + 1)]
    <3> HIDE DEF m
    <3>1. ASSUME NEW i \in 1..m PROVE (IF i \in 1..n THEN at[i] ELSE k + 1) \in 1..(k + 1)
      <4>1. i \in 1..n => at[i] \in 1..k
        BY <1>3
      <4> QED BY <4>1
    <3> QED BY <3>1
  <2> HIDE DEF to
  <2>4. \A i \in 1..m : CastlingLetters[to[i]] = t[i]
    BY <1>3, <2>1, <2>2, <2>t
  <2>5. \A i, j \in 1..m : i < j => to[i] < to[j]
    <3> SUFFICES ASSUME NEW i \in 1..m, NEW j \in 1..m, i < j PROVE to[i] < to[j]
      OBVIOUS
    <3>1. i \in 1..n
      BY <1>2
    <3>2. CASE j \in 1..n
      BY <1>3, <2>t, <3>1, <3>2
    <3>3. CASE j \notin 1..n
      <4>1. j = m /\ to[i] \in 1..k /\ to[j] = k + 1
        BY <2>2, <2>t, <3>1, <3>3
      <4> QED BY <4>1
    <3> QED BY <3>2, <3>3
  <2>6. ToSet(t) = {CastlingLetters[i] : i \in 1..(k + 1)} \cap rights
    <3>1. DOMAIN t = 1..m
      BY <2>1, LenProperties
    <3>2. ToSet(t) = {t[i] : i \in 1..m}
      BY <3>1 DEF ToSet
    <3>3. {t[i] : i \in 1..m} = {s[i] : i \in 1..n} \cup {x}
      <4>1. ASSUME NEW y \in {t[i] : i \in 1..m} PROVE y \in {s[i] : i \in 1..n} \cup {x}
        <5>1. PICK i \in 1..m : y = t[i]
          OBVIOUS
        <5> HIDE DEF x, n
        <5> QED BY <2>1, <2>2, <5>1
      <4>2. ASSUME NEW y \in {s[i] : i \in 1..n} \cup {x} PROVE y \in {t[i] : i \in 1..m}
        <5> HIDE DEF x, n
        <5> QED BY <2>1, <2>t
      <4> QED BY <4>1, <4>2
    <3> HIDE DEF x, m, n
    <3> QED BY <1>4, <1>5, <1>7, <3>2, <3>3
  <2>7. Len(t) = m
    BY <2>1
  <2> HIDE DEF m
  <2> QED BY <2>1, <2>3, <2>4, <2>5, <2>6, <2>7 DEF Lettered
<1> QED BY <1>6, <1>7

LEMMA CastlingBack ==
  ASSUME NEW rights \in SUBSET Right
  PROVE  CastlingOk(FormatCastling(rights)) /\ ToSet(FormatCastling(rights)) = rights
<1> DEFINE a == WriteLetter(rights, <<>>, 1)
           b == WriteLetter(rights, a, 2)
           c == WriteLetter(rights, b, 3)
           d == WriteLetter(rights, c, 4)
<1>1. FormatCastling(rights) = d
  BY DEF FormatCastling, WriteLetter
<1>2. a = WriteLetter(rights, <<>>, 0 + 1) /\ b = WriteLetter(rights, a, 1 + 1)
      /\ c = WriteLetter(rights, b, 2 + 1) /\ d = WriteLetter(rights, c, 3 + 1)
  OBVIOUS
<1> HIDE DEF a, b, c, d
<1>3. Lettered(<<>>, 0, rights)
  <2>1. <<>> \in Seq(Right) /\ Len(<<>>) = 0
    BY EmptySeq
  <2>2. 1..0 = {}
    OBVIOUS
  <2>3. DOMAIN <<>> = {}
    OBVIOUS
  <2>4. ToSet(<<>>) = {}
    BY <2>3 DEF ToSet
  <2>5. [i \in {} |-> i] \in [{} -> {}]
    OBVIOUS
  <2>6. \E at \in [1..Len(<<>>) -> 1..0] :
          /\ \A i \in 1..Len(<<>>) : CastlingLetters[at[i]] = (<<>>)[i]
          /\ \A i, j \in 1..Len(<<>>) : i < j => at[i] < at[j]
    BY <2>1, <2>2, <2>5
  <2>7. ToSet(<<>>) = {CastlingLetters[i] : i \in 1..0} \cap rights
    BY <2>2, <2>4
  <2> QED BY <2>1, <2>6, <2>7 DEF Lettered
<1>4. Lettered(a, 0 + 1, rights)
  BY <1>2, <1>3, LetterWritten
<1>5. Lettered(b, 1 + 1, rights)
  BY <1>2, <1>4, LetterWritten
<1>6. Lettered(c, 2 + 1, rights)
  BY <1>2, <1>5, LetterWritten
<1>7. Lettered(d, 3 + 1, rights)
  BY <1>2, <1>6, LetterWritten
<1>8. Lettered(d, 4, rights)
  BY <1>7
<1>9. {CastlingLetters[i] : i \in 1..4} = Right
  <2>1. 1..4 = {1, 2, 3, 4}
    OBVIOUS
  <2> QED BY <2>1 DEF CastlingLetters, Right
<1>10. ToSet(d) = rights
  BY <1>8, <1>9 DEF Lettered
<1>11. CastlingOk(d)
  BY <1>8 DEF Lettered, CastlingOk
<1> QED BY <1>1, <1>10, <1>11

LEMMA EpKept ==
  ASSUME NEW p, Legal(p), NEW b, b.mailbox = p.mailbox
  PROVE  /\ SanitizeEp(b, p.side, p.ep) = p.ep /\ p.ep \in Square \cup {NoSquare}
         /\ p.ep # NoSquare => Rank(p.ep) \in {2, 5}
<1>0. p.ep \in Square \cup {NoSquare} /\ p.side \in Color
  BY DEF Legal, Sound, Shape
<1>1. CASE p.ep = NoSquare
  BY <1>1, <1>0 DEF SanitizeEp
<1>2. CASE p.ep # NoSquare
  <2> DEFINE ep == p.ep
             side == p.side
             back == ep - PushStep(side)
             expected == IF Rank(ep) = 2 THEN "Black" ELSE "White"
             rank == IF Rank(ep) = 2 THEN 3 ELSE 4
  <2>1. /\ ep \in Square /\ Rank(ep) = (IF side = "White" THEN 5 ELSE 2)
        /\ p.mailbox[ep] = NoPiece /\ p.mailbox[back] = Pawn(Flip(side))
        /\ EpCapturerExists(p, side, File(ep), Rank(back))
    BY <1>0, <1>2 DEF Legal, EpInv
  <2>2. side = expected /\ Rank(back) = rank /\ FromFileRank(File(ep), rank) = back
    <3>1. side = "White" => PushStep(side) = 8 /\ rank = 4 /\ ep \in 40..47
      BY <2>1 DEF PushStep, Rank, Square
    <3>2. side = "Black" => PushStep(side) = -8 /\ rank = 3 /\ ep \in 16..23
      BY <2>1 DEF PushStep, Rank, Square
    <3>3. side = expected
      BY <1>0, <2>1 DEF Color
    <3>4. CASE side = "White"
      BY <3>1, <3>3, <3>4 DEF Rank, File, Square, FromFileRank, OnBoard
    <3>5. CASE side = "Black"
      BY <3>2, <3>3, <3>5 DEF Rank, File, Square, FromFileRank, OnBoard
    <3> QED BY <1>0, <3>4, <3>5 DEF Color
  <2> HIDE DEF back
  <2>3. /\ PieceAt(b, FromFileRank(File(ep), rank)) = [color |-> Flip(expected), kind |-> "Pawn"]
        /\ PieceAt(b, ep) = NoPiece
    BY <2>1, <2>2 DEF PieceAt, Pawn
  <2>4. EpCapturerExists(b, side, File(ep), rank)
    <3>1. EpCapturerExists(p, side, File(ep), rank)
      BY <2>1, <2>2
    <3> HIDE DEF rank, ep, side
    <3> QED BY <3>1 DEF EpCapturerExists, PieceAt
  <2>5. SanitizeEp(b, side, ep) = ep
    BY <1>2, <2>2, <2>3, <2>4 DEF SanitizeEp
  <2> QED BY <1>0, <2>1, <2>5
<1> QED BY <1>1, <1>2

LEMMA OneKing ==
  ASSUME NEW p, Kinged(p), NEW c \in Color
  PROVE  Pieces(p, c, "King") = {p.kingSq[c]} /\ Cardinality(Pieces(p, c, "King")) = 1
<1> DEFINE K == Pieces(p, c, "King")
           k == p.kingSq[c]
<1>1. "King" \in PieceKind
  BY DEF PieceKind
<1>2. \A kind \in PieceKind : Pieces(p, c, kind) = {t \in Square : p.mailbox[t] = [color |-> c, kind |-> kind]}
  BY PieceSets DEF Kinged, Legal
<1>3. K = {t \in Square : p.mailbox[t] = King(c)}
  BY <1>1, <1>2 DEF King
<1>4. k \in Square /\ p.mailbox[k] = King(c) /\ \A t \in Square : p.mailbox[t] = King(c) => t = k
  BY BoardFunction DEF Kinged, Legal, StandsFor, KingInv
<1> HIDE DEF K, k
<1>5. K = {k}
  BY <1>3, <1>4
<1>6. Cardinality(K) = 1
  BY <1>5, FS_Singleton
<1> QED BY <1>5, <1>6 DEF K, k

\* A position is read from its own FEN.
LEMMA ReadBack ==
  ASSUME NEW p, Kinged(p), ValuesInv(p), p.fullmove # 0
  PROVE  Parse(Format(p)).err = "None" /\ Parse(Format(p)).pos = p
<1> DEFINE fen == Format(p)
           placed == ParsePlacement(fen.placement)
           b == placed.pos
           ep == SanitizeEp(b, fen.side, fen.ep)
           rights == ToSet(fen.castling)
           dressed == SetAuxState(b, fen.side, rights, ep, fen.halfmove, fen.fullmove)
           q == Refresh(dressed)
<1>0. Legal(p) /\ Sound(p) /\ p \in Shape
  BY DEF Kinged, Legal, Sound
<1>t. /\ p.side \in Color /\ p.castling \in SUBSET Right /\ p.ep \in Square \cup {NoSquare}
      /\ p.halfmove \in 0..HalfmoveMax /\ p.fullmove \in 0..(FullmoveSpan - 1)
  BY <1>0 DEF Shape
<1>1. /\ fen.placement = [i \in 1..8 |-> FormatRank(p, 8 - i)] /\ fen.side = p.side
      /\ fen.castling = FormatCastling(p.castling) /\ fen.ep = p.ep
      /\ fen.halfmove = p.halfmove /\ fen.fullmove = p.fullmove
  BY DEF Format
<1>f. fen = Format(p) /\ placed = ParsePlacement(fen.placement) /\ rights = ToSet(fen.castling)
      /\ dressed = SetAuxState(b, fen.side, rights, ep, fen.halfmove, fen.fullmove) /\ q = Refresh(dressed)
      /\ ep = SanitizeEp(b, fen.side, fen.ep)
  OBVIOUS
<1>p. Parse(fen) =
        LET err == CASE placed.err # "None" -> placed.err
               [] placed.err = "None" /\ ~CastlingOk(fen.castling) -> "BadCastlingRights"
               [] placed.err = "None" /\ CastlingOk(fen.castling) /\ fen.ep # NoSquare /\ Rank(fen.ep) \notin {2, 5} ->
                    "BadEnPassant"
               [] fen.halfmove \notin 0..HalfmoveMax -> "BadHalfmoveClock"
               [] fen.fullmove \notin 1..(FullmoveSpan - 1) -> "BadFullmoveNumber"
               [] OTHER -> "None"
        IN IF err # "None" THEN [err |-> err, pos |-> EmptyPosition]
           ELSE IF ~ValidPostParse(q) THEN [err |-> "Inconsistent", pos |-> EmptyPosition]
           ELSE [err |-> "None", pos |-> q]
  <2> HIDE DEF fen
  <2> QED BY DEF Parse
<1> HIDE DEF fen
<1>2. placed.err = "None" /\ Sound(b) /\ b.mailbox = p.mailbox /\ b.kingSq = p.kingSq
  BY <1>1, <1>f, PlacementBack
<1> HIDE DEF placed
<1>3. CastlingOk(fen.castling) /\ rights = p.castling
  BY <1>1, <1>t, <1>f, CastlingBack
<1>4. ep = p.ep /\ (p.ep # NoSquare => Rank(p.ep) \in {2, 5})
  BY <1>0, <1>1, <1>2, <1>f, EpKept
<1>5. p.fullmove \in 1..(FullmoveSpan - 1)
  <2> DEFINE n == p.fullmove
  <2>1. n \in 0..(FullmoveSpan - 1) /\ n # 0
    BY <1>t
  <2>2. FullmoveSpan \in Int
    BY DEF FullmoveSpan
  <2> HIDE DEF n
  <2>3. n \in 1..(FullmoveSpan - 1)
    BY <2>1, <2>2
  <2> QED BY <2>3 DEF n
<1> HIDE DEF b, ep, rights, dressed, q
<1>6. Parse(fen) = IF ~ValidPostParse(q) THEN [err |-> "Inconsistent", pos |-> EmptyPosition]
                   ELSE [err |-> "None", pos |-> q]
  BY <1>1, <1>2, <1>3, <1>4, <1>5, <1>p, <1>t
<1>7. /\ Sound(dressed) /\ dressed.mailbox = p.mailbox /\ dressed.kingSq = p.kingSq
      /\ dressed.side = p.side /\ dressed.castling = p.castling /\ dressed.ep = p.ep
      /\ dressed.halfmove = p.halfmove /\ dressed.fullmove = p.fullmove
  <2>1. dressed = SetAuxState(b, p.side, p.castling, p.ep, p.halfmove, p.fullmove)
    BY <1>1, <1>3, <1>4, <1>f
  <2> QED BY <1>2, <1>t, <2>1, DressedIs
<1>8. /\ Sound(q) /\ q.mailbox = p.mailbox /\ q.kingSq = p.kingSq
      /\ q.side = p.side /\ q.castling = p.castling /\ q.ep = p.ep
      /\ q.halfmove = p.halfmove /\ q.fullmove = p.fullmove
  BY <1>7, <1>f, Refreshed
<1>9. /\ q.zobrist = p.zobrist /\ q.pawnZobrist = p.pawnZobrist /\ q.score = p.score /\ q.phase = p.phase
  <2>1. ValuesInv(q)
    BY <1>7, <1>f, RefreshedValues
  <2>2. /\ PawnZobristFromScratch(q) = PawnZobristFromScratch(p) /\ FromScratch(q) = FromScratch(p)
        /\ ScoreFromScratch(q) = ScoreFromScratch(p) /\ PhaseFromScratch(q) = PhaseFromScratch(p)
    BY <1>0, <1>8, SameValues
  <2> QED BY <2>1, <2>2 DEF ValuesInv
<1>10. q = p
  <2>1. Rest(q) = Rest(p)
    BY <1>8, <1>9 DEF Rest
  <2> QED BY <1>0, <1>8, <2>1, SamePosition
<1>11. ValidPostParse(p)
  <2>1. \A r \in p.castling : /\ p.mailbox[CastlingHome[r][1]] = King(CastlingHome[r][3])
                              /\ p.mailbox[CastlingHome[r][2]] = Rook(CastlingHome[r][3])
    BY <1>0 DEF Legal, RightsInv
  <2> QED BY <2>1, OneKing DEF ValidPostParse, PieceAt, King, Rook
<1> QED BY SMTT(40), <1>6, <1>10, <1>11, <1>f

\* The copies of the board agree, as debug_assert_consistent has it.
LEMMA CopiesAgree ==
  ASSUME NEW p, Kinged(p)
  PROVE  Consistent(p)
<1> DEFINE m == p.mailbox
<1>0. /\ Sound(p) /\ BoardInv(p) /\ m \in [Square -> Piece \cup {NoPiece}]
      /\ p.pieceBb \in [PieceKind -> SUBSET Square] /\ p.colorBb \in [Color -> SUBSET Square]
  BY DEF Kinged, Legal, Sound, Shape
<1>1. \A s \in Square, c \in Color, k \in PieceKind : s \in Pieces(p, c, k) <=> m[s] = [color |-> c, kind |-> k]
  <2>1. \A c \in Color, k \in PieceKind : Pieces(p, c, k) = {s \in Square : m[s] = [color |-> c, kind |-> k]}
    BY <1>0, PieceSets
  <2> QED BY <2>1
<1>2. ASSUME NEW s \in Square
      PROVE  m[s] = IF \E c \in Color, k \in PieceKind : s \in Pieces(p, c, k)
                    THEN CHOOSE piece \in Piece : s \in Pieces(p, piece.color, piece.kind)
                    ELSE NoPiece
  <2>1. CASE m[s] = NoPiece
    <3>1. \A c \in Color, k \in PieceKind : [color |-> c, kind |-> k] # NoPiece
      BY Pieces1
    <3>2. ~ \E c \in Color, k \in PieceKind : s \in Pieces(p, c, k)
      BY <1>1, <2>1, <3>1
    <3> HIDE DEF m
    <3> QED BY <2>1, <3>2, Zenon
  <2>2. CASE m[s] # NoPiece
    <3> DEFINE piece == m[s]
    <3>1. /\ piece \in Piece /\ piece.color \in Color /\ piece.kind \in PieceKind
          /\ piece = [color |-> piece.color, kind |-> piece.kind]
      BY <1>0, <2>2, Pieces1
    <3>2. \A x \in Piece : s \in Pieces(p, x.color, x.kind) <=> x = piece
      <4> SUFFICES ASSUME NEW x \in Piece PROVE s \in Pieces(p, x.color, x.kind) <=> x = piece
        OBVIOUS
      <4>1. x.color \in Color /\ x.kind \in PieceKind /\ x = [color |-> x.color, kind |-> x.kind]
        BY Pieces1
      <4>2. s \in Pieces(p, x.color, x.kind) <=> piece = [color |-> x.color, kind |-> x.kind]
        BY <1>1, <4>1
      <4> QED BY <4>1, <4>2
    <3> HIDE DEF piece
    <3>3. \E c \in Color, k \in PieceKind : s \in Pieces(p, c, k)
      BY <3>1, <3>2
    <3>4. (CHOOSE x \in Piece : s \in Pieces(p, x.color, x.kind)) = piece
      BY <3>1, <3>2
    <3> QED BY <3>3, <3>4 DEF piece
  <2> QED BY <2>1, <2>2
<1>3. \A k1, k2 \in PieceKind : k1 # k2 => p.pieceBb[k1] \cap p.pieceBb[k2] = {}
  <2> SUFFICES ASSUME NEW k1 \in PieceKind, NEW k2 \in PieceKind, k1 # k2, NEW s \in p.pieceBb[k1], s \in p.pieceBb[k2]
               PROVE  FALSE
    OBVIOUS
  <2>1. s \in Square
    BY <1>0
  <2> QED BY <1>0, <2>1 DEF BoardInv
<1>4. Occupied(p, "White") \cap Occupied(p, "Black") = {}
  <2> SUFFICES ASSUME NEW s \in p.colorBb["White"], s \in p.colorBb["Black"] PROVE FALSE
    BY DEF Occupied
  <2>1. s \in Square /\ "White" \in Color /\ "Black" \in Color
    BY <1>0 DEF Color
  <2>2. m[s].color = "White" /\ m[s].color = "Black"
    BY <1>0, <2>1 DEF BoardInv
  <2> QED BY <2>2
<1>5. UNION {p.pieceBb[k] : k \in PieceKind} = OccupiedAll(p)
  <2>1. \A s \in Square : s \in OccupiedAll(p) <=> m[s] # NoPiece
    <3> SUFFICES ASSUME NEW s \in Square PROVE s \in OccupiedAll(p) <=> m[s] # NoPiece
      OBVIOUS
    <3>1. s \in OccupiedAll(p) <=> \E c \in Color : s \in p.colorBb[c]
      BY DEF OccupiedAll, Color
    <3>2. \A c \in Color : s \in p.colorBb[c] <=> m[s].color = c
      BY <1>0 DEF BoardInv
    <3>3. m[s] \in Piece \cup {NoPiece}
      BY <1>0
    <3> QED BY <3>1, <3>2, <3>3, Pieces1
  <2>2. \A s \in Square : (\E k \in PieceKind : s \in p.pieceBb[k]) <=> m[s] # NoPiece
    <3> SUFFICES ASSUME NEW s \in Square PROVE (\E k \in PieceKind : s \in p.pieceBb[k]) <=> m[s] # NoPiece
      OBVIOUS
    <3>2. \A k \in PieceKind : s \in p.pieceBb[k] <=> m[s].kind = k
      BY <1>0 DEF BoardInv
    <3>3. m[s] \in Piece \cup {NoPiece}
      BY <1>0
    <3> QED BY <3>2, <3>3, Pieces1
  <2>3. OccupiedAll(p) \subseteq Square /\ \A k \in PieceKind : p.pieceBb[k] \subseteq Square
    BY <1>0 DEF OccupiedAll, Color
  <2> HIDE DEF m
  <2> QED BY <2>1, <2>2, <2>3
<1> QED BY <1>2, <1>3, <1>4, <1>5, OneKing DEF Consistent

LEMMA Typed ==
  ASSUME NEW p, Kinged(p), ValuesInv(p)
  PROVE  p \in PositionType
<1>1. p \in Shape /\ Sound(p)
  BY DEF Kinged, Legal, Sound
<1>2. p.phase \in 0..255
  <2>1. "White" \in Color
    BY DEF Color
  <2> DEFINE k == p.kingSq["White"]
  <2>2. k \in Square /\ p.mailbox[k] = King("White")
    BY <1>1, <2>1, BoardFunction DEF Kinged, StandsFor
  <2> HIDE DEF k
  <2>3. PhaseFromScratch(p) \in 0..255
    BY <1>1, <2>1, <2>2, PhaseFits
  <2> QED BY <2>3 DEF ValuesInv
<1> QED BY <1>1, <1>2 DEF Shape, PositionType

IsItsFen(p) ==
  LET parsed == Parse(Format(p))
  IN  p \in PositionType /\ Consistent(p) /\ parsed.err = "None" /\ parsed.pos = p

LEMMA SaneIsItsFen ==
  ASSUME NEW p, Sane(p), StandsFor(p, p.side), p.fullmove # 0
  PROVE  IsItsFen(p)
<1>1. Kinged(p) /\ ValuesInv(p)
  <2>1. p.side \in Color /\ \A c \in Color : c = p.side \/ c = Flip(p.side)
    BY PieceSets DEF Sane, Legal, Color, Flip
  <2> QED BY <2>1 DEF Kinged, Sane
<1> QED BY <1>1, Typed, CopiesAgree, ReadBack DEF IsItsFen

-----------------------------------------------------------------------------
\* The line: each entry holds what the position it was made in had, and each
\* position was made from the one before.
IsSeq(s) == \E S : s \in Seq(S)

Leads(entry, p, q) ==
  IF entry.null THEN entry.undo = NullUndo(p) /\ q = MakeNullMove(p)
  ELSE entry.undo = Undo(p, entry.mv) /\ StepInv(p, entry.mv) /\ q = MakeMove(p, entry.mv)

LineOf(p, entries, positions) ==
  /\ Sane(p) /\ IsSeq(entries) /\ IsSeq(positions) /\ Len(entries) = Len(positions)
  /\ \A i \in 1..Len(entries) :
       Sane(positions[i]) /\ Leads(entries[i], positions[i], IF i = Len(entries) THEN p ELSE positions[i + 1])

LineInv == LineOf(pos, line, before)

Extends(t, s, e) == t = Append(s, e)

LEMMA Longer ==
  ASSUME NEW s, IsSeq(s), NEW e, NEW t, Extends(t, s, e)
  PROVE  /\ IsSeq(t) /\ Len(s) \in Nat /\ Len(t) = Len(s) + 1 /\ t[Len(s) + 1] = e
         /\ \A i \in 1..Len(s) : t[i] = s[i]
<1>1. PICK S : s \in Seq(S)
  BY DEF IsSeq
<1> DEFINE T == S \cup {e}
<1>2. s \in Seq(T) /\ e \in T
  BY <1>1, SeqMonotonic
<1> HIDE DEF T
<1>3. Len(s) \in Nat
  BY <1>2, LenProperties
<1> QED BY <1>2, <1>3, AppendProperties DEF IsSeq, Extends

LEMMA Shorter ==
  ASSUME NEW s, IsSeq(s), s # <<>>, NEW t, t = SubSeq(s, 1, Len(s) - 1)
  PROVE  /\ IsSeq(t) /\ Len(s) \in Nat \ {0} /\ Len(t) = Len(s) - 1
         /\ \A i \in 1..Len(t) : t[i] = s[i]
<1>1. PICK S : s \in Seq(S)
  BY DEF IsSeq
<1>2. Len(s) \in Nat \ {0}
  BY <1>1, EmptySeq
<1> DEFINE m == 1
           n == Len(s) - 1
<1>3. m \in Int /\ n \in Int /\ m = 1 /\ n >= 0 /\ \A i \in m..n : s[i] \in S
  BY <1>1, <1>2, ElementOfSeq
<1>4. t = SubSeq(s, m, n) /\ n = Len(s) - 1
  OBVIOUS
<1> HIDE DEF m, n
<1>5. /\ t \in Seq(S) /\ Len(t) = (IF m <= n THEN n - m + 1 ELSE 0)
      /\ \A i \in 1..(n - m + 1) : t[i] = s[m + i - 1]
  BY <1>3, <1>4, SubSeqProperties
<1>6. Len(t) = n
  BY <1>3, <1>5
<1>7. \A i \in 1..n : t[i] = s[i]
  <2> SUFFICES ASSUME NEW i \in 1..n PROVE t[i] = s[i]
    OBVIOUS
  <2>1. i \in 1..(n - m + 1) /\ m + i - 1 = i
    BY <1>3
  <2> QED BY <1>5, <2>1
<1> QED BY <1>2, <1>4, <1>5, <1>6, <1>7 DEF IsSeq

LEMMA Pushed ==
  ASSUME NEW p, NEW entries, NEW positions, LineOf(p, entries, positions),
         NEW entry, NEW q, Leads(entry, p, q), Sane(q)
  PROVE  LineOf(q, Append(entries, entry), Append(positions, p))
<1> DEFINE es == Append(entries, entry)
           ps == Append(positions, p)
           n == Len(entries)
<1>1. /\ Sane(p) /\ IsSeq(entries) /\ IsSeq(positions) /\ n = Len(positions)
      /\ \A i \in 1..n :
           Sane(positions[i]) /\ Leads(entries[i], positions[i], IF i = n THEN p ELSE positions[i + 1])
  BY DEF LineOf
<1>2. /\ IsSeq(es) /\ n \in Nat /\ Len(es) = n + 1 /\ es[n + 1] = entry
      /\ \A i \in 1..n : es[i] = entries[i]
  <2>1. Extends(es, entries, entry) /\ n = Len(entries)
    BY DEF Extends
  <2> HIDE DEF es, n
  <2>2. /\ IsSeq(es) /\ Len(entries) \in Nat /\ Len(es) = Len(entries) + 1 /\ es[Len(entries) + 1] = entry
        /\ \A i \in 1..Len(entries) : es[i] = entries[i]
    <3>1. IsSeq(entries)
      BY <1>1
    <3> HIDE <1>1
    <3> QED BY <2>1, <3>1, Longer
  <2> QED BY <2>1, <2>2
<1>3. /\ IsSeq(ps) /\ Len(ps) = n + 1 /\ ps[n + 1] = p
      /\ \A i \in 1..n : ps[i] = positions[i]
  <2>1. Extends(ps, positions, p)
    BY DEF Extends
  <2> HIDE DEF ps, n
  <2>2. /\ IsSeq(ps) /\ Len(ps) = Len(positions) + 1 /\ ps[Len(positions) + 1] = p
        /\ \A i \in 1..Len(positions) : ps[i] = positions[i]
    <3>1. IsSeq(positions)
      BY <1>1
    <3> HIDE <1>1
    <3> QED BY <2>1, <3>1, Longer
  <2> QED BY <1>1, <2>2
<1> HIDE DEF es, ps, n
<1>4. ASSUME NEW i \in 1..(n + 1)
      PROVE  Sane(ps[i]) /\ Leads(es[i], ps[i], IF i = n + 1 THEN q ELSE ps[i + 1])
  <2>1. CASE i = n + 1
    BY <1>1, <1>2, <1>3, <2>1
  <2>2. CASE i # n + 1
    <3>1. i \in 1..n /\ i # n + 1
      BY <1>2, <2>2
    <3>2. es[i] = entries[i] /\ ps[i] = positions[i]
      BY <1>2, <1>3, <3>1
    <3>3. ps[i + 1] = IF i = n THEN p ELSE positions[i + 1]
      <4>1. i # n => i + 1 \in 1..n
        BY <1>2, <3>1
      <4> QED BY <1>3, <4>1
    <3> QED BY <1>1, <3>1, <3>2, <3>3
  <2> QED BY <2>1, <2>2
<1> QED BY <1>2, <1>3, <1>4 DEF LineOf, es, ps

LEMMA Popped ==
  ASSUME NEW p, NEW entries, NEW positions, LineOf(p, entries, positions), entries # <<>>
  PROVE  /\ Leads(entries[Len(entries)], positions[Len(entries)], p)
         /\ Sane(positions[Len(entries)])
         /\ LineOf(positions[Len(entries)], SubSeq(entries, 1, Len(entries) - 1),
                   SubSeq(positions, 1, Len(positions) - 1))
<1> DEFINE n == Len(entries)
           es == SubSeq(entries, 1, Len(entries) - 1)
           ps == SubSeq(positions, 1, Len(positions) - 1)
<1>1. /\ Sane(p) /\ IsSeq(entries) /\ IsSeq(positions) /\ n = Len(positions)
      /\ \A i \in 1..n :
           Sane(positions[i]) /\ Leads(entries[i], positions[i], IF i = n THEN p ELSE positions[i + 1])
  BY DEF LineOf
<1>2. IsSeq(es) /\ n \in Nat \ {0} /\ Len(es) = n - 1 /\ \A i \in 1..Len(es) : es[i] = entries[i]
  BY <1>1, Shorter
<1>3. positions # <<>>
  BY <1>1, <1>2, EmptySeq
<1>4. IsSeq(ps) /\ Len(ps) = n - 1 /\ \A i \in 1..Len(ps) : ps[i] = positions[i]
  <2>1. IsSeq(ps) /\ Len(ps) = Len(positions) - 1 /\ \A i \in 1..Len(ps) : ps[i] = positions[i]
    BY <1>1, <1>3, Shorter
  <2> QED BY <1>1, <2>1
<1>5. n = Len(entries)
  OBVIOUS
<1> HIDE DEF es, ps, n
<1>6. n \in 1..n /\ Leads(entries[n], positions[n], p) /\ Sane(positions[n])
  BY <1>1, <1>2
<1>7. ASSUME NEW i \in 1..(n - 1)
      PROVE  Sane(ps[i]) /\ Leads(es[i], ps[i], IF i = n - 1 THEN positions[n] ELSE ps[i + 1])
  <2>1. i \in 1..n /\ i # n /\ (i # n - 1 => i + 1 \in 1..(n - 1))
    BY <1>2
  <2>2. es[i] = entries[i] /\ ps[i] = positions[i] /\ (i # n - 1 => ps[i + 1] = positions[i + 1])
    BY <1>2, <1>4, <2>1
  <2>3. Sane(positions[i]) /\ Leads(entries[i], positions[i], positions[i + 1])
    BY <1>1, <2>1
  <2>4. i = n - 1 => i + 1 = n
    BY <1>2
  <2> QED BY <2>2, <2>3, <2>4
<1>8. LineOf(positions[n], es, ps)
  BY <1>2, <1>4, <1>6, <1>7 DEF LineOf
<1> QED BY <1>6, <1>8 DEF n, es, ps

\* The king of the side to move has not been captured.
KingStands == StandsFor(pos, pos.side)

LEMMA LineStarts == Init => LineInv
<1> SUFFICES ASSUME Init PROVE LineInv
  OBVIOUS
<1>1. PICK fen \in Games : Parse(fen).err = "None" /\ pos = Parse(fen).pos
  BY DEF Init
<1>2. Sane(pos)
  BY <1>1, ParseSane, GamesAssumption
<1>3. IsSeq(<<>>) /\ Len(<<>>) = 0
  BY EmptySeq DEF IsSeq
<1>4. line = <<>> /\ before = <<>>
  BY DEF Init
<1> QED BY <1>2, <1>3, <1>4 DEF LineInv, LineOf

LEMMA TakenBack ==
  ASSUME LineInv, Unmake \/ UnmakeNull
  PROVE  LineInv' /\ pos' = before[Len(line)]
<1> DEFINE entry == line[Len(line)]
           p == before[Len(line)]
<1>1. line # <<>>
  BY DEF Unmake, UnmakeNull
<1>2. /\ Leads(entry, p, pos) /\ Sane(p)
      /\ LineOf(p, SubSeq(line, 1, Len(line) - 1), SubSeq(before, 1, Len(before) - 1))
  BY <1>1, Popped DEF LineInv
<1>3. line' = SubSeq(line, 1, Len(line) - 1) /\ before' = SubSeq(before, 1, Len(before) - 1)
  BY DEF Unmake, UnmakeNull, Pop
<1>4. pos' = p
  <2>1. CASE Unmake
    <3>1. ~entry.null /\ pos' = UnmakeMove(pos, entry.mv, entry.undo)
      BY <2>1 DEF Unmake, Pop
    <3>2. entry.undo = Undo(p, entry.mv) /\ StepInv(p, entry.mv) /\ pos = MakeMove(p, entry.mv)
      BY <1>2, <3>1 DEF Leads
    <3>3. UnmakeMove(MakeMove(p, entry.mv), entry.mv, Undo(p, entry.mv)) = p
      <4> DEFINE mv == entry.mv
      <4>1. Sane(p) /\ StepInv(p, mv)
        BY <1>2, <3>2
      <4> HIDE DEF mv, p
      <4>2. UnmakeMove(MakeMove(p, mv), mv, Undo(p, mv)) = p
        BY <4>1, UnmakeIs DEF Sane
      <4> QED BY <4>2 DEF mv
    <3> QED BY <3>1, <3>2, <3>3
  <2>2. CASE UnmakeNull
    <3>1. entry.null /\ pos' = UnmakeNullMove(pos, entry.undo)
      BY <2>2 DEF UnmakeNull, Pop
    <3>2. entry.undo = NullUndo(p) /\ pos = MakeNullMove(p)
      BY <1>2, <3>1 DEF Leads
    <3>3. UnmakeNullMove(MakeNullMove(p), NullUndo(p)) = p
      <4> HIDE DEF p
      <4> QED BY <1>2, UnmakeNullIs DEF Sane
    <3> QED BY <3>1, <3>2, <3>3
  <2> QED BY <2>1, <2>2
<1> QED BY <1>2, <1>3, <1>4 DEF LineInv

LEMMA MoveMade ==
  ASSUME LineInv, KingStands, Make \/ MakeNull
  PROVE  LineInv' /\ ~(Len(line') < Len(line))
<1>0. Sane(pos) /\ IsSeq(line)
  BY DEF LineInv, LineOf
<1>1. ASSUME NEW entry, NEW q, Push(entry, q), Leads(entry, pos, q), Sane(q)
      PROVE  LineInv' /\ ~(Len(line') < Len(line))
  <2>1. line' = Append(line, entry) /\ before' = Append(before, pos) /\ pos' = q
    BY <1>1 DEF Push
  <2>2. LineOf(q, Append(line, entry), Append(before, pos))
    BY <1>1, Pushed DEF LineInv
  <2>3. Len(line) \in Nat /\ Len(Append(line, entry)) = Len(line) + 1
    <3>1. Extends(Append(line, entry), line, entry)
      BY DEF Extends
    <3> QED BY <1>0, <3>1, Longer
  <2> QED BY <2>1, <2>2, <2>3 DEF LineInv
<1>2. CASE Make
  <2>1. PICK mv \in GenerateMoves(pos) :
          Push([null |-> FALSE, mv |-> mv, undo |-> Undo(pos, mv)], MakeMove(pos, mv))
    BY <1>2 DEF Make
  <2> DEFINE entry == [null |-> FALSE, mv |-> mv, undo |-> Undo(pos, mv)]
             q == MakeMove(pos, mv)
  <2>2. StepInv(pos, mv)
    BY <1>0, GeneratedMoves DEF KingStands, StandsFor, Sane
  <2>3. Sane(q)
    BY <1>0, <2>2, MadeSane DEF KingStands
  <2>4. Leads(entry, pos, q)
    BY <2>2 DEF Leads
  <2>5. Push(entry, q)
    BY <2>1
  <2> HIDE DEF entry, q
  <2> QED BY <1>1, <2>3, <2>4, <2>5
<1>3. CASE MakeNull
  <2> DEFINE entry == [null |-> TRUE, mv |-> MoveOf(A1, A1, Quiet), undo |-> NullUndo(pos)]
             q == MakeNullMove(pos)
  <2>3. Sane(q)
    BY <1>0, PassedSane DEF KingStands
  <2>4. Leads(entry, pos, q)
    BY DEF Leads
  <2>5. Push(entry, q)
    BY <1>3 DEF MakeNull
  <2> HIDE DEF entry, q
  <2> QED BY <1>1, <2>3, <2>4, <2>5
<1> QED BY <1>2, <1>3

(***************************************************************************)
(* Every position the engine comes to from a FEN that was accepted, by     *)
(* moves, passes and takebacks, is sane: legal as far as taking moves back *)
(* goes, and with the keys and the evaluation sums, kept by small steps,   *)
(* that a full computation gives.  So is every position of its line, whose *)
(* tokens are theirs (make_move, unmake_move, make_null_move,              *)
(* unmake_null_move, fen::parse).                                          *)
(***************************************************************************)
THEOREM LinesLegal == Spec /\ []KingStands => []LineInv
<1>1. LineInv /\ KingStands /\ [Next]_vars => LineInv'
  <2> SUFFICES ASSUME LineInv, KingStands, [Next]_vars PROVE LineInv'
    OBVIOUS
  <2>1. CASE Make \/ MakeNull
    BY <2>1, MoveMade
  <2>2. CASE Unmake \/ UnmakeNull
    BY <2>2, TakenBack
  <2>3. CASE UNCHANGED vars
    BY <2>3 DEF vars, LineInv
  <2> QED BY <2>1, <2>2, <2>3 DEF Next
<1> QED BY <1>1, LineStarts, PTL DEF Spec

(***************************************************************************)
(* Taking a move back gives the position it was made in: its board, its    *)
(* keys, its clocks and its evaluation sums.  The FENs are any the parser  *)
(* accepts; KingStands is there because it accepts one in which the side   *)
(* to move can capture the king.                                           *)
(***************************************************************************)
THEOREM UnmakeCorrect == Spec /\ []KingStands => UnmakeRestores
<1>1. LineInv /\ KingStands /\ [Next]_vars => [Len(line') < Len(line) => pos' = before[Len(line)]]_vars
  <2> SUFFICES ASSUME LineInv, KingStands, Next, Len(line') < Len(line) PROVE pos' = before[Len(line)]
    BY DEF vars
  <2>1. CASE Make \/ MakeNull
    BY <2>1, MoveMade
  <2>2. CASE Unmake \/ UnmakeNull
    BY <2>2, TakenBack
  <2> QED BY <2>1, <2>2 DEF Next
<1> QED BY <1>1, LinesLegal, PTL DEF Spec, UnmakeRestores

(***************************************************************************)
(* A position reached by moves, passes and takebacks is the one that a     *)
(* fresh parse of its own FEN builds, whatever the game and its length:    *)
(* copies of the board, en passant target, rights, keys and sums           *)
(* (make_move and unmake_move against fen::format, fen::parse and          *)
(* debug_assert_consistent).  The move number is a u16 that wraps: at 0    *)
(* the parser refuses what format wrote, and nothing is claimed.           *)
(***************************************************************************)
THEOREM FenFaithful == Spec /\ []KingStands => [](pos.fullmove # 0 => IsWhatItsFenSays)
<1>1. LineInv /\ KingStands => (pos.fullmove # 0 => IsWhatItsFenSays)
  <2> SUFFICES ASSUME LineInv, KingStands, pos.fullmove # 0 PROVE IsWhatItsFenSays
    OBVIOUS
  <2>1. Sane(pos) /\ StandsFor(pos, pos.side)
    BY DEF LineInv, LineOf, KingStands
  <2>2. IsItsFen(pos)
    BY <2>1, SaneIsItsFen
  <2> QED BY <2>2 DEF IsItsFen, IsWhatItsFenSays
<1> QED BY <1>1, LinesLegal, PTL
=============================================================================
