------------------------------- MODULE Board -------------------------------
(***************************************************************************)
(* The geometry of the board: squares, bitboards and the attack tables of  *)
(* src/square.rs, src/piece.rs, src/bitboard.rs, src/slow_attacks.rs and   *)
(* src/movegen/masks.rs.  A Bitboard (a u64 with one bit a square) is the  *)
(* set of the squares whose bit is set; a shift is arithmetic on the bit   *)
(* numbers, with the file that would wrap round masked off first and the   *)
(* bits that leave the word dropped, as the code does it.                  *)
(***************************************************************************)
EXTENDS Integers, FiniteSets

Square == 0..63
NoSquare == -1                          \* Option<Square>::None

Color == {"White", "Black"}
PieceKind == {"Pawn", "Knight", "Bishop", "Rook", "Queen", "King"}
Piece == [color : Color, kind : PieceKind]
NoPiece == [color |-> "None", kind |-> "None"]      \* Option<Piece>::None

Abs(n) == IF n < 0 THEN -n ELSE n

Flip(c) == IF c = "White" THEN "Black" ELSE "White"

File(s) == s % 8
Rank(s) == s \div 8
OnBoard(f, r) == f \in 0..7 /\ r \in 0..7
FromFileRank(f, r) == IF OnBoard(f, r) THEN 8 * r + f ELSE NoSquare

A1 == 0
B1 == 1
C1 == 2
D1 == 3
E1 == 4
F1 == 5
G1 == 6
H1 == 7
A8 == 56
B8 == 57
C8 == 58
D8 == 59
E8 == 60
F8 == 61
G8 == 62
H8 == 63

-----------------------------------------------------------------------------
(* Whole-board shifts. *)

FileA == {s \in Square : File(s) = 0}
FileH == {s \in Square : File(s) = 7}

Shift(B, n) == {s + n : s \in B} \cap Square

ShiftNorthEast(B) == Shift(B \ FileH, 9)
ShiftNorthWest(B) == Shift(B \ FileA, 7)
ShiftSouthEast(B) == Shift(B \ FileH, -7)
ShiftSouthWest(B) == Shift(B \ FileA, -9)

-----------------------------------------------------------------------------
(* Rays: Ray[s][d][k] is the square k steps from s in the direction d.     *)

RookDir == {<<0, 1>>, <<0, -1>>, <<1, 0>>, <<-1, 0>>}
BishopDir == {<<1, 1>>, <<1, -1>>, <<-1, 1>>, <<-1, -1>>}
Dir == RookDir \cup BishopDir

Ray == [s \in Square |-> [d \in Dir |->
          [k \in {k \in 1..7 : OnBoard(File(s) + k * d[1], Rank(s) + k * d[2])} |->
             FromFileRank(File(s) + k * d[1], Rank(s) + k * d[2])]]]

(* The walk stops on the first blocker, which it includes. *)
RayAttack(s, occ, d) ==
  {Ray[s][d][k] : k \in {k \in DOMAIN Ray[s][d] :
                            \A j \in 1..(k - 1) : Ray[s][d][j] \notin occ}}

RookAttacks(s, occ) == UNION {RayAttack(s, occ, d) : d \in RookDir}
BishopAttacks(s, occ) == UNION {RayAttack(s, occ, d) : d \in BishopDir}
QueenAttacks(s, occ) == RookAttacks(s, occ) \cup BishopAttacks(s, occ)

(* The squares whose occupancy the magic tables are indexed by: every ray  *)
(* without its last square.                                                *)
RayMask(s, d) == {Ray[s][d][k] : k \in {k \in DOMAIN Ray[s][d] : k + 1 \in DOMAIN Ray[s][d]}}
RookMask == [s \in Square |-> UNION {RayMask(s, d) : d \in RookDir}]
BishopMask == [s \in Square |-> UNION {RayMask(s, d) : d \in BishopDir}]

(* The looked-up attacks: the table holds the walk over the occupancy      *)
(* restricted to the mask (magic.rs; the multiplication that finds the     *)
(* slot is left out).                                                      *)
MagicRook(s, occ) == RookAttacks(s, occ \cap RookMask[s])
MagicBishop(s, occ) == BishopAttacks(s, occ \cap BishopMask[s])
MagicQueen(s, occ) == MagicRook(s, occ) \cup MagicBishop(s, occ)

-----------------------------------------------------------------------------
(* Leaf-piece tables. *)

Leaps(s, D) == {FromFileRank(File(s) + d[1], Rank(s) + d[2]) : d \in D} \ {NoSquare}

KnightAttacks == [s \in Square |->
  Leaps(s, {<<-2, -1>>, <<-2, 1>>, <<-1, -2>>, <<-1, 2>>,
            <<1, -2>>, <<1, 2>>, <<2, -1>>, <<2, 1>>})]

KingAttacks == [s \in Square |-> Leaps(s, Dir)]

(* Indexed by the colour of the attacking pawn. *)
PawnAttacks ==
  [c \in Color |-> [s \in Square |->
     LET up == IF c = "White" THEN 1 ELSE -1 IN Leaps(s, {<<-1, up>>, <<1, up>>})]]

(* Strictly between two squares of one line; empty when there is none. *)
Between == [a \in Square |-> [b \in Square |->
  UNION {UNION {{Ray[a][d][j] : j \in 1..(k - 1)} : k \in {k \in DOMAIN Ray[a][d] : Ray[a][d][k] = b}} :
           d \in Dir}]]

(* The whole line through two squares, to the edges of the board. *)
Line == [a \in Square |-> [b \in Square |->
  UNION {{a} \cup {Ray[a][d][k] : k \in DOMAIN Ray[a][d]}
             \cup {Ray[a][<<-d[1], -d[2]>>][k] : k \in DOMAIN Ray[a][<<-d[1], -d[2]>>]} :
           d \in {d \in Dir : \E k \in DOMAIN Ray[a][d] : Ray[a][d][k] = b}}]]

=============================================================================
