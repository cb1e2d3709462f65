-------------------------------- MODULE Fen --------------------------------
(***************************************************************************)
(* Reading and writing a position (src/fen.rs).  A FEN is a record of its  *)
(* six fields; the placement is a sequence of eight ranks, eighth rank     *)
(* first, each a sequence of tokens: a piece or a run of 1..8 empty        *)
(* squares.  The characters themselves, and the errors that only            *)
(* characters can make, are left out.                                      *)
(***************************************************************************)
EXTENDS Position, Sequences, SequencesExt

Empty(n) == [run |-> n]          \* a digit of the placement
IsRun(token) == "run" \in DOMAIN token
Token == Piece \cup {Empty(n) : n \in 1..8}

(* The fields of a FEN, each read on its own but not yet checked. *)
FenType ==
  [placement : Seq(Seq(Token)), side : Color, castling : Seq(Right), ep : Square \cup {NoSquare},
   halfmove : Int, fullmove : Int]

(* What is left of a rank once its first squares have been read: the file  *)
(* cursor, the position so far and the first error.                        *)
PlaceToken(cursor, token, rank) ==
  IF cursor.err # "None" THEN cursor
  ELSE IF IsRun(token)
  THEN IF cursor.file + token.run > 8 THEN [cursor EXCEPT !.err = "BadPiecePlacement"]
                                       ELSE [cursor EXCEPT !.file = @ + token.run]
  ELSE CASE cursor.file >= 8 -> [cursor EXCEPT !.err = "BadPiecePlacement"]
         [] cursor.file < 8 /\ token.kind = "Pawn" /\ rank \in {0, 7} -> [cursor EXCEPT !.err = "PawnOnBackRank"]
         [] OTHER -> [cursor EXCEPT !.pos = SetPiece(@, FromFileRank(cursor.file, rank), token), !.file = @ + 1]

PlaceRank(cursor, tokens, rank) ==
  LET read == FoldLeft(LAMBDA c, token : PlaceToken(c, token, rank), [cursor EXCEPT !.file = 0], tokens)
  IN IF read.err = "None" /\ read.file # 8 THEN [read EXCEPT !.err = "BadPiecePlacement"] ELSE read

ParsePlacement(ranks) ==
  LET start == [pos |-> EmptyPosition, file |-> 0, err |-> IF Len(ranks) = 8 THEN "None" ELSE "BadPiecePlacement"]
  IN IF Len(ranks) # 8 THEN start
     ELSE FoldLeft(LAMBDA c, i : PlaceRank(c, ranks[i], 8 - i), start, [i \in 1..8 |-> i])

(* Strict order: every letter must be found at or after the one that       *)
(* follows the last letter read.                                           *)
CastlingLetters == <<"WhiteKing", "WhiteQueen", "BlackKing", "BlackQueen">>

CastlingOk(letters) ==
  \E at \in [1..Len(letters) -> 1..4] :
     /\ \A i \in 1..Len(letters) : CastlingLetters[at[i]] = letters[i]
     /\ \A i, j \in 1..Len(letters) : i < j => at[i] < at[j]

EpCapturerExists(p, capturer, file, rank) ==
  \E s \in {FromFileRank(file - 1, rank), FromFileRank(file + 1, rank)} \ {NoSquare} :
     PieceAt(p, s) = [color |-> capturer, kind |-> "Pawn"]

(* A syntactically valid target no pawn could capture on is dropped.       *)
SanitizeEp(p, side, ep) ==
  LET expectedSide == IF Rank(ep) = 2 THEN "Black" ELSE "White"
      pawnRank == IF Rank(ep) = 2 THEN 3 ELSE 4
  IN IF /\ ep # NoSquare
        /\ side = expectedSide
        /\ PieceAt(p, FromFileRank(File(ep), pawnRank)) = [color |-> Flip(expectedSide), kind |-> "Pawn"]
        /\ PieceAt(p, ep) = NoPiece
        /\ EpCapturerExists(p, side, File(ep), pawnRank)
     THEN ep ELSE NoSquare

(* [err, pos]: pos means something when err is "None". *)
Parse(fen) ==
  LET placed == ParsePlacement(fen.placement)
      aux == Refresh(SetAuxState(placed.pos, fen.side, ToSet(fen.castling),
                                 SanitizeEp(placed.pos, fen.side, fen.ep), fen.halfmove, fen.fullmove))
      err == CASE placed.err # "None" -> placed.err
               [] placed.err = "None" /\ ~CastlingOk(fen.castling) -> "BadCastlingRights"
               [] placed.err = "None" /\ CastlingOk(fen.castling) /\ fen.ep # NoSquare /\ Rank(fen.ep) \notin {2, 5} ->
                    "BadEnPassant"
               [] fen.halfmove \notin 0..HalfmoveMax -> "BadHalfmoveClock"
               [] fen.fullmove \notin 1..(FullmoveSpan - 1) -> "BadFullmoveNumber"
               [] OTHER -> "None"
  IN IF err # "None" THEN [err |-> err, pos |-> EmptyPosition]
     ELSE IF ~ValidPostParse(aux) THEN [err |-> "Inconsistent", pos |-> EmptyPosition]
     ELSE [err |-> "None", pos |-> aux]

-----------------------------------------------------------------------------
(* Writing: a run of empty squares is flushed before a piece and at the    *)
(* end of the rank.                                                        *)
Flush(w) == IF w.run > 0 THEN Append(w.tokens, Empty(w.run)) ELSE w.tokens

WriteSquare(w, piece) ==
  IF piece = NoPiece THEN [w EXCEPT !.run = @ + 1]
  ELSE [tokens |-> Append(Flush(w), piece), run |-> 0]

FormatRank(p, rank) ==
  LET files == [i \in 1..8 |-> i - 1]
  IN Flush(FoldLeft(LAMBDA w, file : WriteSquare(w, PieceAt(p, FromFileRank(file, rank))),
                    [tokens |-> <<>>, run |-> 0], files))

(* The letters of the rights that are held, always in the same order. *)
FormatCastling(rights) ==
  LET write(letters, i) ==
        IF CastlingLetters[i] \in rights THEN Append(letters, CastlingLetters[i]) ELSE letters
  IN write(write(write(write(<<>>, 1), 2), 3), 4)

Format(p) ==
  [placement |-> [i \in 1..8 |-> FormatRank(p, 8 - i)],
   side |-> p.side, castling |-> FormatCastling(p.castling),
   ep |-> p.ep, halfmove |-> p.halfmove, fullmove |-> p.fullmove]

=============================================================================
