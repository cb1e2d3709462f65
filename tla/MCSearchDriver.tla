--------------------------- MODULE MCSearchDriver ---------------------------
(***************************************************************************)
(* Instances of SearchDriver for TLC.                                      *)
(***************************************************************************)
EXTENDS SearchDriver

CONSTANTS a, b

NoLimits ==
  [depth |-> None, nodes |-> None, mate |-> None, movetime |-> None,
   infinite |-> FALSE, ponder |-> FALSE, wtime |-> None, btime |-> None,
   winc |-> None, binc |-> None, movestogo |-> None, searchmoves |-> None]

MCLegalSets == {{}, {a, b}}

\* One go command of each kind, and the mixtures that decide differently.
MCLimits ==
  { [NoLimits EXCEPT !.winc = 4],
    [NoLimits EXCEPT !.depth = 0],
    [NoLimits EXCEPT !.depth = 9],
    [NoLimits EXCEPT !.nodes = 1],
    [NoLimits EXCEPT !.infinite = TRUE],
    [NoLimits EXCEPT !.movetime = 3],
    [NoLimits EXCEPT !.wtime = 3, !.movestogo = 2],
    [NoLimits EXCEPT !.wtime = -2, !.winc = 4, !.searchmoves = {a}],
    [NoLimits EXCEPT !.depth = 2, !.searchmoves = {}] }

Fixed == [adaptive |-> FALSE, k_centi |-> 200, min |-> 1, max |-> 2,
          adaptive_min_depth |-> 0, adaptive_max_depth |-> 9]
Adaptive == [Fixed EXCEPT !.adaptive = TRUE]
\* Aspiration_Min above Aspiration_Max.
Inverted == [Adaptive EXCEPT !.min = 2, !.max = 1]
MCParams == {Adaptive, Inverted}

MCScores == {-2, 0, 1}

\* For the disagreements with the documentation.
DepthThree == {[NoLimits EXCEPT !.depth = 3]}
AdvertisedParams == {Adaptive, Inverted}
=============================================================================
