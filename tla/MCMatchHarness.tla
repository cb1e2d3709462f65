--------------------------- MODULE MCMatchHarness ---------------------------
(***************************************************************************)
(* Instances of MatchHarness for TLC.                                      *)
(***************************************************************************)
EXTENDS MatchHarness

\* The ratio goes up with a pair won and down, faster, with a pair lost, so that
\* a pair under way can take it from one bound over the other.
Lead(c) == c[3] + c[4] - 2 * (c[0] + c[1])
MCVerdict(c) == IF Lead(c) >= 1 THEN "H1" ELSE IF Lead(c) <= -1 THEN "H0" ELSE "continue"

MCPairs == 0 .. 3
=============================================================================
