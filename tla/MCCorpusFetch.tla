--------------------------- MODULE MCCorpusFetch ---------------------------
(***************************************************************************)
(* Instances of CorpusFetch for TLC.                                       *)
(***************************************************************************)
EXTENDS CorpusFetch

\* Raw game 2 does not replay.  Game 1 repeats a position and overflows the
\* per-game cap, game 2 adds nothing new, and game 3 meets positions that the
\* cap took from game 1.
MCRecords == <<<<"a", "b", "a", "c">>, <<"b">>, <<"c", "a", "d">>>>
MCDraws == <<<<0, 0, 2, 3>>, <<0>>, <<0, 0, 3>>>>

Lane == INSTANCE LaneCommit WITH
  Records <- MCRecords, Draws <- MCDraws, PerGameCap <- 2

MCRecordsOf(id) == IF id \in DOMAIN MCRecords THEN MCRecords[id] ELSE <<>>

\* A table, which TLC computes once: records are the first n of their game.
MCTable ==
  <<>> @@ [id \in DOMAIN MCRecords, n \in 0 .. 4, seen \in SUBSET {"a", "b", "c", "d"} |->
     Lane!DedupAndCapOf(SubSeq(MCRecords[id], 1, Min({n, Len(MCRecords[id])})), id, seen)]
MCSurvivors(records, id, seen) == MCTable[id, Len(records), seen]
=============================================================================
