---------------------------- MODULE MCUciEngine ----------------------------
(***************************************************************************)
(* Instances of UciEngine for TLC.                                         *)
(***************************************************************************)
EXTENDS UciEngine

\* Every handler, with one representative of those that behave alike.
MCCommands ==
  [op : {"isready", "ucinewgame", "bench", "stop", "quit", "log", "seed",
         "hash"}, arg : {"none"}]
    \cup [op : {"go"}, arg : {"bounded", "infinite"}]
    \cup [op : {"position"}, arg : {"p1"}]
    \cup [op : {"overhead", "params"}, arg : {"v1"}]
=============================================================================
