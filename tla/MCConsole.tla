----------------------------- MODULE MCConsole -----------------------------
(***************************************************************************)
(* TLC instances of Console: one channel id that two sessions use, two     *)
(* pings, and queues that the requests of two sessions and what the server *)
(* says unasked do fill.                                                   *)
(***************************************************************************)
EXTENDS Console

CONSTANT c1

MCIds == {c1}
=============================================================================
