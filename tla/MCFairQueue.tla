---------------------------- MODULE MCFairQueue ----------------------------
(***************************************************************************)
(* TLC instance of FairQueue.  Three channels are the fewest for which the *)
(* order of service matters beyond alternation; two bodies tell messages   *)
(* of one channel apart; a group limit of 2 has an empty, a partly filled  *)
(* and a full group.                                                       *)
(***************************************************************************)
EXTENDS FairQueue

CONSTANTS g1, g2, g3, x, y, none

MCGroups == {g1, g2, g3}
MCData == {x, y}
MCOneDatum == {x}
=============================================================================
