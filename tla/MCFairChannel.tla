---------------------------- MODULE MCFairChannel ----------------------------
(***************************************************************************)
(* An instance of FairChannel for TLC: two senders with a channel each and *)
(* one task that waits for the channel to be closed.  Groups of up to two  *)
(* let the pointer leave its first place (a pop that leaves a message in a *)
(* group moves it on), and a pop for one sender wakes the other while its  *)
(* own group is full.                                                      *)
(***************************************************************************)
EXTENDS FairChannel

CONSTANTS g1, g2, x, none, s1, s2, w

MCGroups == {g1, g2}
MCData == {x}
MCSenders == {s1, s2}
MCWatchers == {w}
MCMessageOf == [s \in Senders |-> [group |-> IF s = s1 THEN g1 ELSE g2, data |-> x]]
=============================================================================
