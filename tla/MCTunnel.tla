------------------------------ MODULE MCTunnel ------------------------------
(***************************************************************************)
(* TLC instance of Tunnel.  A window of two bytes and reads of up to two   *)
(* make a handler wait for capacity with none, too little and enough of it *)
(* there; three bytes from a service need a second window.                 *)
(***************************************************************************)
EXTENDS Tunnel

CONSTANTS c1

OneChannel == {c1}

NoBytes == [c \in OneChannel |-> 0]
OneByte == [c \in OneChannel |-> 1]
ThreeBytes == [c \in OneChannel |-> 3]
=============================================================================
