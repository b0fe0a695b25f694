--------------------------- MODULE MCUdpForwarders ---------------------------
(***************************************************************************)
(* An instance of UdpForwarders for TLC.  Two forwarders share a window of *)
(* one, so that their exchanges collide and one can wait; queues of one    *)
(* fill up; the second forwarder may also replace the first for its        *)
(* visitor.                                                                *)
(***************************************************************************)
EXTENDS UdpForwarders

CONSTANTS v1, v2, f1, f2

MCVisitors == {v1, v2}
MCForwarders == {f1, f2}
=============================================================================
