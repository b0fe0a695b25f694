--------------------------- MODULE MCPublication ---------------------------
(* Publications for TLC: a webdav endpoint, which httpd serves, and a        *)
(* minecraft endpoint.                                                       *)
EXTENDS Publication

CONSTANTS dav, craft, confA, confB

MCKindOf == [g \in Guids |-> IF g = craft THEN "jar" ELSE "httpd"]
=============================================================================
