-------------------------- MODULE MCSdkConnection --------------------------
(* SdkConnection, of an account with one endpoint from before.               *)
EXTENDS SdkConnection

OneBefore == {-1}
=============================================================================
