--------------------------- MODULE MCSdkConnection --------------------------
(* SdkConnection with interchangeable clients.                             *)
EXTENDS SdkConnection

CONSTANTS w1, w2, k1, k2, k3, k4, k5, k6
=============================================================================
