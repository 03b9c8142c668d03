--------------------------- MODULE MCCloudChannel ---------------------------
(* CloudChannel; the runs differ in their constants only. *)
EXTENDS CloudChannel
=============================================================================
