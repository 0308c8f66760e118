------------------------------ MODULE MCValBuf ------------------------------
(* ValBuf for TLC: the times values come with.                              *)
EXTENDS ValBuf

AllGrids == {"hard", "soft", "flow"}

SomeTimes == 2*Per..2*Per + 10
=============================================================================
