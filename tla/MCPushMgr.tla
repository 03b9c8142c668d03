----------------------------- MODULE MCPushMgr -----------------------------
(* PushMgr with two application threads. *)
EXTENDS PushMgr, TLC

CONSTANTS t1, t2

MCThreads == {t1, t2}
MCSymmetry == Permutations(MCThreads)
=============================================================================
