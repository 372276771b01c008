----------------------------- MODULE MCMsgPool -----------------------------
(* An instance of MsgPool for TLC. *)
EXTENDS MsgPool, TLC

CONSTANTS t1, t2, t3

ThreeThreads == {t1, t2, t3}

Symmetry == Permutations(ThreeThreads)
=============================================================================
