---------------------------- MODULE MCMsgQueue -----------------------------
(* An instance of MsgQueue for TLC. *)
EXTENDS MsgQueue

CONSTANTS p1, p2, m1, m2

TwoProducers == {p1, p2}
TwoMsgs == {m1, m2}
=============================================================================
