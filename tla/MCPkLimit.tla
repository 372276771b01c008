----------------------------- MODULE MCPkLimit -----------------------------
(* An instance of PkLimit for TLC. *)
EXTENDS PkLimit

\* two windows, a message number under repair, one without a limit
SomeLimits == {<<2, 2>>, <<3, 1>>, <<1, 0>>, <<0, 1>>}
=============================================================================
