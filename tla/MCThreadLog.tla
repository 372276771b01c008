---------------------------- MODULE MCThreadLog ----------------------------
(* An instance of ThreadLog for TLC. *)
EXTENDS ThreadLog

\* one name begins with the other
SomeNames == {<<"a">>, <<"a", "b">>}
SomeDivs == [n \in SomeNames |-> IF n = <<"a">> THEN 1 ELSE 0]
=============================================================================
