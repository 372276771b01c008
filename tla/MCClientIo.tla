---------------------------- MODULE MCClientIo -----------------------------
(* Instances of ClientIo for TLC. *)
EXTENDS ClientIo

All == [all |-> TRUE, fds |-> <<>>]
To(s) == [all |-> FALSE, fds |-> s]

\* unicast, multicast to a list with a descriptor out of range, an empty list
SomeDests == {All, To(<<0>>), To(<<-1, 1, 0>>), To(<<>>)}
=============================================================================
