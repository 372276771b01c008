---------------------------- MODULE MCPortServer ----------------------------
(* Instances of PortServer for TLC. *)
EXTENDS PortServer
=============================================================================
