---------------------------- MODULE MCInnerLink ----------------------------
(* Instances of InnerLink for TLC. *)
EXTENDS InnerLink
=============================================================================
