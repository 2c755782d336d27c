-------------------------- MODULE MCResultPackages --------------------------
(* Instances of ResultPackages for TLC. *)
EXTENDS ResultPackages

CONSTANTS b1, b2, b3, v2, v3, p1, p2
=============================================================================
