-------------------------- MODULE MCInstallationInit --------------------------
(* Instances of InstallationInit for TLC. *)
EXTENDS InstallationInit, TLC

CONSTANTS i1, i2, i3, h1, h2, r1, r2

InitSymmetry == Permutations(Init_)
=============================================================================
