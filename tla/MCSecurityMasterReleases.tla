---------------------- MODULE MCSecurityMasterReleases ----------------------
(* Instances of SecurityMasterReleases for TLC. *)
EXTENDS SecurityMasterReleases, TLC

CONSTANTS p1, p2, r1, r2, c1, c2, c3, bad

MCCaller == {p1, p2}
\* c1 and c2 were acquired in the same second: their bundles have one name.
MCBundleOf == [c \in Content |-> IF c \in {c1, c2} THEN "same" ELSE "other"]
Symmetry == {f @@ g @@ h : f \in Permutations(MCCaller), g \in Permutations({r1, r2}),
                           h \in Permutations({c1, c2})}
=============================================================================
