--------------------------- MODULE ReleaseRegister ---------------------------
(***************************************************************************)
(* What the local Security Master releases promise: a release is published *)
(* once, with qualified content, and never changes; the active release is  *)
(* one of the published ones and changes at one instant.                   *)
(***************************************************************************)
CONSTANTS Release, Good, None

VARIABLES published, active

vars == <<published, active>>

Init == published = [r \in Release |-> None] /\ active = None

Publish(r, c) ==
    /\ published[r] = None
    /\ published' = [published EXCEPT ![r] = c]
    /\ UNCHANGED active

Activate(r) ==
    /\ published[r] # None
    /\ active' = [release |-> r, content |-> published[r]]
    /\ UNCHANGED published

Next ==
    \E r \in Release :
        \/ \E c \in Good : Publish(r, c)
        \/ Activate(r)

Spec == Init /\ [][Next]_vars
=============================================================================
