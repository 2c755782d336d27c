--------------------------- MODULE SingleUseTicket ---------------------------
(***************************************************************************)
(* What an execution ticket promises to the owner who approved it,         *)
(* whatever processes race for it, crash or are killed: at most one holder,*)
(* which uses every approved operation at most once, and at most one       *)
(* terminal outcome, the aggregate of the answers the operations really    *)
(* gave.  ControlledExecution implements it.                               *)
(***************************************************************************)
EXTENDS Naturals

CONSTANTS Ops, Holders, None

VARIABLES
    holder,     \* the child that holds the ticket, or None
    uses,       \* how often each operation was used
    answers,    \* what each operation answered to the holder
    outcome     \* "open" until the ticket is consumed

vars == <<holder, uses, answers, outcome>>

Init ==
    /\ holder = None
    /\ uses = [o \in Ops |-> 0]
    /\ answers = [o \in Ops |-> "none"]
    /\ outcome = "open"

Take(h) ==
    /\ holder = None
    /\ holder' = h
    /\ UNCHANGED <<uses, answers, outcome>>

\* Operations not used before are used; all of them answer, or the child dies
\* before it has their answers.
Use(ops) ==
    /\ holder # None
    /\ outcome = "open"
    /\ \A o \in ops : uses[o] = 0
    /\ uses' = [o \in Ops |-> IF o \in ops THEN 1 ELSE uses[o]]
    /\ \/ \E answer \in [ops -> {"succeeded", "failed"}] :
            answers' = [o \in Ops |-> IF o \in ops THEN answer[o] ELSE answers[o]]
       \/ UNCHANGED answers
    /\ UNCHANGED <<holder, outcome>>

Answered(a) == {o \in Ops : answers[o] = a}

Consume ==
    /\ holder # None
    /\ outcome = "open"
    /\ Answered("none") = {}
    /\ outcome' = CASE Answered("succeeded") = Ops -> "consumed_success"
                    [] Answered("succeeded") \notin {{}, Ops} -> "consumed_partial"
                    [] OTHER -> "consumed_failed"
    /\ UNCHANGED <<holder, uses, answers>>

Next ==
    \/ \E h \in Holders : Take(h)
    \/ \E ops \in SUBSET Ops : Use(ops)
    \/ Consume

Spec == Init /\ [][Next]_vars
=============================================================================
