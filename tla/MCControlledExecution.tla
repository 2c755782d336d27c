----------------------- MODULE MCControlledExecution -----------------------
(* Small instances of ControlledExecution. *)
EXTENDS ControlledExecution

CONSTANTS op1, op2, op3, c1, c2, s1, r1, r2

\* A batch of two operations and one that depends on it.
MCBatches == <<{op1, op2}, {op3}>>
MCOps == {op1, op2, op3}

\* One operation: enough for the finalization, which sees only the overall status.
MCOneBatch == <<{op1}>>
MCOneOp == {op1}
=============================================================================
