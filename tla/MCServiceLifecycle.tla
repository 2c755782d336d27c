------------------------- MODULE MCServiceLifecycle -------------------------
(* Small instances of ServiceLifecycle. *)
EXTENDS ServiceLifecycle
=============================================================================
