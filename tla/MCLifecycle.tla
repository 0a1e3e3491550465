---------------------------- MODULE MCLifecycle ----------------------------
(* The life cycle of the process for TLC. *)
EXTENDS Lifecycle, TLC
=============================================================================
