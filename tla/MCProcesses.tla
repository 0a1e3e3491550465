---------------------------- MODULE MCProcesses ----------------------------
(* The processes reader for TLC. *)
EXTENDS Processes, TLC

Symmetric == Permutations(Comm)
=============================================================================
