----------------------------- MODULE MCRrdWriter -----------------------------
(* The instances of RrdWriter that TLC checks.                             *)
EXTENDS RrdWriter, TLC

\* The files that are written are interchangeable.
Symmetry == Permutations(File \ UnknownType)
=============================================================================
