----------------------------- MODULE MCSnapshot -----------------------------
(* Snapshot on small instances.                                            *)
EXTENDS Snapshot, TLC

\* Buffers are interchangeable addresses.
Symmetric == Permutations(Buffer)
=============================================================================
