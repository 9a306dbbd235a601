---------------------------- MODULE MCTrustStore ----------------------------
(* Small instances of TrustStore.                                          *)
EXTENDS TrustStore, TLC

\* Processes are interchangeable.
ProcSymmetry == Permutations(Procs)
=============================================================================
