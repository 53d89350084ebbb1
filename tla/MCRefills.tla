----------------------------- MODULE MCRefills -----------------------------
(* Refills on small sets of wallets, jobs and payments for TLC.            *)
EXTENDS Refills, TLC

\* Jobs and payments are interchangeable, and so are the instances.
Symmetry ==
  Permutations(Job) \cup Permutations(Tx) \cup Permutations(Instance)
=============================================================================
