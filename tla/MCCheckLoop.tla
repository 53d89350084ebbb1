---------------------------- MODULE MCCheckLoop ----------------------------
(* CheckLoop on two instances for TLC, the deployed number.                *)
EXTENDS CheckLoop, TLC

\* Jobs and call slots are interchangeable, and so are the instances.
Symmetry ==
  Permutations(Job) \cup Permutations(Call) \cup Permutations(Instance)
=============================================================================
