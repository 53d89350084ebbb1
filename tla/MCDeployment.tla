---------------------------- MODULE MCDeployment ----------------------------
(* Deployment on two instances for TLC, the deployed number.               *)
EXTENDS Deployment, TLC

\* Ids are interchangeable, and so are the instances as long as all of them
\* are local leaders.
Symmetry ==
  Permutations(Session) \cup Permutations(Instance)
    \cup Permutations(Job) \cup Permutations(Call)
=============================================================================
