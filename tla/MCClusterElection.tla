------------------------- MODULE MCClusterElection -------------------------
(* ClusterElection on two instances for TLC, the deployed number.          *)
EXTENDS ClusterElection, TLC

\* Session ids are interchangeable, and so are the instances as long as all
\* of them are local leaders.
Symmetry == Permutations(Session) \cup Permutations(Instance)
=============================================================================
