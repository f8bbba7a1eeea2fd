------------------------- MODULE MCClusterTopology --------------------------
(* Two nodes that take the lock from each other, two overlapping requests. *)
EXTENDS ClusterTopology, TLC

CONSTANTS vm1, vm2, explorer, grafana    \* model values

Symmetry == Permutations({vm1, vm2}) \cup Permutations({explorer, grafana})

=============================================================================
