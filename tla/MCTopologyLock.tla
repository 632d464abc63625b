--------------------------- MODULE MCTopologyLock ---------------------------
(* TopologyLock with one leaf per target; acquisitions and managers are     *)
(* interchangeable, and every property checked is a safety property.        *)
EXTENDS TopologyLock, TLC

MCLeafUID == CHOOSE f \in [ID -> Children] : \A i, j \in ID : i # j => f[i] # f[j]

Symmetry == Permutations(Locks) \cup Permutations(Managers)

=============================================================================
