---------------------------- MODULE MCManagedLeaf ----------------------------
(* Instances of ManagedLeaf for TLC. *)
EXTENDS ManagedLeaf, TLC

CONSTANTS m1, m2, t1, t2

MCManagers1 == {m1}
MCManagers2 == {m1, m2}
MCTargets1 == {t1}
MCTargets2 == {t1, t2}
MCSymT == Permutations(MCTargets2)

\* One replica survives; the other may stop at any time, for ever.
MCFairSpec == Spec /\ FairManager(m1) /\ \A t \in Targets : WF_vars(Observe(t))

=============================================================================
