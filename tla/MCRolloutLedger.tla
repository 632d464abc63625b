--------------------------- MODULE MCRolloutLedger ---------------------------
(* Small instances of RolloutLedger. *)
EXTENDS RolloutLedger, TLC

\* No constant tells acquisitions, leaves or drain sessions apart.
Symmetry == Permutations(Locks) \cup Permutations(Children) \cup Permutations(Tokens)

=============================================================================
