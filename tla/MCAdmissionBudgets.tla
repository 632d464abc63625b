------------------------ MODULE MCAdmissionBudgets --------------------------
EXTENDS AdmissionBudgets, TLC

CONSTANTS c1, c2, d1, d2, d3, g1, s1, s2

\* The same ceiling n for every kind, with u for what may be unavailable.
Ceilings(n, u, group) ==
    [k \in Kinds |-> CASE k \in {"targets", "records"} -> 3
                       [] k \in Structural -> group
                       [] k \in {"unavailable", "domainUnavailable"} -> u
                       [] OTHER -> n]

Wide  == Ceilings(2, 2, 2)
Tight == Ceilings(1, 2, 2)
Other == Ceilings(2, 2, 1)

MCPolicies == {Wide, Tight}
MCPoliciesGroups == {Wide, Other}

MCGroupsOf == [d \in Devices |-> IF d = d1 THEN {} ELSE {g1}]

MCPlanAll == [c \in Campaigns |-> Devices]
MCPlanOwn == [c \in Campaigns |-> IF c = c1 THEN {d2} ELSE {d3}]

MCNoLimit == [c \in Campaigns |-> [k \in Kinds |-> 0]]
MCLimit == [MCNoLimit EXCEPT ![c1]["domainTransfers"] = 1]

\* d1 stays up at s1; which site has which name does not matter.
MCInit == Init /\ member[d1] = [up |-> TRUE, site |-> s1]
MCFairSpec == MCInit /\ [][Next]_vars /\ Fairness

Symmetry == Permutations(Managers)

=============================================================================
