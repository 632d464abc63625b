\* Two managers admit two campaigns, approved under different policies, into
\* one ledger.
SPECIFICATION Spec
CONSTANTS
    c1 = c1 c2 = c2 d1 = d1 d2 = d2 d3 = d3 g1 = g1 s1 = s1 s2 = s2
    None = None
    Campaigns = {c1, c2}
    Devices = {d2, d3}
    Sites = {s1}
    Groups = {g1}
    Managers = {m1, m2}
    GroupsOf <- MCGroupsOf
    Plan <- MCPlanOwn
    CampaignLimit <- MCNoLimit
    Policies <- MCPoliciesGroups
    Unstable = {d2, d3}
    MaxEpoch = 1
SYMMETRY Symmetry
CHECK_DEADLOCK FALSE
INVARIANTS FleetWithinSomeApproval
