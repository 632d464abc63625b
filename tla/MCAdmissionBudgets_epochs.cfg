\* One campaign of two targets at two sites goes through two policy
\* transitions, under the fairness of the reconcile loop.
SPECIFICATION MCFairSpec
CONSTANTS
    c1 = c1 c2 = c2 d1 = d1 d2 = d2 d3 = d3 g1 = g1 s1 = s1 s2 = s2
    None = None
    Campaigns = {c1}
    Devices = {d1, d2}
    Sites = {s1, s2}
    Groups = {g1}
    Managers = {m1}
    GroupsOf <- MCGroupsOf
    Plan <- MCPlanAll
    CampaignLimit <- MCLimit
    Policies <- MCPolicies
    Unstable = {d2}
    MaxEpoch = 3
CHECK_DEADLOCK FALSE
INVARIANTS TypeOK CampaignWithinApproval UnclaimedInCurrentEpoch ClaimKeepsReservation
PROPERTIES EpochsOnlyTighten TransitionPublishedIfCurrent
