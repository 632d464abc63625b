----------------------------- MODULE DeviceClaim -----------------------------
(***************************************************************************)
(* What the reservation ledger promises, without saying how: a campaign's  *)
(* claim on a device is exclusive, permits disruptive work only after it   *)
(* is held, and once fenced never permits work again before it is freed.   *)
(***************************************************************************)
CONSTANTS Campaigns, Devices

VARIABLE claim   \* claim[<<c, d>>]: the claim of campaign c on device d

Target == Campaigns \X Devices

TypeOK == claim \in [Target -> {"free", "held", "permitted", "fenced"}]

Init == claim = [t \in Target |-> "free"]

Take(t) ==
    /\ \A u \in Target : u[2] = t[2] => claim[u] = "free"
    /\ claim' = [claim EXCEPT ![t] = "held"]

Permit(t) ==
    /\ claim[t] = "held"
    /\ claim' = [claim EXCEPT ![t] = "permitted"]

Fence(t) ==
    /\ claim[t] \in {"held", "permitted"}
    /\ claim' = [claim EXCEPT ![t] = "fenced"]

Free(t) ==
    /\ claim[t] # "free"
    /\ claim' = [claim EXCEPT ![t] = "free"]

Next == \E t \in Target : Take(t) \/ Permit(t) \/ Fence(t) \/ Free(t)

Spec == Init /\ [][Next]_claim

=============================================================================
