-------------------------- MODULE AdmissionBudgets --------------------------
(***************************************************************************)
(* Admission against the administrator's budgets while the administrator   *)
(* edits the policy.  Each campaign froze a policy snapshot when its plan  *)
(* was made; reconcilePolicyEpoch moves it through numbered epochs whose   *)
(* ceilings only tighten, fencing unclaimed work in between, and Reserve   *)
(* counts reservations and unavailable devices against the ceilings of the *)
(* reserving campaign's own epoch.                                         *)
(*                                                                         *)
(* A policy is a function from ceilings to numbers.  The group ceilings    *)
(* are part of the policy's structural hash, the others only of its        *)
(* semantic hash; the value of the policy stands for its hashes.           *)
(***************************************************************************)
EXTENDS Integers, FiniteSets

CONSTANTS
    Campaigns, Devices, Sites, Groups, Managers,
    GroupsOf,       \* GroupsOf[d]: the risk groups of a device
    Plan,           \* Plan[c]: the devices of the campaign's frozen targets
    CampaignLimit,  \* CampaignLimit[c][k]: the campaign's own ceiling, 0 for none
    Policies,       \* the policies the administrator may publish
    Unstable,       \* bound: the devices that change health or label
    MaxEpoch,       \* bound on policy epochs
    None

Structural == {"groupTransfers", "groupUnavailable"}
Kinds == Structural \cup {"targets", "records", "transfers", "unavailable",
                          "domainTransfers", "domainUnavailable"}
ID == Campaigns \X Devices
CampaignOf(id) == id[1]
DeviceOf(id) == id[2]

ASSUME BudgetAssumption ==
    /\ IsFiniteSet(Campaigns) /\ IsFiniteSet(Devices)
    /\ Policies \subseteq [Kinds -> Nat \ {0}]
    /\ CampaignLimit \in [Campaigns -> [Kinds -> Nat]]
    /\ GroupsOf \in [Devices -> SUBSET Groups]
    /\ Plan \in [Campaigns -> SUBSET Devices]
    /\ None \notin [Kinds -> Nat \ {0}]
    /\ None \notin ID

VARIABLES
    admin,      \* the policy ConfigMap
    member,     \* member[d]: health and site label of a fleet member
    camp,       \* camp[c]: status of the campaign
    active,     \* reservations in the ledger
    epochOf,    \* epochOf[id]: PolicyEpoch of the reservation, 0 without one
    leaf,       \* leaf[id]: manager admission of the target's leaf
    claimed,    \* targets whose leaf holds a mutation claim; claims stay for good
    resolved,   \* claimed targets whose leaf is terminal with a conclusive outcome
    pc, tgt, view, fresh   \* the managers' control state and locals

ledger == <<active, epochOf>>
claims == <<claimed, resolved>>
leaves == <<leaf, claimed, resolved>>
locals == <<pc, tgt, view, fresh>>
vars == <<admin, member, camp, ledger, leaves, locals>>

-----------------------------------------------------------------------------
(* Pure parts. *)

minPositive(values) ==
    LET positive == {v \in values : v > 0}
    IN  IF positive = {} THEN 0 ELSE CHOOSE v \in positive : \A w \in positive : v <= w

\* Mutant of strictestPolicySnapshot: the current policy replaces the old one.
latestPolicySnapshot(previous, frozen, current) == current

strictestPolicySnapshot(previous, frozen, current) ==
    [k \in Kinds |-> minPositive({previous[k], frozen[k], current[k]})]

\* Mutant of effectiveLimit: the campaign's own ceiling is not applied.
effectiveLimitPolicy(limit, campaign) == limit

effectiveLimit(limit, campaign) == IF campaign > 0 /\ campaign < limit THEN campaign ELSE limit

SameStructure(p, q) == \A k \in Structural : p[k] = q[k]

\* The domain value of a reservation is the site its target was frozen with.
SiteOf(id) == camp[CampaignOf(id)].site[DeviceOf(id)]

OfCampaign(c) == {id \in active : CampaignOf(id) = c}
AtSite(s) == {id \in active : SiteOf(id) = s}
InGroup(g) == {id \in active : g \in GroupsOf[DeviceOf(id)]}

\* unavailablePhysicalIDs: unhealthy members of a scope, and its reservations.
Unavailable(scope, reservations) ==
    {d \in scope : ~ member[d].up} \cup {DeviceOf(id) : id \in reservations}

\* Reserve's checks against the ceilings p: the whole fleet, ...
AdmitsFleet(id, p) ==
    LET c == CampaignOf(id)
        campaignCount == Cardinality(OfCampaign(c)) + 1
    IN  /\ Cardinality(active) < p["records"]
        /\ Cardinality(Unavailable(Devices, active) \cup {DeviceOf(id)}) <= p["unavailable"]
        /\ campaignCount <= effectiveLimit(p["unavailable"], CampaignLimit[c]["unavailable"])
        /\ Cardinality(active) + 1 <= p["transfers"]
        /\ campaignCount <= effectiveLimit(p["transfers"], CampaignLimit[c]["transfers"])

\* ... the target's failure domain, ...
AdmitsDomain(id, p) ==
    LET c == CampaignOf(id)
        s == SiteOf(id)
        here == {e \in Devices : member[e].site = s}
        campaignHere == Cardinality(OfCampaign(c) \cap AtSite(s)) + 1
        limit(k) == effectiveLimit(p[k], CampaignLimit[c][k])
    IN  /\ Cardinality(Unavailable(here, AtSite(s)) \cup {DeviceOf(id)}) <= p["domainUnavailable"]
        /\ campaignHere <= limit("domainUnavailable")
        /\ Cardinality(AtSite(s)) + 1 <= p["domainTransfers"]
        /\ campaignHere <= limit("domainTransfers")

\* ... and each of its risk groups.
AdmitsGroup(id, p, g) ==
    LET scope == {e \in Devices : g \in GroupsOf[e]}
    IN  /\ Cardinality(Unavailable(scope, InGroup(g)) \cup {DeviceOf(id)}) <= p["groupUnavailable"]
        /\ Cardinality(InGroup(g)) + 1 <= p["groupTransfers"]

\* Reserve admits a healthy, unmoved device that nobody reserves.
Admits(id, p) ==
    /\ member[DeviceOf(id)] = [up |-> TRUE, site |-> SiteOf(id)]
    /\ \A i \in active : DeviceOf(i) # DeviceOf(id)
    /\ AdmitsFleet(id, p)
    /\ AdmitsDomain(id, p)
    /\ \A g \in GroupsOf[DeviceOf(id)] : AdmitsGroup(id, p, g)

-----------------------------------------------------------------------------
(* The administrator, the fleet and the campaign's policy epochs. *)

NoCampaign ==
    [phase |-> "New", frozen |-> None, eff |-> None, sem |-> None, epoch |-> 0,
     next |-> None, nextSem |-> None, done |-> {}, site |-> [d \in Devices |-> None]]

\* A leaf is Open while its admission is Pending or Granted.
NoLeaf == [state |-> "None", epoch |-> 0]

Init ==
    /\ admin \in Policies
    /\ member \in [Devices -> [up : BOOLEAN, site : Sites]]
    /\ camp = [c \in Campaigns |-> NoCampaign]
    /\ active = {} /\ claimed = {} /\ resolved = {}
    /\ epochOf = [id \in ID |-> 0]
    /\ leaf = [id \in ID |-> NoLeaf]
    /\ pc = [m \in Managers |-> "idle"]
    /\ tgt = [m \in Managers |-> None]
    /\ view = [m \in Managers |-> None]
    /\ fresh = [m \in Managers |-> FALSE]

ChangePolicy(p) ==
    /\ admin' = p
    /\ UNCHANGED <<member, camp, ledger, leaves, locals>>

\* A device goes up or down on its own; it is relabelled only while no lock
\* freezes its spec.
ChangeMember(d) ==
    /\ d \in Unstable
    /\ \/ member' = [member EXCEPT ![d].up = ~ @]
       \/ /\ \A id \in active : DeviceOf(id) # d
          /\ \A m \in Managers : pc[m] # "idle" => DeviceOf(tgt[m]) # d
          /\ \E s \in Sites : member' = [member EXCEPT ![d].site = s]
    /\ UNCHANGED <<admin, camp, ledger, leaves, locals>>

\* The plan is frozen with the current policy, which is its epoch 1.
Freeze(c) ==
    /\ camp[c].phase = "New"
    /\ Cardinality(Plan[c]) <= admin["targets"]
    /\ camp' = [camp EXCEPT ![c] =
                  [phase |-> "Open", frozen |-> admin, eff |-> admin, sem |-> admin, epoch |-> 1,
                   next |-> None, nextSem |-> None, done |-> {},
                   site |-> [d \in Devices |-> member[d].site]]]
    /\ UNCHANGED <<admin, member, ledger, leaves, locals>>

\* The plan no longer fits the policy's structure or its target ceiling.
MustReplan(c) ==
    \/ ~ SameStructure(admin, camp[c].frozen)
    \/ Cardinality(Plan[c]) > minPositive({camp[c].eff["targets"], admin["targets"]})

\* reconcilePolicyEpoch on a changed semantic hash: persist the transition.  A
\* campaign that is being cancelled or has failed follows the policy as well.
StartTransition(c) ==
    /\ camp[c].phase # "New"
    /\ camp[c].epoch < MaxEpoch
    /\ camp[c].next = None
    /\ admin # camp[c].sem
    /\ ~ MustReplan(c)
    /\ camp' = [camp EXCEPT ![c].next = strictestPolicySnapshot(camp[c].eff, camp[c].frozen, admin),
                            ![c].nextSem = admin]
    /\ UNCHANGED <<admin, member, ledger, leaves, locals>>

\* A write to the ledger makes every other read of it stale.
Stale(changed) == fresh' = [m \in Managers |-> fresh[m] /\ ~ changed]

Remove(id) == active' = active \ {id} /\ epochOf' = [epochOf EXCEPT ![id] = 0]

\* A revocation releases the target's acquisition; with no reservation it
\* still fences one that is in flight.
ReleaseAcquisition(id) ==
    /\ Remove(id)
    /\ Stale(id \in active \/ \E m \in Managers : pc[m] # "idle" /\ tgt[m] = id)

Tombstone(id, epoch) ==
    /\ leaf' = [leaf EXCEPT ![id] = [state |-> "Revoked", epoch |-> epoch]]
    /\ ReleaseAcquisition(id)

\* Mutant of FenceLeaf: a claimed leaf is revoked and released like any other.
FenceLeafClaimed(id, epoch) ==
    \/ leaf[id].state = "Settled" /\ UNCHANGED <<ledger, leaf, fresh>>
    \/ leaf[id].state # "Settled" /\ Tombstone(id, epoch)

\* Mutant of FenceLeaf: a target without a leaf gets no tombstone.
FenceLeafOnly(id, epoch) ==
    \/ id \in claimed /\ id \in active /\ UNCHANGED <<ledger, leaf, fresh>>
    \/ id \notin claimed /\ leaf[id].state = "Settled" /\ UNCHANGED <<ledger, leaf, fresh>>
    \/ id \notin claimed /\ leaf[id].state \in {"Open", "Revoked"} /\ Tombstone(id, epoch)

\* A claimed leaf must still be covered by its reservation, or the fence fails
\* (verifyClaimedReservation); it keeps the reservation and is revoked once its
\* outcome is resolved.  A Settled leaf without claims is left alone, any other
\* becomes a revoked tombstone.
FenceLeaf(id, epoch) ==
    \/ /\ id \in claimed /\ leaf[id].state # "Settled"
       /\ id \in active /\ epochOf[id] = leaf[id].epoch
       /\ leaf' = IF id \in resolved THEN [leaf EXCEPT ![id].state = "Revoked"] ELSE leaf
       /\ UNCHANGED <<ledger, fresh>>
    \/ id \notin claimed /\ leaf[id].state = "Settled" /\ UNCHANGED <<ledger, leaf, fresh>>
    \/ id \notin claimed /\ leaf[id].state # "Settled" /\ Tombstone(id, epoch)

\* ensurePolicyEpochFenceForTarget refuses a leaf of an earlier epoch.
FenceTarget(c, d) ==
    /\ camp[c].next # None
    /\ ~ MustReplan(c)
    /\ d \in Plan[c] \ camp[c].done
    /\ leaf[<<c, d>>].epoch \in {0, camp[c].epoch}
    /\ FenceLeaf(<<c, d>>, camp[c].epoch)
    /\ camp' = [camp EXCEPT ![c].done = @ \cup {d}]
    /\ UNCHANGED <<admin, member, claims, pc, tgt, view>>

\* All targets are fenced: the transition becomes the effective policy.
PublishEpoch(c) ==
    /\ camp[c].next # None
    /\ ~ MustReplan(c)
    /\ camp[c].done = Plan[c]
    /\ camp' = [camp EXCEPT ![c].eff = camp[c].next, ![c].sem = camp[c].nextSem,
                            ![c].epoch = @ + 1, ![c].next = None, ![c].nextSem = None,
                            ![c].done = {}]
    /\ UNCHANGED <<admin, member, ledger, leaves, locals>>

\* The reconcile that was fencing ends early: the next one starts over.
RestartFences(c) ==
    /\ camp[c].done # {}
    /\ camp' = [camp EXCEPT ![c].done = {}]
    /\ UNCHANGED <<admin, member, ledger, leaves, locals>>

\* The campaign is cancelled or has failed: it never admits again.
Close(c) ==
    /\ camp[c].phase = "Open"
    /\ camp' = [camp EXCEPT ![c].phase = "Closed"]
    /\ UNCHANGED <<admin, member, ledger, leaves, locals>>

\* ensureRetainedFenceForTarget: the cancellation and replan fences revoke every
\* leaf and settle the ones without a claim, with a tombstone where there is
\* none; the failure fence leaves an existing one revoked.  A reservation that is
\* not the leaf's own stops them.
StopTarget(id) ==
    LET c == CampaignOf(id)
        epoch == IF leaf[id].epoch = 0 THEN camp[c].epoch ELSE leaf[id].epoch
    IN  /\ DeviceOf(id) \in Plan[c]
        /\ camp[c].phase = "Closed" \/ (camp[c].phase = "Open" /\ MustReplan(c))
        /\ leaf[id].state # "Settled"
        /\ \/ /\ id \in claimed
              /\ leaf' = [leaf EXCEPT ![id].state = "Revoked"]
              /\ UNCHANGED <<ledger, fresh>>
           \/ /\ id \notin claimed
              /\ id \in active => epochOf[id] = epoch
              /\ \E state \in {"Settled", "Revoked"} :
                    /\ state = "Revoked" => camp[c].phase = "Closed" /\ leaf[id].state # "None"
                    /\ leaf' = [leaf EXCEPT ![id] = [state |-> state, epoch |-> epoch]]
              /\ ReleaseAcquisition(id)
        /\ UNCHANGED <<admin, member, camp, claims, pc, tgt, view>>

-----------------------------------------------------------------------------
(* Admission by several managers. *)

\* A campaign that may execute, with the snapshot the manager keeps of it, and
\* the target's topology lock.  A target without a leaf is admitted, one that
\* an earlier epoch's fence revoked is rearmed.
Begin(m, id) ==
    LET c == CampaignOf(id)
    IN  /\ pc[m] = "idle"
        /\ camp[c].phase = "Open" /\ camp[c].next = None /\ admin = camp[c].sem
        /\ DeviceOf(id) \in Plan[c]
        /\ \/ leaf[id].state = "None"
           \/ leaf[id].state = "Revoked" /\ leaf[id].epoch < camp[c].epoch /\ id \notin claimed
        /\ \A p \in Managers : pc[p] # "idle" /\ DeviceOf(tgt[p]) = DeviceOf(id) => tgt[p] = id
        /\ \A i \in active : DeviceOf(i) = DeviceOf(id) => i = id
        /\ pc' = [pc EXCEPT ![m] = "read"]
        /\ tgt' = [tgt EXCEPT ![m] = id]
        /\ view' = [view EXCEPT ![m] = [epoch |-> camp[c].epoch, eff |-> camp[c].eff,
                                        sem |-> camp[c].sem, rearm |-> leaf[id].state = "Revoked"]]
        /\ fresh' = [fresh EXCEPT ![m] = TRUE]
        /\ UNCHANGED <<admin, member, camp, ledger, leaves>>

\* Mutant of Executes: a policy transition does not stop admission.
ExecutesInTransition(m) ==
    LET c == CampaignOf(tgt[m]) IN camp[c].phase = "Open" /\ camp[c].epoch = view[m].epoch

\* revalidateCampaignExecution: the campaign is still the manager's snapshot.
Executes(m) ==
    LET c == CampaignOf(tgt[m])
    IN  camp[c].phase = "Open" /\ camp[c].next = None /\ camp[c].epoch = view[m].epoch

\* A tombstone of an earlier epoch, which rearmPolicyEpochLeaf may take over.
Rearmable(m) ==
    LET id == tgt[m]
    IN  leaf[id].state = "Revoked" /\ leaf[id].epoch < view[m].epoch /\ id \notin claimed

\* The callback of Store.Mutate: the policy is re-read, and the campaign before
\* an admission, the leaf before a rearming.  Then Reserve, which accepts its
\* own earlier reservation as it is.
Evaluate(m) ==
    /\ pc[m] = "read"
    /\ admin = view[m].sem
    /\ IF view[m].rearm THEN Rearmable(m) ELSE Executes(m)
    /\ \/ Admits(tgt[m], view[m].eff) /\ pc' = [pc EXCEPT ![m] = "commit"]
       \/ /\ tgt[m] \in active /\ epochOf[tgt[m]] = view[m].epoch
          /\ pc' = [pc EXCEPT ![m] = "confirm"]
    /\ UNCHANGED <<admin, member, camp, ledger, leaves, tgt, view, fresh>>

\* Mutant of Commit: the reservation request does not carry the policy epoch.
CommitNoEpoch(m) ==
    /\ pc[m] = "commit"
    /\ fresh[m]
    /\ active' = active \cup {tgt[m]}
    /\ Stale(TRUE)
    /\ pc' = [pc EXCEPT ![m] = "confirm"]
    /\ UNCHANGED <<admin, member, camp, epochOf, leaves, tgt, view>>

\* Mutant of Commit: the ledger update ignores resourceVersion.
CommitBlind(m) ==
    /\ pc[m] = "commit"
    /\ active' = active \cup {tgt[m]}
    /\ epochOf' = [epochOf EXCEPT ![tgt[m]] = view[m].epoch]
    /\ Stale(TRUE)
    /\ pc' = [pc EXCEPT ![m] = "confirm"]
    /\ UNCHANGED <<admin, member, camp, leaves, tgt, view>>

Commit(m) ==
    /\ pc[m] = "commit"
    /\ fresh[m]
    /\ active' = active \cup {tgt[m]}
    /\ epochOf' = [epochOf EXCEPT ![tgt[m]] = view[m].epoch]
    /\ Stale(TRUE)
    /\ pc' = [pc EXCEPT ![m] = "confirm"]
    /\ UNCHANGED <<admin, member, camp, leaves, tgt, view>>

Conflict(m) ==
    /\ pc[m] = "commit"
    /\ ~ fresh[m]
    /\ pc' = [pc EXCEPT ![m] = "read"]
    /\ fresh' = [fresh EXCEPT ![m] = TRUE]
    /\ UNCHANGED <<admin, member, camp, ledger, leaves, tgt, view>>

Forget(m) ==
    /\ pc' = [pc EXCEPT ![m] = "idle"]
    /\ tgt' = [tgt EXCEPT ![m] = None]
    /\ view' = [view EXCEPT ![m] = None]

\* The reservation carries the UID of the target's leaf.
Bound(id) == leaf[id].state = "Open" \/ (leaf[id].state = "Revoked" /\ id \in claimed)

\* After the commit the campaign is read again.  When it may no longer execute,
\* an admission removes its reservation unless a leaf is bound to it; the
\* cleanup of a rearming is refused, the leaf is still of the earlier epoch.
Confirm(m) ==
    /\ pc[m] = "confirm"
    /\ \/ Executes(m) /\ pc' = [pc EXCEPT ![m] = "bind"] /\ UNCHANGED <<ledger, tgt, view, fresh>>
       \/ ~ Executes(m) /\ view[m].rearm /\ Forget(m) /\ UNCHANGED <<ledger, fresh>>
       \/ /\ ~ Executes(m) /\ ~ view[m].rearm
          /\ IF /\ tgt[m] \in active /\ epochOf[tgt[m]] = view[m].epoch
                /\ ~ Bound(tgt[m])
             THEN Remove(tgt[m]) ELSE UNCHANGED ledger
          /\ Stale(TRUE)
          /\ Forget(m)
    /\ UNCHANGED <<admin, member, camp, leaves>>

\* BindChild and the leaf's admission: a new leaf opens in the snapshot's
\* epoch; a rearmed one too, if the campaign still executes.  An admission that
\* meets a tombstone gives its reservation back.
Bind(m) ==
    LET id == tgt[m]
        opened == [leaf EXCEPT ![id] = [state |-> "Open", epoch |-> view[m].epoch]]
        held == id \in active /\ epochOf[id] = view[m].epoch
    IN  /\ pc[m] = "bind"
        /\ \/ ~ view[m].rearm /\ leaf[id].state = "None" /\ held
              /\ leaf' = opened /\ Stale(TRUE) /\ UNCHANGED ledger
           \/ view[m].rearm /\ Rearmable(m) /\ id \in active /\ Executes(m)
              /\ leaf' = opened /\ Stale(TRUE) /\ UNCHANGED ledger
           \/ ~ view[m].rearm /\ leaf[id].state \in {"Revoked", "Settled"} /\ id \notin claimed
              /\ held /\ leaf[id].epoch = epochOf[id]
              /\ Remove(id) /\ Stale(TRUE) /\ UNCHANGED leaf
        /\ Forget(m)
        /\ UNCHANGED <<admin, member, camp, claims>>

\* A refused Reserve, an error or a crash: the locals are gone.
Fail(m) ==
    /\ pc[m] # "idle"
    /\ Forget(m)
    /\ fresh' = [fresh EXCEPT ![m] = FALSE]
    /\ UNCHANGED <<admin, member, camp, ledger, leaves>>

\* The grant of an open leaf and the worker's mutation claim.
Claim(id) ==
    /\ leaf[id].state = "Open" /\ id \in active \ claimed
    /\ claimed' = claimed \cup {id}
    /\ \E granted \in BOOLEAN : Stale(granted)
    /\ UNCHANGED <<admin, member, camp, ledger, leaf, resolved, pc, tgt, view>>

\* The worker has brought the claimed mutation to a conclusive end.
Resolve(id) ==
    /\ id \in claimed \ resolved
    /\ resolved' = resolved \cup {id}
    /\ UNCHANGED <<admin, member, camp, ledger, leaf, claimed, locals>>

\* leafMutationOutcomeResolved, of an admitted leaf; one without a claim is
\* terminal when its worker gave up before the first mutation.
MaySettle(id) == leaf[id].state \in {"Open", "Revoked"} /\ (id \in claimed => id \in resolved)

\* trySettleLeaf, first half: the ledger drops the reservation of the leaf's
\* epoch, or records the release again when a stopped manager has dropped it.
Settle(id) ==
    /\ MaySettle(id)
    /\ id \in active => epochOf[id] = leaf[id].epoch
    /\ Remove(id)
    /\ Stale(TRUE)
    /\ UNCHANGED <<admin, member, camp, leaves, pc, tgt, view>>

\* Second half, after the topology lock is released: the leaf is acknowledged.
\* A manager that stops in between leaves a claimed leaf without a reservation.
AcknowledgeSettlement(id) ==
    /\ MaySettle(id)
    /\ id \in active => epochOf[id] # leaf[id].epoch
    /\ leaf' = [leaf EXCEPT ![id].state = "Settled"]
    /\ UNCHANGED <<admin, member, camp, ledger, claims, locals>>

Next ==
    \/ \E p \in Policies : ChangePolicy(p)
    \/ \E d \in Devices : ChangeMember(d)
    \/ \E c \in Campaigns :
          \/ Freeze(c) \/ StartTransition(c) \/ PublishEpoch(c) \/ RestartFences(c) \/ Close(c)
          \/ \E d \in Devices : FenceTarget(c, d)
    \/ \E m \in Managers :
          \/ \E id \in ID : Begin(m, id)
          \/ Evaluate(m) \/ Commit(m) \/ Conflict(m) \/ Confirm(m) \/ Bind(m) \/ Fail(m)
    \/ \E id \in ID : StopTarget(id) \/ Claim(id) \/ Resolve(id) \/ Settle(id) \/ AcknowledgeSettlement(id)

Spec == Init /\ [][Next]_vars

\* The managers reconcile every open campaign again and again: a fence that stays
\* possible is made, a finished transition is published, and in the end a
\* manager lives long enough to finish a round.
Fairness ==
    /\ \A c \in Campaigns :
          /\ WF_vars(camp[c].phase = "Open" /\ PublishEpoch(c))
          /\ \A d \in Devices : WF_vars(camp[c].phase = "Open" /\ FenceTarget(c, d))
    /\ <>[][\A c \in Campaigns : ~ RestartFences(c)]_vars

FairSpec == Spec /\ Fairness

-----------------------------------------------------------------------------
(* Properties. *)

Policy == [Kinds -> Nat \ {0}]

Campaign ==
    [phase : {"New", "Open", "Closed"}, frozen : Policy \cup {None}, eff : Policy \cup {None},
     sem : Policy \cup {None}, epoch : Nat, next : Policy \cup {None},
     nextSem : Policy \cup {None}, done : SUBSET Devices, site : [Devices -> Sites \cup {None}]]

View == [epoch : Nat, eff : Policy, sem : Policy, rearm : BOOLEAN]

\* The shape of the policy, the campaigns, the ledger, the leaves and the
\* locals; exactly the reservations in the ledger have an epoch.
TypeOK ==
    /\ admin \in Policies
    /\ member \in [Devices -> [up : BOOLEAN, site : Sites]]
    /\ camp \in [Campaigns -> Campaign]
    /\ active \subseteq ID
    /\ epochOf \in [ID -> Nat]
    /\ active = {id \in ID : epochOf[id] # 0}
    /\ leaf \in [ID -> [state : {"None", "Open", "Revoked", "Settled"}, epoch : Nat]]
    /\ claimed \subseteq ID /\ resolved \subseteq claimed
    /\ pc \in [Managers -> {"idle", "read", "commit", "confirm", "bind"}]
    /\ tgt \in [Managers -> ID \cup {None}]
    /\ view \in [Managers -> View \cup {None}]
    /\ fresh \in [Managers -> BOOLEAN]

Frozen(id) == camp[CampaignOf(id)].frozen

\* However often the administrator loosens and tightens the policy, a campaign
\* never holds more reservations, in the fleet or at one site, than the policy
\* it was approved under and its own budgets allow.
CampaignWithinApproval ==
    \A id \in active :
        LET c == CampaignOf(id)
            here == OfCampaign(c) \cap AtSite(SiteOf(id))
            Within(n, k) == /\ n <= Frozen(id)[k]
                            /\ CampaignLimit[c][k] > 0 => n <= CampaignLimit[c][k]
        IN  /\ \A k \in {"transfers", "unavailable"} : Within(Cardinality(OfCampaign(c)), k)
            /\ \A k \in {"domainTransfers", "domainUnavailable"} : Within(Cardinality(here), k)

\* Campaigns approved under different policies share one ledger.  Whatever
\* they add and release, the reservations in the fleet, at a site and in a
\* risk group stay within the approved ceilings of one of the campaigns that
\* hold them: concurrent Reserves never add up past every ceiling.
Covered(reservations, kinds) ==
    reservations # {} =>
        \E id \in reservations : \A k \in kinds : Cardinality(reservations) <= Frozen(id)[k]

FleetWithinSomeApproval ==
    /\ Covered(active, {"transfers", "unavailable", "records"})
    /\ \A s \in Sites : Covered(AtSite(s), {"domainTransfers", "domainUnavailable"})
    /\ \A g \in Groups : Covered(InGroup(g), Structural)

\* The fences before a new policy epoch are complete: the reservation of a
\* target that holds no claim belongs to the campaign's effective epoch,
\* although Reserve does not read the campaign, the leaf and the ledger
\* together.  (A target settled before is left alone by the fence.)
UnclaimedInCurrentEpoch ==
    \A id \in active \ claimed :
        leaf[id].state # "Settled" => epochOf[id] = camp[CampaignOf(id)].epoch

\* "A claimed mutation is never rearmed or abandoned by a policy change": until
\* its outcome is conclusive, its leaf is not settled and its reservation stays,
\* in the epoch of the leaf.
ClaimKeepsReservation ==
    \A id \in claimed \ resolved :
        /\ leaf[id].state # "Settled"
        /\ id \in active /\ epochOf[id] = leaf[id].epoch

\* Policy epochs advance one at a time, no ceiling of the effective policy ever
\* rises, and the approved snapshot never changes ("persisted policy transition
\* weakens an effective ceiling").
EpochsOnlyTighten ==
    [][\A c \in Campaigns : camp[c].phase # "New" =>
          /\ camp'[c].frozen = camp[c].frozen
          /\ \/ camp'[c].epoch = camp[c].epoch /\ camp'[c].eff = camp[c].eff
             \/ /\ camp'[c].epoch = camp[c].epoch + 1
                /\ \A k \in Kinds : camp'[c].eff[k] <= camp[c].eff[k]]_vars

\* A transition ends when its epoch is published or the campaign stops; while
\* the administrator's policy demands a new plan, it waits.
Ended(c) == camp[c].next = None \/ camp[c].phase = "Closed" \/ MustReplan(c)

\* While no claimed target of the campaign is settled, in full or only in the
\* ledger, and none is left behind in an earlier epoch, a policy transition is
\* published: the fences cannot wait for each other or for a worker.
TransitionPublishedIfCurrent ==
    \A c \in Campaigns :
        (/\ camp[c].next # None
         /\ [](\A d \in Plan[c] :
                 /\ leaf[<<c, d>>].epoch \in {0, camp[c].epoch}
                 /\ <<c, d>> \in claimed => <<c, d>> \in active /\ leaf[<<c, d>>].state # "Settled"))
        ~> Ended(c)

=============================================================================
