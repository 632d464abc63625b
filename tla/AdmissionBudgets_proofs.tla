---------------------- MODULE AdmissionBudgets_proofs ----------------------
(***************************************************************************)
(* Ceilings and policy epochs hold for any campaigns, devices, policies    *)
(* and managers.                                                           *)
(*                                                                         *)
(* A manager about to commit on a ledger that nobody has written since it  *)
(* counted still finds the room it counted (Room), and its target has not  *)
(* been passed by a fence (Eligible).  Whatever the reservations in the    *)
(* ledger, every non-empty set of them is covered by the approval of one   *)
(* of its members (Layered): the one that was reserved last.               *)
(***************************************************************************)
EXTENDS AdmissionBudgets, FiniteSetTheorems, TLAPS

Fleet == {"transfers", "unavailable"}
Domain == {"domainTransfers", "domainUnavailable"}

\* A campaign is approved from the moment its plan is frozen, and what it
\* moves to next is at most what it has.
CampInv(c) ==
    /\ camp[c].phase = "New" => camp[c].next = None
    /\ camp[c].phase # "New" =>
          /\ camp[c].frozen \in Policy /\ camp[c].eff \in Policy /\ camp[c].sem \in Policy
          /\ camp[c].epoch >= 1
          /\ \A k \in Kinds : camp[c].eff[k] <= camp[c].frozen[k]
    /\ camp[c].next # None =>
          /\ camp[c].nextSem \in Policy
          /\ \A k \in Kinds : camp[c].next[k] <= camp[c].eff[k]
    /\ camp[c].done # {} => camp[c].next # None

\* No claim and no settlement: what the fence of an epoch has to stop.
Unsettled(id) == id \notin claimed /\ leaf[id].state # "Settled"

Planned(id) == camp[CampaignOf(id)].phase # "New" /\ DeviceOf(id) \in Plan[CampaignOf(id)]

\* A claimed leaf with an open outcome has its reservation; one without a claim
\* is open in the current epoch only, at most one epoch behind, and revoked in
\* the current one when its fence is done.
LeafInv(id) ==
    /\ id \in active => Planned(id)
    /\ leaf[id].state = "None" => leaf[id].epoch = 0 /\ id \notin claimed
    /\ leaf[id].state # "None" => Planned(id)
    /\ id \in claimed \ resolved =>
          leaf[id].state # "Settled" /\ id \in active /\ epochOf[id] = leaf[id].epoch
    /\ Unsettled(id) =>
          /\ leaf[id].state = "Open" => leaf[id].epoch = camp[CampaignOf(id)].epoch
          /\ id \in active => epochOf[id] = camp[CampaignOf(id)].epoch
          /\ DeviceOf(id) \in Plan[CampaignOf(id)] =>
                camp[CampaignOf(id)].epoch <= leaf[id].epoch + 1
          /\ DeviceOf(id) \in camp[CampaignOf(id)].done =>
                /\ id \notin active
                /\ leaf[id].state = "Revoked" /\ leaf[id].epoch = camp[CampaignOf(id)].epoch

\* The ceilings of the target's campaign leave room for one more reservation.
RoomFor(id, n, k) ==
    /\ n + 1 <= Frozen(id)[k]
    /\ CampaignLimit[CampaignOf(id)][k] > 0 => n + 1 <= CampaignLimit[CampaignOf(id)][k]

Room(id) ==
    /\ \A k \in Fleet \cup {"records"} : Cardinality(active) + 1 <= Frozen(id)[k]
    /\ \A k \in Fleet : RoomFor(id, Cardinality(OfCampaign(CampaignOf(id))), k)
    /\ \A s \in Sites \cup {None}, k \in Domain : s = SiteOf(id) =>
          /\ Cardinality(AtSite(s)) + 1 <= Frozen(id)[k]
          /\ RoomFor(id, Cardinality(OfCampaign(CampaignOf(id)) \cap AtSite(s)), k)
    /\ \A g \in GroupsOf[DeviceOf(id)], k \in Structural :
          Cardinality(InGroup(g)) + 1 <= Frozen(id)[k]
    /\ \A i \in active : DeviceOf(i) # DeviceOf(id)

\* No fence has passed the target id of a manager.
Eligible(m, id) ==
    Unsettled(id) => /\ view[m].epoch = camp[CampaignOf(id)].epoch
                     /\ DeviceOf(id) \notin camp[CampaignOf(id)].done

\* The snapshot of a manager at work on id, and what it relies on to commit.
LocalFor(m, id) ==
    /\ view[m] \in View
    /\ Planned(id)
    /\ view[m].epoch >= 1 /\ view[m].epoch <= camp[CampaignOf(id)].epoch
    /\ \A k \in Kinds : view[m].eff[k] <= Frozen(id)[k]
    /\ pc[m] = "commit" /\ fresh[m] => Room(id) /\ Eligible(m, id)

LocalOK(m) ==
    pc[m] # "idle" => tgt[m] \in ID /\ \A id \in ID : tgt[m] = id => LocalFor(m, id)

Layered ==
    /\ \A T \in SUBSET active : Covered(T, Fleet \cup {"records"})
    /\ \A s \in Sites : \A T \in SUBSET AtSite(s) : Covered(T, Domain)
    /\ \A g \in Groups : \A T \in SUBSET InGroup(g) : Covered(T, Structural)

OnePerDevice == \A i, j \in active : DeviceOf(i) = DeviceOf(j) => i = j

Counts == CampaignWithinApproval /\ Layered /\ OnePerDevice

IInv ==
    /\ TypeOK
    /\ \A c \in Campaigns : CampInv(c)
    /\ \A id \in ID : LeafInv(id)
    /\ \A m \in Managers : LocalOK(m)
    /\ Counts

-----------------------------------------------------------------------------
(* Counting. *)

\* The epoch after e is a later epoch.
LEMMA NextEpoch ==
    \A e \in Nat : e + 1 \in Nat /\ e <= e /\ e >= e /\ e + 1 >= e /\ e <= e + 1
OBVIOUS

\* Epochs count from one.
LEMMA FirstEpoch == \A e \in Nat : 0 <= e + 1 /\ 1 <= e + 1 /\ (e >= 1 => e \in Nat \ {0})
OBVIOUS

\* An epoch no later than f is no later than what follows f.
LEMMA NoLater == ASSUME NEW e \in Nat, NEW f \in Nat, NEW g \in Nat, e <= f, g >= f PROVE e <= g
OBVIOUS

\* No epoch lies between one and the next.
LEMMA NoneBetween ==
    ASSUME NEW e \in Nat, NEW f \in Nat, NEW g \in Nat, f < e, e <= g, g <= f + 1
    PROVE  e = g /\ f # g
OBVIOUS

\* The targets are finite in number, so sets of reservations can be counted.
LEMMA Countable ==
    /\ IsFiniteSet(ID)
    /\ \A S \in SUBSET ID : IsFiniteSet(S) /\ Cardinality(S) \in Nat
<1>1. IsFiniteSet(ID)
  BY FS_Product, BudgetAssumption DEF ID
<1>2. ASSUME NEW S \in SUBSET ID PROVE IsFiniteSet(S) /\ Cardinality(S) \in Nat
  BY <1>1, FS_Subset, FS_CardinalityType
<1>. QED BY <1>1, <1>2

\* A smaller set of reservations counts no more.
LEMMA Fewer ==
    ASSUME NEW S \in SUBSET ID, NEW T \in SUBSET S
    PROVE  Cardinality(T) \in Nat /\ Cardinality(S) \in Nat /\ Cardinality(T) <= Cardinality(S)
BY Countable, FS_Subset

\* One reservation counts for at most one.
LEMMA OneMore ==
    ASSUME NEW S \in SUBSET ID, NEW x \in ID, NEW T \in SUBSET (S \cup {x})
    PROVE  /\ Cardinality(T) \in Nat /\ Cardinality(S) \in Nat
           /\ Cardinality(T) <= Cardinality(S) + 1
<1>1. IsFiniteSet(S) /\ Cardinality(S) \in Nat
  BY Countable
<1>2. S \cup {x} \in SUBSET ID
  OBVIOUS
<1>3. Cardinality(S \cup {x}) <= Cardinality(S) + 1
  BY <1>1, FS_AddElement, SMTT(30)
<1>. QED BY <1>1, <1>2, <1>3, Fewer

\* minPositive of three ceilings is a ceiling that none of them exceeds.
LEMMA MinPositive ==
    ASSUME NEW a \in Nat \ {0}, NEW b \in Nat \ {0}, NEW c \in Nat \ {0}
    PROVE  LET n == minPositive({a, b, c})
           IN  n \in Nat \ {0} /\ n <= a /\ n <= b /\ n <= c
<1>. DEFINE P == {v \in {a, b, c} : v > 0}
<1>1. P = {a, b, c}
  OBVIOUS
<1>2. \E v \in {a, b, c} : \A w \in {a, b, c} : v <= w
  <2>1. CASE a <= b /\ a <= c BY <2>1
  <2>2. CASE b <= a /\ b <= c BY <2>2
  <2>3. CASE c <= a /\ c <= b BY <2>3
  <2>. QED BY <2>1, <2>2, <2>3
<1>3. minPositive({a, b, c}) = CHOOSE v \in {a, b, c} : \A w \in {a, b, c} : v <= w
  BY <1>1 DEF minPositive
<1>. QED BY <1>2, <1>3

\* strictestPolicySnapshot is a policy that exceeds none of the three.
LEMMA Strictest ==
    ASSUME NEW p \in Policy, NEW q \in Policy, NEW r \in Policy
    PROVE  LET s == strictestPolicySnapshot(p, q, r)
           IN  s \in Policy /\ \A k \in Kinds : s[k] <= p[k]
<1>1. ASSUME NEW k \in Kinds
      PROVE  LET n == minPositive({p[k], q[k], r[k]}) IN n \in Nat \ {0} /\ n <= p[k]
  <2>1. p[k] \in Nat \ {0} /\ q[k] \in Nat \ {0} /\ r[k] \in Nat \ {0}
    BY DEF Policy
  <2>. QED BY <2>1, MinPositive
<1>. QED BY <1>1 DEF strictestPolicySnapshot, Policy

\* Reservations of different devices take as many devices, and a further device
\* is one more.
LEMMA DeviceCount ==
    ASSUME NEW S \in SUBSET ID, \A i, j \in S : DeviceOf(i) = DeviceOf(j) => i = j,
           NEW U \in SUBSET Devices, NEW d \in U, \A i \in S : DeviceOf(i) \in U \ {d}
    PROVE  Cardinality(S) \in Nat /\ Cardinality(U) \in Nat /\ Cardinality(S) + 1 <= Cardinality(U)
<1>. DEFINE f == [i \in S |-> DeviceOf(i)]
<1>1. IsFiniteSet(U) /\ Cardinality(U) \in Nat
  BY BudgetAssumption, FS_Subset, FS_CardinalityType
<1>2. IsFiniteSet(U \ {d}) /\ Cardinality(U \ {d}) = Cardinality(U) - 1
  BY <1>1, FS_RemoveElement
<1>3. f \in Injection(S, U \ {d})
  BY DEF Injection, IsInjective
<1>4. Cardinality(S) <= Cardinality(U \ {d})
  BY <1>2, <1>3, FS_Injection
<1>5. Cardinality(S) \in Nat
  BY Countable
<1>. QED BY <1>1, <1>2, <1>4, <1>5

-----------------------------------------------------------------------------
(* Ceilings. *)

\* What Reserve admits against the ceilings of an epoch fits into the approval.
LEMMA AdmitsRoom ==
    ASSUME TypeOK, OnePerDevice, NEW id \in ID, NEW p \in Policy, Frozen(id) \in Policy,
           \A k \in Kinds : p[k] <= Frozen(id)[k], Admits(id, p)
    PROVE  Room(id)
<1>. DEFINE c == CampaignOf(id)
            d == DeviceOf(id)
            s == SiteOf(id)
<1>1. c \in Campaigns /\ d \in Devices /\ active \in SUBSET ID
  BY DEF ID, CampaignOf, DeviceOf, TypeOK
<1>2. /\ \A k \in Kinds : p[k] \in Nat /\ Frozen(id)[k] \in Nat /\ p[k] <= Frozen(id)[k]
      /\ \A k \in Kinds : CampaignLimit[c][k] \in Nat
  BY <1>1, BudgetAssumption DEF Policy
<1>3. \A i \in active : DeviceOf(i) # d
  BY DEF Admits
<1>4. ASSUME NEW S \in SUBSET active, NEW scope \in SUBSET Devices
      PROVE  /\ Cardinality(S) \in Nat /\ Cardinality(Unavailable(scope, S) \cup {d}) \in Nat
             /\ Cardinality(S) + 1 <= Cardinality(Unavailable(scope, S) \cup {d})
  <2>1. Unavailable(scope, S) \cup {d} \in SUBSET Devices
    BY <1>1 DEF Unavailable, ID, DeviceOf
  <2>2. \A i \in S : DeviceOf(i) \in (Unavailable(scope, S) \cup {d}) \ {d}
    BY <1>3 DEF Unavailable
  <2>3. S \in SUBSET ID /\ \A i, j \in S : DeviceOf(i) = DeviceOf(j) => i = j
    BY <1>1 DEF OnePerDevice
  <2>. QED BY <2>1, <2>2, <2>3, DeviceCount, Zenon
<1>5. ASSUME NEW S \in SUBSET active, NEW k \in Kinds,
             Cardinality(S) + 1 <= effectiveLimit(p[k], CampaignLimit[c][k])
      PROVE  RoomFor(id, Cardinality(S), k)
  <2>1. Cardinality(S) \in Nat
    BY <1>1, Countable
  <2>. QED BY <2>1, <1>2, <1>5 DEF RoomFor, effectiveLimit
<1>6. Fleet \cup {"records"} \cup Domain \cup Structural \subseteq Kinds
  BY DEF Fleet, Domain, Kinds
<1>7. \A k \in Fleet \cup {"records"} : Cardinality(active) + 1 <= Frozen(id)[k]
  <2>1. /\ Cardinality(active) < p["records"] /\ Cardinality(active) + 1 <= p["transfers"]
        /\ Cardinality(Unavailable(Devices, active) \cup {d}) <= p["unavailable"]
    BY DEF Admits, AdmitsFleet
  <2>2. /\ Cardinality(active) \in Nat /\ Cardinality(Unavailable(Devices, active) \cup {d}) \in Nat
        /\ Cardinality(active) + 1 <= Cardinality(Unavailable(Devices, active) \cup {d})
    BY <1>4
  <2>3. {"records", "transfers", "unavailable"} \subseteq Kinds
    BY <1>6 DEF Fleet
  <2>. QED BY <2>1, <2>2, <2>3, <1>2 DEF Fleet
<1>8. \A k \in Fleet : RoomFor(id, Cardinality(OfCampaign(c)), k)
  <2>1. OfCampaign(c) \in SUBSET active
    BY DEF OfCampaign
  <2>2. \A k \in Fleet :
           Cardinality(OfCampaign(c)) + 1 <= effectiveLimit(p[k], CampaignLimit[c][k])
    BY DEF Admits, AdmitsFleet, Fleet
  <2>. QED BY <2>1, <2>2, <1>5, <1>6
<1>9. ASSUME NEW k \in Domain
      PROVE  /\ Cardinality(AtSite(s)) + 1 <= Frozen(id)[k]
             /\ RoomFor(id, Cardinality(OfCampaign(c) \cap AtSite(s)), k)
  <2>. DEFINE here == {e \in Devices : member[e].site = s}
  <2>1. AtSite(s) \in SUBSET active /\ OfCampaign(c) \cap AtSite(s) \in SUBSET active
        /\ here \in SUBSET Devices
    BY DEF AtSite
  <2>2. /\ Cardinality(Unavailable(here, AtSite(s)) \cup {d}) <= p["domainUnavailable"]
        /\ Cardinality(AtSite(s)) + 1 <= p["domainTransfers"]
        /\ Cardinality(OfCampaign(c) \cap AtSite(s)) + 1 <= effectiveLimit(p[k], CampaignLimit[c][k])
    BY DEF Admits, AdmitsDomain, Domain
  <2>3. /\ Cardinality(AtSite(s)) \in Nat /\ Cardinality(Unavailable(here, AtSite(s)) \cup {d}) \in Nat
        /\ Cardinality(AtSite(s)) + 1 <= Cardinality(Unavailable(here, AtSite(s)) \cup {d})
    BY <2>1, <1>4, Zenon
  <2>4. k \in Kinds /\ k \in {"domainTransfers", "domainUnavailable"}
    BY <1>6 DEF Domain
  <2>5. Cardinality(AtSite(s)) + 1 <= p[k]
    <3>. HIDE DEF here
    <3>1. p["domainUnavailable"] \in Nat
      BY <1>2, <1>6 DEF Domain
    <3>. QED BY <3>1, <2>2, <2>3, <2>4
  <2>6. Cardinality(AtSite(s)) + 1 <= Frozen(id)[k]
    BY <2>3, <2>4, <2>5, <1>2
  <2>. QED BY <2>1, <2>2, <2>4, <2>6, <1>5
<1>10. ASSUME NEW g \in GroupsOf[d], NEW k \in Structural
       PROVE  Cardinality(InGroup(g)) + 1 <= Frozen(id)[k]
  <2>. DEFINE scope == {e \in Devices : g \in GroupsOf[e]}
  <2>1. InGroup(g) \in SUBSET active /\ scope \in SUBSET Devices
    BY DEF InGroup
  <2>2. /\ Cardinality(Unavailable(scope, InGroup(g)) \cup {d}) <= p["groupUnavailable"]
        /\ Cardinality(InGroup(g)) + 1 <= p["groupTransfers"]
    BY DEF Admits, AdmitsGroup
  <2>3. /\ Cardinality(InGroup(g)) \in Nat /\ Cardinality(Unavailable(scope, InGroup(g)) \cup {d}) \in Nat
        /\ Cardinality(InGroup(g)) + 1 <= Cardinality(Unavailable(scope, InGroup(g)) \cup {d})
    BY <2>1, <1>4, Zenon
  <2>4. k \in Kinds /\ k \in {"groupTransfers", "groupUnavailable"}
    BY <1>6 DEF Structural
  <2>5. Cardinality(InGroup(g)) + 1 <= p[k]
    <3>. HIDE DEF scope
    <3>1. p["groupUnavailable"] \in Nat
      BY <1>2, <1>6 DEF Structural
    <3>. QED BY <3>1, <2>2, <2>3, <2>4
  <2>. QED BY <2>3, <2>4, <2>5, <1>2
<1>. QED BY <1>3, <1>7, <1>8, <1>9, <1>10, Zenon DEF Room

\* What an approved campaign keeps in every step.
CampFixed ==
    \A c \in Campaigns : camp[c].phase # "New" =>
        /\ camp'[c].phase # "New"
        /\ camp'[c].frozen = camp[c].frozen /\ camp'[c].site = camp[c].site
        /\ camp'[c].epoch >= camp[c].epoch

\* With the campaigns, all that is said of them stays.
LEMMA CampSame ==
    ASSUME TypeOK, \A c \in Campaigns : CampInv(c), camp' = camp
    PROVE  CampFixed /\ \A c \in Campaigns : CampInv(c)' /\ camp'[c].epoch = camp[c].epoch
<1>1. \A c \in Campaigns : camp[c].epoch >= camp[c].epoch
  BY DEF TypeOK, Campaign
<1>2. CampFixed
  BY <1>1, Zenon DEF CampFixed
<1>3. \A c \in Campaigns : CampInv(c)'
  BY Zenon DEF CampInv
<1>. QED BY <1>2, <1>3

\* Reservations that are given back leave the others covered.
LEMMA CountsKept ==
    ASSUME TypeOK, TypeOK', \A id \in active : Planned(id), CampFixed, Counts,
           \A id \in active : Frozen(id) \in Policy,
           active' \subseteq active
    PROVE  Counts'
<1>1. active \in SUBSET ID
  BY DEF TypeOK
<1>2. \A id \in active : Frozen(id)' = Frozen(id) /\ SiteOf(id)' = SiteOf(id)
  BY <1>1 DEF Planned, CampFixed, Frozen, SiteOf, ID, CampaignOf
<1>3. /\ \A c : OfCampaign(c)' \in SUBSET OfCampaign(c) /\ OfCampaign(c) \in SUBSET ID
      /\ \A s : AtSite(s)' \in SUBSET AtSite(s) /\ AtSite(s) \in SUBSET ID
      /\ \A g : InGroup(g)' \in SUBSET InGroup(g)
  BY <1>1, <1>2, Zenon DEF OfCampaign, AtSite, InGroup
<1>4. CampaignWithinApproval'
  <2>. SUFFICES ASSUME NEW id \in active'
       PROVE  LET c == CampaignOf(id)
                  here == OfCampaign(c)' \cap AtSite(SiteOf(id))'
                  Within(n, k) == /\ n <= Frozen(id)'[k]
                                  /\ CampaignLimit[c][k] > 0 => n <= CampaignLimit[c][k]
              IN  /\ \A k \in Fleet : Within(Cardinality(OfCampaign(c)'), k)
                  /\ \A k \in Domain : Within(Cardinality(here), k)
    BY DEF CampaignWithinApproval, Fleet, Domain
  <2>. DEFINE c == CampaignOf(id)
              all == OfCampaign(c)
              here == OfCampaign(c) \cap AtSite(SiteOf(id))
  <2>1. /\ \A k \in Fleet : /\ Cardinality(all) <= Frozen(id)[k]
                            /\ CampaignLimit[c][k] > 0 => Cardinality(all) <= CampaignLimit[c][k]
        /\ \A k \in Domain : /\ Cardinality(here) <= Frozen(id)[k]
                             /\ CampaignLimit[c][k] > 0 => Cardinality(here) <= CampaignLimit[c][k]
    BY DEF Counts, CampaignWithinApproval, Fleet, Domain
  <2>2. /\ Cardinality(all') \in Nat /\ Cardinality(all) \in Nat
        /\ Cardinality(all') <= Cardinality(all)
    BY <1>3, Fewer
  <2>3. here' \in SUBSET here /\ here \in SUBSET ID /\ SiteOf(id)' = SiteOf(id)
    BY <1>2, <1>3
  <2>4. /\ Cardinality(here') \in Nat /\ Cardinality(here) \in Nat
        /\ Cardinality(here') <= Cardinality(here)
    BY <2>3, Fewer
  <2>5. /\ c \in Campaigns
        /\ \A k \in Fleet \cup Domain : Frozen(id)[k] \in Nat /\ CampaignLimit[c][k] \in Nat
    BY <1>1, BudgetAssumption DEF Policy, Fleet, Domain, Kinds, ID, CampaignOf
  <2>6. Frozen(id)' = Frozen(id)
    BY <1>2
  <2>. HIDE DEF c, all, here
  <2>7. /\ \A k \in Fleet : /\ Cardinality(all') <= Frozen(id)'[k]
                            /\ CampaignLimit[c][k] > 0 => Cardinality(all') <= CampaignLimit[c][k]
        /\ \A k \in Domain : /\ Cardinality(here') <= Frozen(id)'[k]
                             /\ CampaignLimit[c][k] > 0 => Cardinality(here') <= CampaignLimit[c][k]
    BY <2>1, <2>2, <2>4, <2>5, <2>6
  <2>. QED BY <2>7 DEF c, all, here
<1>5. ASSUME NEW T \in SUBSET active, NEW K, Covered(T, K) PROVE Covered(T, K)'
  BY <1>2, <1>5, Zenon DEF Covered
<1>6. Layered'
  BY <1>3, <1>5 DEF Counts, Layered, AtSite, InGroup
<1>7. OnePerDevice'
  BY DEF Counts, OnePerDevice
<1>. QED BY <1>4, <1>6, <1>7 DEF Counts

\* A reservation for which there is room leaves all of them covered.
LEMMA CountsAdded ==
    ASSUME TypeOK, Counts, NEW x \in ID, Room(x), Frozen(x) \in Policy,
           active' = active \cup {x}, camp' = camp
    PROVE  Counts'
<1>1. active \in SUBSET ID
  BY DEF TypeOK
<1>2. \A id : Frozen(id)' = Frozen(id) /\ SiteOf(id)' = SiteOf(id)
  BY DEF Frozen, SiteOf
<1>3. /\ \A c : OfCampaign(c)' = OfCampaign(c) \cup (IF CampaignOf(x) = c THEN {x} ELSE {})
      /\ \A s : AtSite(s)' = AtSite(s) \cup (IF SiteOf(x) = s THEN {x} ELSE {})
      /\ \A g : InGroup(g)' = InGroup(g) \cup (IF g \in GroupsOf[DeviceOf(x)] THEN {x} ELSE {})
  <2>1. \A c : OfCampaign(c)' = {id \in active \cup {x} : CampaignOf(id) = c}
    BY DEF OfCampaign
  <2>2. \A s : AtSite(s)' = {id \in active \cup {x} : SiteOf(id) = s}
    BY <1>2 DEF AtSite
  <2>3. \A g : InGroup(g)' = {id \in active \cup {x} : g \in GroupsOf[DeviceOf(id)]}
    BY DEF InGroup
  <2>4. \A c : OfCampaign(c)' = OfCampaign(c) \cup (IF CampaignOf(x) = c THEN {x} ELSE {})
    BY <2>1 DEF OfCampaign
  <2>5. \A s : AtSite(s)' = AtSite(s) \cup (IF SiteOf(x) = s THEN {x} ELSE {})
    BY <2>2 DEF AtSite
  <2>6. \A g : InGroup(g)' = InGroup(g) \cup (IF g \in GroupsOf[DeviceOf(x)] THEN {x} ELSE {})
    BY <2>3 DEF InGroup
  <2>. QED BY <2>4, <2>5, <2>6
<1>4. /\ \A c : OfCampaign(c) \in SUBSET ID
      /\ \A s : AtSite(s) \in SUBSET ID
      /\ \A g : InGroup(g) \in SUBSET ID
  BY <1>1 DEF OfCampaign, AtSite, InGroup
<1>12. SiteOf(x) \in Sites \cup {None}
  BY DEF TypeOK, Campaign, SiteOf, ID, CampaignOf, DeviceOf
<1>5. CampaignWithinApproval'
  <2>. SUFFICES ASSUME NEW id \in active'
       PROVE  LET c == CampaignOf(id)
                  here == OfCampaign(c)' \cap AtSite(SiteOf(id))'
                  Within(n, k) == /\ n <= Frozen(id)[k]
                                  /\ CampaignLimit[c][k] > 0 => n <= CampaignLimit[c][k]
              IN  /\ \A k \in Fleet : Within(Cardinality(OfCampaign(c)'), k)
                  /\ \A k \in Domain : Within(Cardinality(here), k)
    BY <1>2 DEF CampaignWithinApproval, Fleet, Domain
  <2>. DEFINE c == CampaignOf(id)
              s == SiteOf(id)
              Within(n, k) == /\ n <= Frozen(id)[k]
                              /\ CampaignLimit[c][k] > 0 => n <= CampaignLimit[c][k]
  <2>1. id \in ID /\ c \in Campaigns /\ SiteOf(id)' = s
    BY <1>1, <1>2, Zenon DEF ID, CampaignOf
  <2>2. CASE c # CampaignOf(x)
    <3>1. OfCampaign(c)' = OfCampaign(c) /\ id \in active
      BY <2>2, <1>3, Zenon
    <3>2. x \notin OfCampaign(c)
      BY <2>2 DEF OfCampaign
    <3>3. OfCampaign(c)' \cap AtSite(s)' = OfCampaign(c) \cap AtSite(s)
      <4>1. AtSite(s) \subseteq AtSite(s)' /\ AtSite(s)' \subseteq AtSite(s) \cup {x}
        BY <1>2, Zenon DEF AtSite
      <4>. QED BY <3>1, <3>2, <4>1
    <3>4. /\ \A k \in Fleet : Within(Cardinality(OfCampaign(c)), k)
          /\ \A k \in Domain : Within(Cardinality(OfCampaign(c) \cap AtSite(s)), k)
      BY <3>1, Zenon DEF Counts, CampaignWithinApproval, Fleet, Domain
    <3>. QED BY <3>1, <3>3, <3>4, <2>1
  <2>3. CASE c = CampaignOf(x)
    <3>1. Frozen(id) = Frozen(x)
      BY <2>3 DEF Frozen
    <3>2. \A k \in Fleet \cup Domain : Frozen(id)[k] \in Nat /\ CampaignLimit[c][k] \in Nat
      BY <3>1, <2>1, BudgetAssumption DEF Policy, Fleet, Domain, Kinds
    <3>3. ASSUME NEW k \in Fleet PROVE Within(Cardinality(OfCampaign(c)'), k)
      <4>1. /\ Cardinality(OfCampaign(c)) + 1 <= Frozen(x)[k]
            /\ CampaignLimit[c][k] > 0 => Cardinality(OfCampaign(c)) + 1 <= CampaignLimit[c][k]
        BY <2>3, Zenon DEF Room, RoomFor
      <4>2. OfCampaign(c)' \in SUBSET (OfCampaign(c) \cup {x})
        BY <1>3
      <4>3. /\ Cardinality(OfCampaign(c)') \in Nat /\ Cardinality(OfCampaign(c)) \in Nat
            /\ Cardinality(OfCampaign(c)') <= Cardinality(OfCampaign(c)) + 1
        BY <4>2, <1>4, OneMore, Zenon
      <4>. QED BY <4>1, <4>3, <3>1, <3>2
    <3>4. ASSUME NEW k \in Domain PROVE Within(Cardinality(OfCampaign(c)' \cap AtSite(s)'), k)
      <4>. DEFINE here == OfCampaign(c) \cap AtSite(s)
                  now == OfCampaign(c)' \cap AtSite(s)'
      <4>1. CASE s = SiteOf(x)
        <5>1. /\ Cardinality(here) + 1 <= Frozen(x)[k]
              /\ CampaignLimit[c][k] > 0 => Cardinality(here) + 1 <= CampaignLimit[c][k]
          BY <2>3, <4>1, <1>12 DEF Room, RoomFor
        <5>2. now \in SUBSET (here \cup {x}) /\ here \in SUBSET ID
          <6>1. AtSite(s)' \subseteq AtSite(s) \cup {x}
            BY <1>2 DEF AtSite
          <6>2. OfCampaign(c)' \subseteq OfCampaign(c) \cup {x}
            BY DEF OfCampaign
          <6>. QED BY <6>1, <6>2, <1>4
        <5>3. /\ Cardinality(now) \in Nat /\ Cardinality(here) \in Nat
              /\ Cardinality(now) <= Cardinality(here) + 1
          BY <5>2, OneMore, Zenon
        <5>. QED BY <5>1, <5>3, <3>1, <3>2
      <4>2. CASE s # SiteOf(x)
        <5>1. id \in active /\ AtSite(s)' = AtSite(s) /\ x \notin AtSite(s)
          BY <4>2, <1>3 DEF AtSite
        <5>2. now = here
          BY <5>1, <1>3, Zenon
        <5>3. Within(Cardinality(here), k)
          BY <5>1 DEF Counts, CampaignWithinApproval, Domain
        <5>. QED BY <5>2, <5>3, Zenon
      <4>. QED BY <4>1, <4>2, Zenon
    <3>. QED BY <3>3, <3>4, <2>1
  <2>. QED BY <2>2, <2>3, Zenon
<1>6. ASSUME NEW S \in SUBSET active, NEW K \in SUBSET Kinds, NEW T \in SUBSET (S \cup {x}),
             \A U \in SUBSET S : Covered(U, K),
             x \in T => \A k \in K : Cardinality(S) + 1 <= Frozen(x)[k]
      PROVE  Covered(T, K)'
  <2>1. CASE x \in T
    <3>1. /\ Cardinality(T) \in Nat /\ Cardinality(S) \in Nat
          /\ Cardinality(T) <= Cardinality(S) + 1
      BY <1>1, OneMore
    <3>2. \A k \in K : Frozen(x)[k] \in Nat
      BY DEF Policy
    <3>3. \A k \in K : Cardinality(T) <= Frozen(x)[k]
      BY <3>1, <3>2, <2>1, <1>6
    <3>. QED BY <3>3, <2>1, <1>2 DEF Covered
  <2>2. CASE x \notin T
    <3>1. Covered(T, K)
      BY <2>2, <1>6
    <3>. QED BY <3>1, <1>2 DEF Covered
  <2>. QED BY <2>1, <2>2
<1>7. \A T \in SUBSET active' : Covered(T, Fleet \cup {"records"})'
  <2>1. \A k \in Fleet \cup {"records"} : Cardinality(active) + 1 <= Frozen(x)[k]
    BY DEF Room
  <2>2. \A U \in SUBSET active : Covered(U, Fleet \cup {"records"})
    BY DEF Counts, Layered
  <2>3. Fleet \cup {"records"} \in SUBSET Kinds
    BY DEF Fleet, Kinds
  <2>. QED BY <2>1, <2>2, <2>3, <1>6, Zenon
<1>8. \A s \in Sites : \A T \in SUBSET AtSite(s)' : Covered(T, Domain)'
  <2>. SUFFICES ASSUME NEW s \in Sites, NEW T \in SUBSET AtSite(s)' PROVE Covered(T, Domain)'
    OBVIOUS
  <2>1. x \in T => \A k \in Domain : Cardinality(AtSite(s)) + 1 <= Frozen(x)[k]
    <3>. SUFFICES ASSUME x \in T PROVE SiteOf(x) = s
      BY Zenon DEF Room
    <3>. QED BY <1>2 DEF AtSite
  <2>2. AtSite(s) \in SUBSET active /\ T \in SUBSET (AtSite(s) \cup {x})
    BY <1>3 DEF AtSite
  <2>3. \A U \in SUBSET AtSite(s) : Covered(U, Domain)
    BY DEF Counts, Layered
  <2>4. Domain \in SUBSET Kinds
    BY DEF Domain, Kinds
  <2>. QED BY <2>1, <2>2, <2>3, <2>4, <1>6
<1>9. \A g \in Groups : \A T \in SUBSET InGroup(g)' : Covered(T, Structural)'
  <2>. SUFFICES ASSUME NEW g \in Groups, NEW T \in SUBSET InGroup(g)'
                PROVE Covered(T, Structural)'
    OBVIOUS
  <2>1. x \in T => \A k \in Structural : Cardinality(InGroup(g)) + 1 <= Frozen(x)[k]
    <3>. SUFFICES ASSUME x \in T PROVE g \in GroupsOf[DeviceOf(x)]
      BY DEF Room
    <3>. QED BY DEF InGroup
  <2>2. InGroup(g) \in SUBSET active /\ T \in SUBSET (InGroup(g) \cup {x})
    BY <1>3 DEF InGroup
  <2>3. \A U \in SUBSET InGroup(g) : Covered(U, Structural)
    BY DEF Counts, Layered
  <2>4. Structural \in SUBSET Kinds
    BY DEF Kinds
  <2>. QED BY <2>1, <2>2, <2>3, <2>4, <1>6, Zenon
<1>10. Layered'
  BY <1>7, <1>8, <1>9, Zenon DEF Layered
<1>11. OnePerDevice'
  BY Zenon DEF Counts, OnePerDevice, Room
<1>. QED BY <1>5, <1>10, <1>11 DEF Counts

-----------------------------------------------------------------------------
(* Steps. *)

\* Every reservation belongs to an approved campaign.
LEMMA Approved ==
    ASSUME IInv
    PROVE  /\ active \in SUBSET ID
           /\ \A id \in active : Planned(id) /\ Frozen(id) \in Policy
<1>1. active \in SUBSET ID
  BY Zenon DEF IInv, TypeOK
<1>2. \A id \in active : Planned(id)
  BY <1>1 DEF IInv, LeafInv
<1>3. \A id \in active : CampaignOf(id) \in Campaigns
  BY <1>1, Zenon DEF ID, CampaignOf
<1>. QED BY <1>1, <1>2, <1>3 DEF IInv, CampInv, Planned, Frozen

\* The room for a target stays while the ledger does.
LEMMA RoomKept ==
    ASSUME TypeOK, CampFixed, \A id \in active : Planned(id), active' = active,
           NEW x \in ID, Planned(x), Room(x)
    PROVE  Room(x)'
<1>1. \A id \in active \cup {x} : CampaignOf(id) \in Campaigns /\ camp[CampaignOf(id)].phase # "New"
  BY Zenon DEF TypeOK, ID, CampaignOf, Planned
<1>2. \A id \in active \cup {x} : Frozen(id)' = Frozen(id) /\ SiteOf(id)' = SiteOf(id)
  BY <1>1, Zenon DEF CampFixed, Frozen, SiteOf
<1>3. /\ \A c : OfCampaign(c)' = OfCampaign(c)
      /\ \A s : AtSite(s)' = AtSite(s)
      /\ \A g : InGroup(g)' = InGroup(g)
  BY <1>2 DEF OfCampaign, AtSite, InGroup
<1>4. Frozen(x)' = Frozen(x) /\ SiteOf(x)' = SiteOf(x)
  BY <1>2, Zenon
<1>. QED BY <1>3, <1>4, Zenon DEF Room, RoomFor

\* A manager that does not move keeps what it relies on, as long as no fence
\* passes its target.
LEMMA LocalKept ==
    ASSUME TypeOK, TypeOK', CampFixed, \A id \in active : Planned(id),
           NEW m \in Managers, LocalOK(m),
           pc'[m] = pc[m] /\ tgt'[m] = tgt[m] /\ view'[m] = view[m],
           fresh'[m] => fresh[m] /\ active' = active,
           \A id \in ID :
               tgt[m] = id /\ pc[m] = "commit" /\ fresh'[m] /\ Planned(id) /\ Eligible(m, id)
                   => Eligible(m, id)'
    PROVE  LocalOK(m)'
<1>. SUFFICES ASSUME pc[m] # "idle", NEW id \in ID, tgt[m] = id PROVE LocalFor(m, id)'
  BY Zenon DEF LocalOK
<1>1. LocalFor(m, id)
  BY Zenon DEF LocalOK
<1>. DEFINE c == CampaignOf(id)
<1>2. c \in Campaigns /\ camp[c].phase # "New"
  BY <1>1, Zenon DEF ID, CampaignOf, Planned, LocalFor
<1>3. /\ camp'[c].phase # "New" /\ camp'[c].frozen = camp[c].frozen
      /\ camp'[c].epoch >= camp[c].epoch
  BY <1>2, Zenon DEF CampFixed
<1>4. camp'[c].epoch \in Nat /\ camp[c].epoch \in Nat /\ view[m].epoch \in Nat
  BY <1>1, <1>2, Zenon DEF TypeOK, Campaign, View, LocalFor
<1>5. Planned(id) /\ Planned(id)' /\ Frozen(id)' = Frozen(id) /\ view[m].epoch <= camp'[c].epoch
  <2>1. view[m].epoch <= camp[c].epoch /\ camp'[c].epoch >= camp[c].epoch
    BY <1>1, <1>3, Zenon DEF Planned, LocalFor
  <2>2. view[m].epoch <= camp'[c].epoch
    BY <1>4, <2>1, NoLater, Zenon
  <2>. QED BY <1>1, <1>3, <2>2, Zenon DEF Planned, Frozen, LocalFor
<1>6. ASSUME pc[m] = "commit", fresh'[m] PROVE Room(id)' /\ Eligible(m, id)'
  <2>1. Room(id) /\ Eligible(m, id) /\ active' = active
    BY <1>1, <1>6, Zenon DEF LocalFor
  <2>2. Room(id)'
    BY <1>5, <2>1, RoomKept
  <2>. QED BY <1>5, <1>6, <2>1, <2>2, Zenon
<1>. QED BY <1>1, <1>5, <1>6, Zenon DEF LocalFor

\* The invariant after a step that adds no reservation.
LEMMA Assemble ==
    ASSUME IInv, TypeOK', CampFixed, active' \subseteq active,
           \A c \in Campaigns : CampInv(c)',
           \A id \in ID : LeafInv(id)',
           \A m \in Managers : LocalOK(m)'
    PROVE  IInv'
<1>1. Counts'
  BY Approved, CountsKept, Zenon DEF IInv
<1>. QED BY <1>1 DEF IInv

-----------------------------------------------------------------------------
(* The campaign's epochs. *)

\* What a step of the administrator, the fleet or the campaign leaves alone.
Aside == UNCHANGED <<ledger, leaves, locals>>

\* A step that changes one campaign and nothing else keeps the invariant if the
\* campaign stays well formed and no target escapes its fence.
LEMMA CampaignStep ==
    ASSUME IInv, TypeOK', Aside, CampFixed, NEW c \in Campaigns, CampInv(c)',
           \A b \in Campaigns \ {c} : camp'[b] = camp[b],
           \A id \in ID : CampaignOf(id) = c => LeafInv(id)',
           \A m \in Managers, id \in ID :
               CampaignOf(id) = c /\ Planned(id) /\ Eligible(m, id) => Eligible(m, id)'
    PROVE  IInv'
<1>1. \A b \in Campaigns : CampInv(b)'
  <2>1. ASSUME NEW b \in Campaigns \ {c} PROVE CampInv(b)'
    <3>1. CampInv(b) /\ camp'[b] = camp[b]
      BY Zenon DEF IInv
    <3>. QED BY <3>1, Zenon DEF CampInv
  <2>. QED BY <2>1
<1>2. ASSUME NEW id \in ID PROVE LeafInv(id)'
  <2>1. CampaignOf(id) \in Campaigns
    BY DEF ID, CampaignOf
  <2>2. CASE CampaignOf(id) # c
    <3>1. camp'[CampaignOf(id)] = camp[CampaignOf(id)] /\ LeafInv(id)
      BY <2>1, <2>2, Zenon DEF IInv
    <3>. QED BY <3>1, ZenonT(40) DEF LeafInv, Unsettled, Planned, Aside, ledger, leaves
  <2>. QED BY <2>2, Zenon
<1>3. ASSUME NEW m \in Managers PROVE LocalOK(m)'
  <2>1. ASSUME NEW id \in ID, Planned(id), Eligible(m, id) PROVE Eligible(m, id)'
    <3>1. CampaignOf(id) \in Campaigns
      BY Zenon DEF ID, CampaignOf
    <3>2. CASE CampaignOf(id) # c
      BY <2>1, <3>1, <3>2, Zenon DEF Eligible, Unsettled, Aside, leaves, locals
    <3>. QED BY <2>1, <3>2, Zenon
  <2>2. LocalOK(m)
    BY Zenon DEF IInv
  <2>3. /\ pc'[m] = pc[m] /\ tgt'[m] = tgt[m] /\ view'[m] = view[m]
        /\ fresh'[m] => fresh[m] /\ active' = active
    BY Zenon DEF Aside, locals, ledger
  <2>4. TypeOK
    BY Zenon DEF IInv
  <2>. QED BY <2>1, <2>2, <2>3, <2>4, Approved, LocalKept, Zenon
<1>4. active' \subseteq active
  BY Zenon DEF Aside, ledger
<1>. QED BY <1>1, <1>2, <1>3, <1>4, Assemble, Zenon

\* Freezing a plan: nothing of the campaign is reserved yet.
LEMMA FreezeStep == ASSUME IInv, NEW c \in Campaigns, Freeze(c) PROVE IInv'
<1>. DEFINE x == [phase |-> "Open", frozen |-> admin, eff |-> admin, sem |-> admin, epoch |-> 1,
                  next |-> None, nextSem |-> None, done |-> {},
                  site |-> [d \in Devices |-> member[d].site]]
<1>1. TypeOK /\ admin \in Policy
  BY BudgetAssumption, Zenon DEF IInv, TypeOK, Policy
<1>2. x \in Campaign
  BY <1>1 DEF Campaign, TypeOK
<1>3. camp' = [camp EXCEPT ![c] = x] /\ camp[c].phase = "New" /\ Aside
      /\ admin' = admin /\ member' = member
  BY ZenonT(40) DEF Freeze, Aside
<1>4. camp'[c] = x /\ \A b \in Campaigns \ {c} : camp'[b] = camp[b]
  BY <1>1, <1>3, ZenonT(40) DEF TypeOK
<1>5. TypeOK'
  <2>1. camp' \in [Campaigns -> Campaign]
    BY <1>1, <1>2, <1>3, ZenonT(40) DEF TypeOK
  <2>. QED BY <1>1, <1>3, <2>1 DEF TypeOK, Aside, ledger, leaves, locals
<1>6. CampFixed
  <2>1. \A b \in Campaigns : camp[b].epoch >= camp[b].epoch
    BY <1>1 DEF TypeOK, Campaign
  <2>2. \A b \in Campaigns : camp[b].phase # "New" => camp'[b] = camp[b]
    BY <1>3, <1>4, ZenonT(40)
  <2>. QED BY <2>1, <2>2, Zenon DEF CampFixed
<1>7. CampInv(c)'
  <2>1. \A k \in Kinds : admin[k] \in Nat
    BY <1>1 DEF Policy
  <2>. QED BY <1>1, <1>4, <2>1 DEF CampInv
<1>8. ASSUME NEW id \in ID, CampaignOf(id) = c PROVE LeafInv(id)'
  <2>1. LeafInv(id) /\ ~ Planned(id) /\ leaf[id].epoch \in Nat
    BY <1>1, <1>3, <1>8, Zenon DEF IInv, Planned, TypeOK
  <2>0. x.epoch = 1 /\ x.done = {}
    OBVIOUS
  <2>. HIDE DEF x
  <2>2. camp'[CampaignOf(id)].epoch = 1 /\ camp'[CampaignOf(id)].done = {}
    BY <1>4, <1>8, <2>0, Zenon
  <2>3. camp'[CampaignOf(id)].epoch <= leaf[id].epoch + 1
    BY <2>1, <2>2, FirstEpoch, Zenon
  <2>4. /\ leaf' = leaf /\ claimed' = claimed /\ resolved' = resolved
        /\ active' = active /\ epochOf' = epochOf
    BY <1>3, Zenon DEF Aside, ledger, leaves
  <2>. QED BY <2>1, <2>2, <2>3, <2>4, Zenon DEF LeafInv, Unsettled
<1>9. \A id \in ID : CampaignOf(id) = c => ~ Planned(id)
  BY <1>3 DEF Planned
<1>. HIDE DEF x
<1>. QED BY <1>3, <1>4, <1>5, <1>6, <1>7, <1>8, <1>9, CampaignStep, Zenon

\* The other steps that touch only the status of an approved campaign.
LEMMA StatusStep ==
    ASSUME IInv, NEW c \in Campaigns,
           StartTransition(c) \/ PublishEpoch(c) \/ RestartFences(c) \/ Close(c)
    PROVE  IInv'
<1>1. TypeOK /\ CampInv(c) /\ camp[c] \in Campaign /\ admin \in Policy
  BY BudgetAssumption, Zenon DEF IInv, TypeOK, Policy
<1>2. Aside /\ admin' = admin /\ member' = member
  BY Zenon DEF StartTransition, PublishEpoch, RestartFences, Close, Aside
<1>3. camp[c].phase # "New" /\ camp[c].epoch \in Nat
  BY <1>1, Zenon DEF StartTransition, PublishEpoch, RestartFences, Close, CampInv, Campaign
<1>4. \A b \in Campaigns \ {c} : camp'[b] = camp[b]
  BY <1>1 DEF StartTransition, PublishEpoch, RestartFences, Close, TypeOK
<1>5. /\ camp' \in [Campaigns -> Campaign] /\ CampInv(c)'
      /\ camp'[c].phase # "New" /\ camp'[c].frozen = camp[c].frozen /\ camp'[c].site = camp[c].site
      /\ \/ camp'[c].epoch = camp[c].epoch /\ camp'[c].done \in {camp[c].done, {}}
         \/ /\ camp'[c].epoch = camp[c].epoch + 1 /\ camp'[c].done = {}
            /\ camp[c].done = Plan[c]
  <2>1. CASE StartTransition(c)
    <3>. DEFINE s == strictestPolicySnapshot(camp[c].eff, camp[c].frozen, admin)
    <3>1. s \in Policy /\ \A k \in Kinds : s[k] <= camp[c].eff[k]
      BY <1>1, <1>3, Strictest, Zenon DEF CampInv
    <3>. HIDE DEF s
    <3>2. camp'[c] = [camp[c] EXCEPT !.next = s, !.nextSem = admin]
          /\ camp' = [camp EXCEPT ![c] = [camp[c] EXCEPT !.next = s, !.nextSem = admin]]
      BY <1>1, <2>1, Zenon DEF StartTransition, TypeOK, s
    <3>3. [camp[c] EXCEPT !.next = s, !.nextSem = admin] \in Campaign
      BY <1>1, <3>1, Zenon DEF Campaign
    <3>4. s # None
      BY <3>1, BudgetAssumption, Zenon DEF Policy
    <3>5. /\ camp'[c].next = s /\ camp'[c].nextSem = admin /\ camp'[c].phase = camp[c].phase
          /\ camp'[c].frozen = camp[c].frozen /\ camp'[c].site = camp[c].site
          /\ camp'[c].eff = camp[c].eff /\ camp'[c].sem = camp[c].sem
          /\ camp'[c].epoch = camp[c].epoch /\ camp'[c].done = camp[c].done
      BY <1>1, <3>2 DEF Campaign
    <3>6. camp' \in [Campaigns -> Campaign]
      BY <1>1, <3>2, <3>3 DEF TypeOK
    <3>7. CampInv(c)'
      BY <1>1, <1>3, <3>1, <3>4, <3>5, Zenon DEF CampInv
    <3>. QED BY <1>3, <3>5, <3>6, <3>7, ZenonT(40)
  <2>2. CASE PublishEpoch(c)
    <3>. DEFINE y == [camp[c] EXCEPT !.eff = camp[c].next, !.sem = camp[c].nextSem,
                        !.epoch = @ + 1, !.next = None, !.nextSem = None, !.done = {}]
    <3>1. camp' = [camp EXCEPT ![c] = y] /\ camp'[c] = y /\ camp[c].next # None
          /\ camp[c].done = Plan[c]
      BY <1>1, <2>2, Zenon DEF PublishEpoch, TypeOK
    <3>2. y \in Campaign
      <4>1. camp[c].epoch + 1 \in Nat
        BY <1>3, NextEpoch, Zenon
      <4>3. /\ camp[c].phase \in {"New", "Open", "Closed"} /\ camp[c].frozen \in Policy \cup {None}
            /\ camp[c].next \in Policy \cup {None} /\ camp[c].nextSem \in Policy \cup {None}
            /\ camp[c].site \in [Devices -> Sites \cup {None}]
        BY <1>1 DEF Campaign
      <4>. DEFINE a == [camp[c] EXCEPT !.eff = camp[c].next, !.sem = camp[c].nextSem]
                  b == [a EXCEPT !.epoch = camp[c].epoch + 1, !.next = None]
                  e == [b EXCEPT !.nextSem = None, !.done = {}]
      <4>4. a \in Campaign
        BY <1>1, <4>3, Zenon DEF Campaign
      <4>5. b \in Campaign
        <5>. HIDE DEF a
        <5>. QED BY <4>1, <4>4, Zenon DEF Campaign
      <4>6. e \in Campaign
        <5>. HIDE DEF b
        <5>. QED BY <4>5, Zenon DEF Campaign
      <4>7. y = e
        BY <1>1, Zenon DEF Campaign
      <4>. QED BY <4>6, <4>7
    <3>3. /\ y.next = None /\ y.nextSem = None /\ y.phase = camp[c].phase
          /\ y.frozen = camp[c].frozen /\ y.site = camp[c].site
          /\ y.eff = camp[c].next /\ y.sem = camp[c].nextSem
          /\ y.epoch = camp[c].epoch + 1 /\ y.done = {}
      BY <1>1 DEF Campaign
    <3>. HIDE DEF y
    <3>4. camp' \in [Campaigns -> Campaign]
      BY <1>1, <3>1, <3>2, Zenon DEF TypeOK
    <3>5. camp[c].next \in Policy /\ camp[c].eff \in Policy /\ camp[c].frozen \in Policy
      BY <1>1, <1>3, <3>1, ZenonT(40) DEF CampInv, Campaign
    <3>6. \A k \in Kinds : camp[c].next[k] <= camp[c].frozen[k]
      BY <1>1, <1>3, <3>1, <3>5 DEF CampInv, Policy
    <3>7. CampInv(c)'
      <4>1. camp[c].epoch + 1 >= 1
        BY <1>3
      <4>2. camp[c].nextSem \in Policy
        BY <1>1, <3>1, Zenon DEF CampInv
      <4>. QED BY <1>3, <3>1, <3>3, <3>5, <3>6, <4>1, <4>2, Zenon DEF CampInv
    <3>. QED BY <1>3, <3>1, <3>3, <3>4, <3>7, ZenonT(40)
  <2>3. CASE RestartFences(c)
    <3>1. camp' = [camp EXCEPT ![c] = [camp[c] EXCEPT !.done = {}]]
          /\ camp'[c] = [camp[c] EXCEPT !.done = {}]
      BY <1>1, <2>3 DEF RestartFences, TypeOK
    <3>2. [camp[c] EXCEPT !.done = {}] \in Campaign
      BY <1>1 DEF Campaign
    <3>3. /\ camp'[c].next = camp[c].next /\ camp'[c].nextSem = camp[c].nextSem
          /\ camp'[c].phase = camp[c].phase
          /\ camp'[c].frozen = camp[c].frozen /\ camp'[c].site = camp[c].site
          /\ camp'[c].eff = camp[c].eff /\ camp'[c].sem = camp[c].sem
          /\ camp'[c].epoch = camp[c].epoch /\ camp'[c].done = {}
      BY <1>1, <3>1 DEF Campaign
    <3>4. camp' \in [Campaigns -> Campaign]
      BY <1>1, <3>1, <3>2 DEF TypeOK
    <3>5. CampInv(c)'
      BY <1>1, <1>3, <3>3, ZenonT(40) DEF CampInv
    <3>. QED BY <1>3, <3>3, <3>4, <3>5, Zenon
  <2>4. CASE Close(c)
    <3>1. camp' = [camp EXCEPT ![c] = [camp[c] EXCEPT !.phase = "Closed"]]
          /\ camp'[c] = [camp[c] EXCEPT !.phase = "Closed"]
      BY <1>1, <2>4 DEF Close, TypeOK
    <3>2. [camp[c] EXCEPT !.phase = "Closed"] \in Campaign
      BY <1>1 DEF Campaign
    <3>3. /\ camp'[c].next = camp[c].next /\ camp'[c].nextSem = camp[c].nextSem
          /\ camp'[c].phase = "Closed"
          /\ camp'[c].frozen = camp[c].frozen /\ camp'[c].site = camp[c].site
          /\ camp'[c].eff = camp[c].eff /\ camp'[c].sem = camp[c].sem
          /\ camp'[c].epoch = camp[c].epoch /\ camp'[c].done = camp[c].done
      BY <1>1, <3>1 DEF Campaign
    <3>4. camp' \in [Campaigns -> Campaign]
      BY <1>1, <3>1, <3>2, Zenon DEF TypeOK
    <3>5. CampInv(c)'
      BY <1>1, <1>3, <3>3, Zenon DEF CampInv
    <3>. QED BY <1>3, <3>3, <3>4, <3>5, Zenon
  <2>. QED BY <2>1, <2>2, <2>3, <2>4, ZenonT(40)
<1>6. TypeOK'
  BY <1>1, <1>2, <1>5, ZenonT(40) DEF TypeOK, Aside, ledger, leaves, locals
<1>7. CampFixed
  <2>1. \A b \in Campaigns : camp[b].epoch \in Nat
    BY <1>1 DEF TypeOK, Campaign
  <2>2. camp'[c].epoch >= camp[c].epoch
    BY <1>3, <1>5, NextEpoch, Zenon
  <2>3. \A b \in Campaigns \ {c} : camp'[b].epoch >= camp[b].epoch
    BY <1>4, <2>1, NextEpoch, Zenon
  <2>. QED BY <1>3, <1>4, <1>5, <2>2, <2>3, Zenon DEF CampFixed
<1>8. ASSUME NEW id \in ID, CampaignOf(id) = c PROVE LeafInv(id)'
  <2>1. LeafInv(id) /\ leaf[id].epoch \in Nat
    BY <1>1 DEF IInv, TypeOK
  <2>2. CASE camp'[c].epoch = camp[c].epoch /\ camp'[c].done \in {camp[c].done, {}}
    BY <2>1, <2>2, <1>2, <1>3, <1>5, <1>8, ZenonT(40)
    DEF LeafInv, Unsettled, Planned, Aside, ledger, leaves
  <2>3. CASE /\ camp'[c].epoch = camp[c].epoch + 1 /\ camp'[c].done = {}
             /\ camp[c].done = Plan[c]
    <3>1. /\ leaf' = leaf /\ claimed' = claimed /\ resolved' = resolved
          /\ active' = active /\ epochOf' = epochOf
      BY <1>2, Zenon DEF Aside, ledger, leaves
    <3>2. ASSUME Unsettled(id), DeviceOf(id) \in Plan[c]
          PROVE  /\ id \notin active /\ leaf[id].state # "Open"
                 /\ camp'[c].epoch <= leaf[id].epoch + 1
      <4>1. id \notin active /\ leaf[id].state = "Revoked" /\ leaf[id].epoch = camp[c].epoch
        BY <2>1, <2>3, <1>8, <3>2, Zenon DEF LeafInv
      <4>. QED BY <4>1, <2>1, <2>3, <1>3, NextEpoch, Zenon
    <3>3. id \in active \/ leaf[id].state # "None" => DeviceOf(id) \in Plan[c]
      BY <2>1, <1>8, ZenonT(40) DEF LeafInv, Planned
    <3>. QED BY <2>1, <2>3, <1>5, <1>8, <3>1, <3>2, <3>3, Zenon DEF LeafInv, Unsettled, Planned
  <2>. QED BY <1>5, <2>2, <2>3, ZenonT(40)
<1>9. ASSUME NEW m \in Managers, NEW id \in ID, CampaignOf(id) = c, Planned(id), Eligible(m, id)
      PROVE  Eligible(m, id)'
  BY <1>2, <1>3, <1>5, <1>9, Zenon DEF Eligible, Unsettled, Planned, Aside, leaves, locals
<1>. QED BY <1>2, <1>4, <1>5, <1>6, <1>7, <1>8, <1>9, CampaignStep, ZenonT(40)

-----------------------------------------------------------------------------
(* Fences, claims and settlements of one target. *)

\* A step on one target keeps the invariant if its leaf stays well formed and
\* no manager is left with a count or a target that the step has overtaken.
LEMMA TargetStep ==
    ASSUME IInv, TypeOK', NEW id \in ID,
           pc' = pc /\ tgt' = tgt /\ view' = view,
           CampFixed, \A c \in Campaigns : CampInv(c)' /\ camp'[c].epoch = camp[c].epoch,
           \A i \in ID \ {id} :
               /\ leaf'[i] = leaf[i] /\ epochOf'[i] = epochOf[i]
               /\ i \in active' <=> i \in active
               /\ i \in claimed' <=> i \in claimed
               /\ i \in resolved' <=> i \in resolved
               /\ DeviceOf(i) \in camp'[CampaignOf(i)].done <=> DeviceOf(i) \in camp[CampaignOf(i)].done,
           active' \subseteq active, LeafInv(id)',
           \A m \in Managers :
               fresh'[m] => /\ fresh[m] /\ active' = active
                            /\ tgt[m] = id /\ pc[m] = "commit" /\ Eligible(m, id) => Eligible(m, id)'
    PROVE  IInv'
<1>1. TypeOK
  BY ZenonT(40) DEF IInv
<1>2. ASSUME NEW i \in ID PROVE LeafInv(i)'
  <2>1. CASE i # id
    <3>1. LeafInv(i) /\ CampaignOf(i) \in Campaigns
      BY Zenon DEF IInv, ID, CampaignOf
    <3>2. Planned(i) => Planned(i)'
      BY <3>1, ZenonT(40) DEF CampFixed, Planned
    <3>. QED BY <2>1, <3>1, <3>2, ZenonT(40) DEF LeafInv, Unsettled
  <2>. QED BY <2>1, Zenon
<1>3. ASSUME NEW m \in Managers PROVE LocalOK(m)'
  <2>1. ASSUME NEW i \in ID, tgt[m] = i, pc[m] = "commit", fresh'[m], Eligible(m, i)
        PROVE  Eligible(m, i)'
    <3>1. CASE i # id
      <4>1. CampaignOf(i) \in Campaigns
        BY Zenon DEF ID, CampaignOf
      <4>. QED BY <2>1, <3>1, <4>1, ZenonT(40) DEF Eligible, Unsettled
    <3>. QED BY <2>1, <3>1, ZenonT(40)
  <2>2. LocalOK(m)
    BY Zenon DEF IInv
  <2>. QED BY <1>1, <2>1, <2>2, Approved, LocalKept, ZenonT(40)
<1>. QED BY <1>2, <1>3, Assemble, ZenonT(40)

\* A revocation that gives a reservation back, or fences one in flight, leaves
\* no other manager with the old count and none with that target.
LEMMA Releases ==
    ASSUME TypeOK, NEW id \in ID, ReleaseAcquisition(id)
    PROVE  /\ active' = active \ {id} /\ active' \subseteq ID
           /\ epochOf' \in [ID -> Nat] /\ epochOf'[id] = 0
           /\ \A i \in ID \ {id} : epochOf'[i] = epochOf[i]
           /\ active' = {i \in ID : epochOf'[i] # 0}
           /\ fresh' \in [Managers -> BOOLEAN]
           /\ \A m \in Managers :
                 fresh'[m] => fresh[m] /\ active' = active /\ (pc[m] # "idle" => tgt[m] # id)
<1>1. /\ active' = active \ {id} /\ epochOf' = [epochOf EXCEPT ![id] = 0]
      /\ active = {i \in ID : epochOf[i] # 0} /\ epochOf \in [ID -> Nat]
  BY Zenon DEF ReleaseAcquisition, Remove, TypeOK
<1>2. \A m \in Managers :
         fresh'[m] = (fresh[m] /\ ~ (id \in active \/ \E p \in Managers : pc[p] # "idle" /\ tgt[p] = id))
  BY Zenon DEF ReleaseAcquisition, Stale
<1>3. fresh' \in [Managers -> BOOLEAN]
  BY DEF ReleaseAcquisition, Stale, TypeOK
<1>4. active' = {i \in ID : epochOf'[i] # 0}
  BY <1>1
<1>. QED BY <1>1, <1>2, <1>3, <1>4, Zenon

\* The fence of a policy transition.
LEMMA FenceStep ==
    ASSUME IInv, NEW c \in Campaigns, NEW d \in Devices, FenceTarget(c, d)
    PROVE  IInv'
<1>. DEFINE id == <<c, d>>
            y == [camp[c] EXCEPT !.done = @ \cup {d}]
<1>1. /\ TypeOK /\ CampInv(c) /\ camp[c] \in Campaign
      /\ id \in ID /\ CampaignOf(id) = c /\ DeviceOf(id) = d
  BY DEF IInv, TypeOK, ID, CampaignOf, DeviceOf
<1>2. /\ camp[c].next # None /\ d \in Plan[c]
      /\ FenceLeaf(id, camp[c].epoch) /\ UNCHANGED <<admin, member, claimed, resolved, pc, tgt, view>>
      /\ camp' = [camp EXCEPT ![c] = y] /\ camp'[c] = y
      /\ \A b \in Campaigns \ {c} : camp'[b] = camp[b]
  BY <1>1 DEF FenceTarget, TypeOK, claims
<1>13. camp[c].phase # "New"
  BY <1>1, <1>2, Zenon DEF CampInv
<1>3. y \in Campaign
  BY <1>1 DEF Campaign
<1>4. /\ y.next = camp[c].next /\ y.nextSem = camp[c].nextSem /\ y.phase = camp[c].phase
      /\ y.frozen = camp[c].frozen /\ y.site = camp[c].site
      /\ y.eff = camp[c].eff /\ y.sem = camp[c].sem
      /\ y.epoch = camp[c].epoch /\ y.done = camp[c].done \cup {d}
  BY <1>1 DEF Campaign
<1>. HIDE DEF y
<1>5. camp' \in [Campaigns -> Campaign] /\ camp[c].epoch \in Nat
  BY <1>1, <1>2, <1>3, ZenonT(40) DEF TypeOK, Campaign
<1>6. /\ CampFixed
      /\ \A b \in Campaigns : CampInv(b)' /\ camp'[b].epoch = camp[b].epoch
  <2>1. \A b \in Campaigns : camp[b].epoch \in Nat /\ CampInv(b)
    BY <1>1, ZenonT(40) DEF TypeOK, Campaign, IInv
  <2>2. CampFixed
    BY <1>2, <1>4, <1>13, <2>1, NextEpoch, ZenonT(40) DEF CampFixed
  <2>3. CampInv(c)'
    BY <1>1, <1>2, <1>4, <1>13, ZenonT(40) DEF CampInv
  <2>4. \A b \in Campaigns \ {c} : CampInv(b)'
    BY <1>2, <2>1, ZenonT(40) DEF CampInv
  <2>. QED BY <1>2, <1>4, <2>2, <2>3, <2>4, ZenonT(40)
<1>7. \A i \in ID \ {id} : DeviceOf(i) \in camp'[CampaignOf(i)].done
                              <=> DeviceOf(i) \in camp[CampaignOf(i)].done
  <2>1. \A i \in ID \ {id} : CampaignOf(i) \in Campaigns /\ (CampaignOf(i) # c \/ DeviceOf(i) # d)
    BY DEF ID, CampaignOf, DeviceOf
  <2>. QED BY <1>2, <1>4, <2>1, ZenonT(40)
<1>8. LeafInv(id) /\ leaf \in [ID -> [state : {"None", "Open", "Revoked", "Settled"}, epoch : Nat]]
  BY <1>1, Zenon DEF IInv, TypeOK
<1>. HIDE DEF id
<1>9. CASE /\ id \in claimed /\ leaf[id].state # "Settled"
           /\ id \in active /\ epochOf[id] = leaf[id].epoch
           /\ leaf' \in {leaf, [leaf EXCEPT ![id].state = "Revoked"]}
           /\ UNCHANGED <<ledger, fresh>>
  <2>1. /\ leaf' \in [ID -> [state : {"None", "Open", "Revoked", "Settled"}, epoch : Nat]]
        /\ \A i \in ID \ {id} : leaf'[i] = leaf[i]
        /\ leaf'[id].epoch = leaf[id].epoch /\ leaf'[id].state \in {leaf[id].state, "Revoked"}
    BY <1>1, <1>8, <1>9, ZenonT(40)
  <2>2. TypeOK'
    BY <1>1, <1>2, <1>5, <1>9, <2>1, Zenon DEF TypeOK, ledger
  <2>3. LeafInv(id)'
    <3>1. active' = active /\ epochOf' = epochOf /\ claimed' = claimed /\ resolved' = resolved
      BY <1>2, <1>9, Zenon DEF ledger
    <3>2. id \in active /\ epochOf[id] = leaf[id].epoch /\ Planned(id)
      BY <1>8, <1>9, Zenon DEF LeafInv
    <3>3. Planned(id)'
      BY <1>1, <1>2, <1>4, <3>2, ZenonT(40) DEF Planned
    <3>4. leaf'[id].state # "None"
      BY <1>8, <1>9, <2>1, Zenon DEF LeafInv
    <3>. QED BY <1>9, <2>1, <3>1, <3>2, <3>3, <3>4, Zenon DEF LeafInv, Unsettled
  <2>4. \A m \in Managers : Eligible(m, id)'
    BY <1>2, <1>9, <2>1 DEF Eligible, Unsettled
  <2>. QED BY <1>1, <1>2, <1>6, <1>7, <1>9, <2>1, <2>2, <2>3, <2>4, TargetStep, Zenon DEF ledger
<1>10. CASE id \notin claimed /\ leaf[id].state = "Settled" /\ UNCHANGED <<ledger, leaf, fresh>>
  <2>1. TypeOK'
    BY <1>1, <1>2, <1>5, <1>10, ZenonT(40) DEF TypeOK, ledger
  <2>2. LeafInv(id)'
    <3>1. Planned(id)'
      BY <1>1, <1>2, <1>4, <1>13, ZenonT(40) DEF Planned
    <3>2. /\ leaf'[id].state = "Settled" /\ id \notin claimed'
      BY <1>2, <1>10
    <3>. QED BY <3>1, <3>2, Zenon DEF LeafInv, Unsettled
  <2>3. \A m \in Managers : Eligible(m, id)'
    BY <1>10 DEF Eligible, Unsettled
  <2>. QED BY <1>1, <1>2, <1>6, <1>7, <1>10, <2>1, <2>2, <2>3, TargetStep, ZenonT(40) DEF ledger
<1>11. CASE id \notin claimed /\ leaf[id].state # "Settled" /\ Tombstone(id, camp[c].epoch)
  <2>1. /\ leaf' \in [ID -> [state : {"None", "Open", "Revoked", "Settled"}, epoch : Nat]]
        /\ \A i \in ID \ {id} : leaf'[i] = leaf[i]
        /\ leaf'[id].state = "Revoked" /\ leaf'[id].epoch = camp[c].epoch
    BY <1>1, <1>5, <1>8, <1>11, Zenon DEF Tombstone
  <2>2. ReleaseAcquisition(id)
    BY <1>11 DEF Tombstone
  <2>3. TypeOK'
    BY <1>1, <1>2, <1>5, <2>1, <2>2, Releases, ZenonT(40) DEF TypeOK
  <2>4. LeafInv(id)'
    <3>1. id \notin active'
      BY <1>1, <2>2, Releases, Zenon
    <3>2. camp[c].epoch <= camp[c].epoch + 1
      BY <1>5
    <3>3. Planned(id)'
      BY <1>1, <1>2, <1>4, <1>13, ZenonT(40) DEF Planned
    <3>4. id \notin claimed'
      BY <1>2, <1>11
    <3>. QED BY <1>1, <1>2, <1>4, <2>1, <3>1, <3>2, <3>3, <3>4, ZenonT(40) DEF LeafInv, Unsettled
  <2>5. /\ active' = active \ {id}
        /\ \A i \in ID \ {id} : epochOf'[i] = epochOf[i]
        /\ \A m \in Managers :
              fresh'[m] => fresh[m] /\ active' = active /\ (pc[m] = "commit" => tgt[m] # id)
    BY <1>1, <2>2, Releases, Zenon
  <2>. QED BY <1>1, <1>2, <1>6, <1>7, <2>1, <2>3, <2>4, <2>5, TargetStep, ZenonT(40)
<1>. QED BY <1>2, <1>9, <1>10, <1>11, Zenon DEF FenceLeaf

\* The fences of a cancellation, a failure or a new plan.
LEMMA StopStep ==
    ASSUME IInv, NEW id \in ID, StopTarget(id)
    PROVE  IInv'
<1>. DEFINE c == CampaignOf(id)
            epoch == IF leaf[id].epoch = 0 THEN camp[c].epoch ELSE leaf[id].epoch
<1>1. /\ TypeOK /\ c \in Campaigns /\ LeafInv(id)
      /\ leaf \in [ID -> [state : {"None", "Open", "Revoked", "Settled"}, epoch : Nat]]
  BY Zenon DEF IInv, TypeOK, ID, CampaignOf
<1>2. camp[c].epoch \in Nat /\ epoch \in Nat
  BY <1>1 DEF TypeOK, Campaign
<1>3. /\ leaf[id].state # "Settled" /\ UNCHANGED <<admin, member, camp, claimed, resolved, pc, tgt, view>>
      /\ camp[c].phase # "New" /\ DeviceOf(id) \in Plan[c]
  BY Zenon DEF StopTarget, claims
<1>4. CampFixed /\ \A b \in Campaigns : CampInv(b)' /\ camp'[b].epoch = camp[b].epoch
  BY <1>1, <1>3, CampSame DEF IInv
<1>5. CASE /\ id \in claimed
           /\ leaf' = [leaf EXCEPT ![id].state = "Revoked"]
           /\ UNCHANGED <<ledger, fresh>>
  <2>1. /\ leaf' \in [ID -> [state : {"None", "Open", "Revoked", "Settled"}, epoch : Nat]]
        /\ \A i \in ID \ {id} : leaf'[i] = leaf[i]
        /\ leaf'[id].epoch = leaf[id].epoch /\ leaf'[id].state = "Revoked"
    BY <1>1, <1>5
  <2>2. TypeOK'
    BY <1>1, <1>3, <1>5, <2>1, Zenon DEF TypeOK, ledger
  <2>3. LeafInv(id)'
    BY <1>1, <1>3, <1>5, <2>1, Zenon DEF LeafInv, Unsettled, Planned, ledger
  <2>4. \A m \in Managers : Eligible(m, id)'
    BY <1>3, <1>5 DEF Eligible, Unsettled
  <2>. QED BY <1>3, <1>4, <1>5, <2>1, <2>2, <2>3, <2>4, TargetStep, Zenon DEF ledger
<1>6. ASSUME NEW state \in {"Settled", "Revoked"}, id \notin claimed,
             leaf' = [leaf EXCEPT ![id] = [state |-> state, epoch |-> epoch]],
             ReleaseAcquisition(id)
      PROVE  IInv'
  <2>1. /\ leaf' \in [ID -> [state : {"None", "Open", "Revoked", "Settled"}, epoch : Nat]]
        /\ \A i \in ID \ {id} : leaf'[i] = leaf[i]
        /\ leaf'[id].state = state /\ leaf'[id].epoch = epoch
    BY <1>1, <1>2, <1>6, ZenonT(40)
  <2>2. TypeOK'
    BY <1>1, <1>3, <1>6, <2>1, Releases, ZenonT(40) DEF TypeOK
  <2>3. LeafInv(id)'
    <3>1. id \notin active' /\ id \notin claimed'
      BY <1>1, <1>3, <1>6, Releases, Zenon
    <3>2. Planned(id)'
      BY <1>3, Zenon DEF Planned
    <3>3. /\ camp[c].epoch <= leaf[id].epoch + 1
          /\ DeviceOf(id) \in camp[c].done => leaf[id].epoch = camp[c].epoch
      BY <1>1, <1>3, <1>6, Zenon DEF LeafInv, Unsettled
    <3>4. /\ camp[c].epoch <= epoch + 1
          /\ DeviceOf(id) \in camp[c].done => epoch = camp[c].epoch
      BY <1>2, <3>3, NextEpoch, Zenon
    <3>. HIDE DEF epoch
    <3>. QED BY <1>3, <1>6, <2>1, <3>1, <3>2, <3>4, ZenonT(40) DEF LeafInv, Unsettled
  <2>4. /\ active' = active \ {id}
        /\ \A i \in ID \ {id} : epochOf'[i] = epochOf[i]
        /\ \A m \in Managers :
              fresh'[m] => fresh[m] /\ active' = active /\ (pc[m] = "commit" => tgt[m] # id)
    BY <1>1, <1>6, Releases, Zenon
  <2>. QED BY <1>3, <1>4, <2>1, <2>2, <2>3, <2>4, TargetStep, Zenon
<1>. QED BY <1>5, <1>6, Zenon DEF StopTarget

\* A worker's claim and its end, and the two halves of a settlement.
LEMMA ClaimStep ==
    ASSUME IInv, NEW id \in ID, Claim(id) \/ Resolve(id) \/ Settle(id) \/ AcknowledgeSettlement(id)
    PROVE  IInv'
<1>1. /\ TypeOK /\ LeafInv(id)
      /\ leaf \in [ID -> [state : {"None", "Open", "Revoked", "Settled"}, epoch : Nat]]
  BY DEF IInv, TypeOK
<1>2. UNCHANGED <<admin, member, camp, pc, tgt, view>>
  BY ZenonT(40) DEF Claim, Resolve, Settle, AcknowledgeSettlement, locals
<1>3. CampFixed /\ \A b \in Campaigns : CampInv(b)' /\ camp'[b].epoch = camp[b].epoch
  BY <1>1, <1>2, CampSame DEF IInv
<1>4. CASE Claim(id)
  <2>1. /\ leaf[id].state = "Open" /\ id \in active /\ id \notin claimed /\ claimed' = claimed \cup {id}
        /\ resolved' = resolved /\ UNCHANGED <<ledger, leaf>> /\ fresh' \in [Managers -> BOOLEAN]
        /\ \A m \in Managers : fresh'[m] => fresh[m]
    BY <1>1, <1>4, Zenon DEF Claim, Stale, TypeOK
  <2>2. TypeOK'
    BY <1>1, <1>2, <2>1 DEF TypeOK, ledger
  <2>3. LeafInv(id)'
    <3>1. epochOf[id] = leaf[id].epoch
      BY <1>1, <2>1, ZenonT(40) DEF LeafInv, Unsettled
    <3>. QED BY <1>1, <1>2, <2>1, <3>1, ZenonT(40) DEF LeafInv, Unsettled, Planned, ledger
  <2>4. \A m \in Managers : Eligible(m, id)'
    BY <2>1 DEF Eligible, Unsettled
  <2>. QED BY <1>2, <1>3, <2>1, <2>2, <2>3, <2>4, TargetStep, ZenonT(40) DEF ledger
<1>5. CASE Resolve(id)
  <2>1. /\ id \in claimed /\ claimed' = claimed /\ resolved' = resolved \cup {id}
        /\ UNCHANGED <<ledger, leaf, fresh>>
    BY <1>5, Zenon DEF Resolve, locals
  <2>2. TypeOK'
    BY <1>1, <1>2, <2>1, Zenon DEF TypeOK, ledger
  <2>3. LeafInv(id)'
    BY <1>1, <1>2, <2>1, ZenonT(40) DEF LeafInv, Unsettled, Planned, ledger
  <2>4. \A m \in Managers : Eligible(m, id)'
    BY <2>1 DEF Eligible, Unsettled
  <2>. QED BY <1>2, <1>3, <2>1, <2>2, <2>3, <2>4, TargetStep, ZenonT(40) DEF ledger
<1>6. CASE Settle(id)
  <2>1. /\ active' = active \ {id} /\ epochOf' = [epochOf EXCEPT ![id] = 0]
        /\ leaf' = leaf /\ claimed' = claimed /\ resolved' = resolved
        /\ id \notin claimed \ resolved
        /\ fresh' \in [Managers -> BOOLEAN] /\ \A m \in Managers : ~ fresh'[m]
    BY <1>1, <1>6, ZenonT(40) DEF Settle, MaySettle, Remove, Stale, TypeOK, leaves
  <2>2. TypeOK'
    BY <1>1, <1>2, <2>1 DEF TypeOK
  <2>3. LeafInv(id)'
    BY <1>1, <1>2, <2>1, Zenon DEF LeafInv, Unsettled, Planned
  <2>4. \A i \in ID \ {id} : epochOf'[i] = epochOf[i]
    BY <1>1, <2>1 DEF TypeOK
  <2>. QED BY <1>2, <1>3, <2>1, <2>2, <2>3, <2>4, TargetStep, Zenon
<1>7. CASE AcknowledgeSettlement(id)
  <2>1. /\ leaf' \in [ID -> [state : {"None", "Open", "Revoked", "Settled"}, epoch : Nat]]
        /\ \A i \in ID \ {id} : leaf'[i] = leaf[i]
        /\ leaf'[id].state = "Settled"
    BY <1>1, <1>7 DEF AcknowledgeSettlement
  <2>2. /\ id \notin claimed \ resolved /\ leaf[id].state # "None"
        /\ claimed' = claimed /\ resolved' = resolved /\ UNCHANGED <<ledger, fresh>>
    BY <1>7 DEF AcknowledgeSettlement, MaySettle, claims, locals
  <2>3. TypeOK'
    BY <1>1, <1>2, <2>1, <2>2, Zenon DEF TypeOK, ledger
  <2>4. LeafInv(id)'
    BY <1>1, <1>2, <2>1, <2>2, Zenon DEF LeafInv, Unsettled, Planned, ledger
  <2>5. \A m \in Managers : Eligible(m, id)'
    BY <2>1 DEF Eligible, Unsettled
  <2>. QED BY <1>2, <1>3, <2>1, <2>2, <2>3, <2>4, <2>5, TargetStep, ZenonT(40) DEF ledger
<1>. QED BY <1>4, <1>5, <1>6, <1>7, Zenon

-----------------------------------------------------------------------------
(* The managers. *)

\* A step of one manager that adds no reservation: whoever still has a fresh
\* count finds the ledger and the leaves as they were.
LEMMA ManagerStep ==
    ASSUME IInv, TypeOK', camp' = camp, active' \subseteq active, NEW m \in Managers,
           \A id \in ID : LeafInv(id)', LocalOK(m)',
           \A p \in Managers \ {m} :
               /\ pc'[p] = pc[p] /\ tgt'[p] = tgt[p] /\ view'[p] = view[p]
               /\ fresh'[p] => fresh[p] /\ UNCHANGED <<active, leaf, claimed>>
    PROVE  IInv'
<1>1. TypeOK /\ \A c \in Campaigns : camp[c].epoch \in Nat
  BY ZenonT(40) DEF IInv, TypeOK, Campaign
<1>2. CampFixed /\ \A c \in Campaigns : CampInv(c)'
  BY CampSame DEF IInv
<1>3. ASSUME NEW p \in Managers \ {m} PROVE LocalOK(p)'
  <2>1. ASSUME NEW id \in ID, fresh'[p], Eligible(p, id) PROVE Eligible(p, id)'
    BY <2>1, Zenon DEF Eligible, Unsettled
  <2>2. LocalOK(p)
    BY DEF IInv
  <2>. QED BY <1>1, <1>2, <2>1, <2>2, Approved, LocalKept, Zenon
<1>. QED BY <1>2, <1>3, Assemble, Zenon

\* With the ledger and the leaves, the targets stay as they are.
LEMMA LeavesKept ==
    ASSUME IInv, UNCHANGED <<camp, ledger, leaves>>, NEW id \in ID
    PROVE  LeafInv(id)'
BY ZenonT(40) DEF IInv, LeafInv, Unsettled, Planned, ledger, leaves

\* Taking up a target.
LEMMA BeginStep ==
    ASSUME IInv, NEW m \in Managers, NEW id \in ID, Begin(m, id)
    PROVE  IInv'
<1>. DEFINE c == CampaignOf(id)
            v == [epoch |-> camp[c].epoch, eff |-> camp[c].eff,
                  sem |-> camp[c].sem, rearm |-> leaf[id].state = "Revoked"]
<1>1. TypeOK /\ c \in Campaigns /\ CampInv(c) /\ camp[c].epoch \in Nat
  BY DEF IInv, TypeOK, Campaign, ID, CampaignOf
<1>2. /\ camp[c].phase = "Open" /\ DeviceOf(id) \in Plan[c]
      /\ pc' = [pc EXCEPT ![m] = "read"] /\ tgt' = [tgt EXCEPT ![m] = id]
      /\ view' = [view EXCEPT ![m] = v] /\ fresh' = [fresh EXCEPT ![m] = TRUE]
      /\ UNCHANGED <<admin, member, camp, ledger, leaves>>
  BY ZenonT(40) DEF Begin
<1>3. v \in View /\ v.epoch = camp[c].epoch /\ v.eff = camp[c].eff
  BY <1>1, <1>2, ZenonT(40) DEF View, CampInv
<1>. HIDE DEF v
<1>4. TypeOK'
  BY <1>1, <1>2, <1>3, ZenonT(40) DEF TypeOK, ledger, leaves
<1>5. pc'[m] = "read" /\ tgt'[m] = id /\ view'[m] = v
  BY <1>1, <1>2, Zenon DEF TypeOK
<1>6. \A k \in Kinds : camp[c].eff[k] <= camp[c].frozen[k]
  BY <1>1, <1>2, ZenonT(40) DEF CampInv
<1>7. camp[c].epoch >= 1
  BY <1>1, <1>2, ZenonT(40) DEF CampInv
<1>8. LocalFor(m, id)'
  <2>1. camp[c].epoch <= camp[c].epoch
    BY <1>1, NextEpoch, Zenon
  <2>. QED BY <1>2, <1>3, <1>5, <1>6, <1>7, <2>1, Zenon DEF LocalFor, Planned, Frozen
<1>9. LocalOK(m)'
  BY <1>5, <1>8 DEF LocalOK
<1>10. \A p \in Managers \ {m} :
          /\ pc'[p] = pc[p] /\ tgt'[p] = tgt[p] /\ view'[p] = view[p]
          /\ fresh'[p] => fresh[p] /\ UNCHANGED <<active, leaf, claimed>>
  BY <1>1, <1>2, ZenonT(40) DEF TypeOK, ledger, leaves
<1>. QED BY <1>2, <1>4, <1>9, <1>10, LeavesKept, ManagerStep, ZenonT(40) DEF ledger

\* The count: a rearming does not read the campaign, but a leaf that is at most
\* one epoch behind shows that the snapshot's epoch is the current one.
LEMMA EvaluateStep ==
    ASSUME IInv, NEW m \in Managers, Evaluate(m)
    PROVE  IInv'
<1>1. /\ TypeOK /\ LocalOK(m) /\ pc[m] = "read" /\ tgt[m] \in ID
      /\ UNCHANGED <<admin, member, camp, ledger, leaves, tgt, view, fresh>>
  BY ZenonT(40) DEF IInv, Evaluate, LocalOK
<1>2. PICK id \in ID : tgt[m] = id
  BY <1>1, Zenon
<1>. DEFINE c == CampaignOf(id)
<1>3. LocalFor(m, id)
  BY <1>1, <1>2, ZenonT(40) DEF LocalOK
<1>4. /\ c \in Campaigns /\ CampInv(c) /\ LeafInv(id) /\ Counts /\ camp[c].epoch \in Nat
      /\ leaf[id].epoch \in Nat /\ view[m].epoch \in Nat /\ view[m].eff \in Policy
  BY <1>3, ZenonT(40) DEF IInv, TypeOK, Campaign, ID, CampaignOf, LocalFor, View
<1>5. /\ pc' \in [Managers -> {"idle", "read", "commit", "confirm", "bind"}]
      /\ pc'[m] \in {"commit", "confirm"} /\ \A p \in Managers \ {m} : pc'[p] = pc[p]
      /\ pc'[m] = "commit" => Admits(id, view[m].eff)
  BY <1>1, <1>2, ZenonT(40) DEF Evaluate, TypeOK
<1>6. TypeOK'
  BY <1>1, <1>5 DEF TypeOK, ledger, leaves
<1>7. Eligible(m, id)
  <2>1. CASE view[m].rearm
    <3>1. leaf[id].epoch < view[m].epoch
      BY <1>1, <1>2, <2>1, ZenonT(40) DEF Evaluate, Rearmable
    <3>2. DeviceOf(id) \in Plan[c] /\ view[m].epoch <= camp[c].epoch
      BY <1>3, ZenonT(40) DEF LocalFor, Planned
    <3>3. ASSUME Unsettled(id)
          PROVE  view[m].epoch = camp[c].epoch /\ DeviceOf(id) \notin camp[c].done
      <4>1. /\ camp[c].epoch <= leaf[id].epoch + 1
            /\ DeviceOf(id) \in camp[c].done => leaf[id].epoch = camp[c].epoch
        BY <1>4, <3>2, <3>3, Zenon DEF LeafInv
      <4>2. view[m].epoch = camp[c].epoch /\ leaf[id].epoch # camp[c].epoch
        BY <1>4, <3>1, <3>2, <4>1, NoneBetween, ZenonT(40)
      <4>. QED BY <4>1, <4>2, Zenon
    <3>. QED BY <3>3, Zenon DEF Eligible
  <2>2. CASE ~ view[m].rearm
    <3>1. camp[c].next = None /\ camp[c].epoch = view[m].epoch
      BY <1>1, <1>2, <2>2, ZenonT(40) DEF Evaluate, Executes
    <3>. QED BY <1>4, <3>1, ZenonT(40) DEF Eligible, CampInv
  <2>. QED BY <2>1, <2>2
<1>8. ASSUME pc'[m] = "commit" PROVE Room(id)
  <2>1. Frozen(id) \in Policy /\ \A k \in Kinds : view[m].eff[k] <= Frozen(id)[k]
    BY <1>3, <1>4, ZenonT(40) DEF LocalFor, CampInv, Planned, Frozen
  <2>. QED BY <1>1, <1>4, <1>5, <1>8, <2>1, AdmitsRoom, ZenonT(40) DEF Counts
<1>9. CampFixed /\ \A i \in active : Planned(i)
  BY <1>1, Approved, CampSame, Zenon DEF IInv
<1>10. ASSUME pc'[m] = "commit" PROVE Room(id)' /\ Eligible(m, id)'
  <2>1. Room(id)'
    BY <1>1, <1>3, <1>8, <1>9, <1>10, RoomKept, ZenonT(40) DEF LocalFor, ledger
  <2>2. Eligible(m, id)'
    BY <1>1, <1>7, ZenonT(40) DEF Eligible, Unsettled, leaves
  <2>. QED BY <2>1, <2>2
<1>11. LocalFor(m, id)'
  BY <1>1, <1>3, <1>10, ZenonT(40) DEF LocalFor, Planned, Frozen
<1>12. LocalOK(m)'
  BY <1>1, <1>2, <1>11, ZenonT(40) DEF LocalOK
<1>. QED BY <1>1, <1>5, <1>6, <1>12, LeavesKept, ManagerStep, ZenonT(40) DEF ledger, leaves

\* The commit on an unchanged ledger.
LEMMA CommitStep ==
    ASSUME IInv, NEW m \in Managers, Commit(m)
    PROVE  IInv'
<1>1. /\ TypeOK /\ LocalOK(m) /\ pc[m] = "commit" /\ fresh[m] /\ tgt[m] \in ID
      /\ UNCHANGED <<admin, member, camp, leaves, tgt, view>>
  BY ZenonT(40) DEF IInv, Commit, LocalOK
<1>2. PICK id \in ID : tgt[m] = id
  BY <1>1, Zenon
<1>. DEFINE c == CampaignOf(id)
<1>3. LocalFor(m, id) /\ Room(id) /\ Eligible(m, id)
  BY <1>1, <1>2, ZenonT(40) DEF LocalOK, LocalFor
<1>4. /\ c \in Campaigns /\ CampInv(c) /\ LeafInv(id) /\ Counts /\ view[m].epoch \in Nat \ {0}
      /\ Frozen(id) \in Policy
  <2>1. c \in Campaigns
    BY DEF ID, CampaignOf
  <2>2. CampInv(c) /\ LeafInv(id) /\ Counts
    BY <2>1, ZenonT(40) DEF IInv
  <2>3. view[m].epoch \in Nat /\ view[m].epoch >= 1
    BY <1>3, Zenon DEF LocalFor, View
  <2>4. Frozen(id) \in Policy
    BY <1>3, <2>2, Zenon DEF LocalFor, Planned, CampInv, Frozen
  <2>. QED BY <2>1, <2>2, <2>3, <2>4, FirstEpoch, Zenon
<1>5. /\ active' = active \cup {id} /\ epochOf' = [epochOf EXCEPT ![id] = view[m].epoch]
      /\ fresh' \in [Managers -> BOOLEAN] /\ \A p \in Managers : ~ fresh'[p]
      /\ pc' = [pc EXCEPT ![m] = "confirm"]
  BY <1>1, <1>2, ZenonT(40) DEF Commit, Stale, TypeOK
<1>6. TypeOK'
  <2>1. /\ active' = {i \in ID : epochOf'[i] # 0} /\ epochOf' \in [ID -> Nat] /\ active' \subseteq ID
    BY <1>1, <1>4, <1>5 DEF TypeOK
  <2>. QED BY <1>1, <1>5, <2>1, Zenon DEF TypeOK, leaves
<1>7. Counts'
  BY <1>1, <1>3, <1>4, <1>5, CountsAdded, ZenonT(40)
<1>8. CampFixed /\ \A b \in Campaigns : CampInv(b)'
  BY <1>1, <1>1, CampSame, Zenon DEF IInv
<1>9. ASSUME NEW i \in ID PROVE LeafInv(i)'
  <2>1. CASE i = id
    <3>1. id \notin active /\ epochOf'[id] = view[m].epoch
      BY <1>1, <1>3, <1>5, ZenonT(40) DEF Room, TypeOK
    <3>. QED BY <1>1, <1>3, <1>4, <1>5, <2>1, <3>1, ZenonT(40)
         DEF LeafInv, Unsettled, Planned, LocalFor, Eligible, leaves
  <2>2. CASE i # id
    <3>1. LeafInv(i) /\ epochOf'[i] = epochOf[i] /\ (i \in active' <=> i \in active)
      BY <1>1, <1>5, <2>2 DEF IInv, TypeOK
    <3>. QED BY <1>1, <3>1, ZenonT(40) DEF LeafInv, Unsettled, Planned, leaves
  <2>. QED BY <2>1, <2>2
<1>10. ASSUME NEW p \in Managers PROVE LocalOK(p)'
  <2>1. ASSUME NEW i \in ID, pc[p] # "idle", tgt[p] = i PROVE LocalFor(p, i)'
    <3>1. LocalFor(p, i)
      BY <2>1, ZenonT(40) DEF IInv, LocalOK
    <3>. QED BY <1>1, <1>5, <3>1, ZenonT(40) DEF LocalFor, Planned, Frozen
  <2>2. pc'[p] # "idle" => pc[p] # "idle"
    BY <1>1, <1>5 DEF TypeOK
  <2>3. LocalOK(p)
    BY DEF IInv
  <2>. QED BY <1>1, <2>1, <2>2, <2>3, ZenonT(40) DEF LocalOK
<1>. QED BY <1>6, <1>7, <1>8, <1>9, <1>10, Zenon DEF IInv

\* A conflict, and the end of a reconcile: the manager counts again or rests.
LEMMA RestStep ==
    ASSUME IInv, NEW m \in Managers, Conflict(m) \/ Fail(m)
    PROVE  IInv'
<1>1. TypeOK /\ LocalOK(m) /\ UNCHANGED <<admin, member, camp, ledger, leaves>>
  BY DEF IInv, Conflict, Fail
<1>2. /\ pc' \in [Managers -> {"idle", "read", "commit", "confirm", "bind"}]
      /\ tgt' \in [Managers -> ID \cup {None}] /\ view' \in [Managers -> View \cup {None}]
      /\ fresh' \in [Managers -> BOOLEAN]
      /\ \A p \in Managers \ {m} : /\ pc'[p] = pc[p] /\ tgt'[p] = tgt[p] /\ view'[p] = view[p]
                                   /\ fresh'[p] = fresh[p]
      /\ \/ pc'[m] = "idle"
         \/ pc[m] # "idle" /\ pc'[m] = "read" /\ UNCHANGED <<tgt, view>>
  BY <1>1, ZenonT(40) DEF Conflict, Fail, Forget, TypeOK
<1>3. TypeOK'
  BY <1>1, <1>2, Zenon DEF TypeOK, ledger, leaves
<1>4. LocalOK(m)'
  <2>1. ASSUME NEW id \in ID, pc[m] # "idle", pc'[m] = "read", UNCHANGED <<tgt, view>>, tgt[m] = id
        PROVE  LocalFor(m, id)'
    <3>1. LocalFor(m, id)
      BY <1>1, <2>1, Zenon DEF LocalOK
    <3>. QED BY <1>1, <2>1, <3>1, ZenonT(40) DEF LocalFor, Planned, Frozen
  <2>. QED BY <1>1, <1>2, <2>1, Zenon DEF LocalOK
<1>. QED BY <1>1, <1>2, <1>3, <1>4, LeavesKept, ManagerStep, ZenonT(40) DEF ledger, leaves

\* A reservation that no leaf needs may go.
LEMMA RemoveKept ==
    ASSUME IInv, NEW id \in ID, Remove(id), UNCHANGED <<camp, leaves>>, ~ Bound(id)
    PROVE  \A i \in ID : LeafInv(i)'
<1>1. /\ TypeOK /\ active' = active \ {id} /\ epochOf' = [epochOf EXCEPT ![id] = 0]
  BY DEF IInv, Remove
<1>. SUFFICES ASSUME NEW i \in ID PROVE LeafInv(i)'
  BY Zenon
<1>2. LeafInv(i) /\ leaf[i].state \in {"None", "Open", "Revoked", "Settled"}
  BY <1>1 DEF IInv, TypeOK
<1>3. CASE i = id
  BY <1>1, <1>2, <1>3, ZenonT(40) DEF LeafInv, Unsettled, Planned, Bound, leaves
<1>4. CASE i # id
  <2>1. epochOf'[i] = epochOf[i] /\ (i \in active' <=> i \in active)
    BY <1>1, <1>4, Zenon DEF TypeOK
  <2>. QED BY <1>2, <2>1, ZenonT(40) DEF LeafInv, Unsettled, Planned, leaves
<1>. QED BY <1>3, <1>4, Zenon

\* The types after a removal.
LEMMA RemoveType ==
    ASSUME TypeOK, NEW id \in ID, Remove(id)
    PROVE  /\ active' \subseteq active /\ active' \subseteq ID
           /\ epochOf' \in [ID -> Nat] /\ active' = {i \in ID : epochOf'[i] # 0}
<1>1. /\ active' = active \ {id} /\ epochOf' = [epochOf EXCEPT ![id] = 0]
      /\ active = {i \in ID : epochOf[i] # 0} /\ epochOf \in [ID -> Nat]
  BY Zenon DEF Remove, TypeOK
<1>. QED BY <1>1, Zenon

\* The manager forgets its target.
LEMMA Forgets ==
    ASSUME TypeOK, NEW m \in Managers, Forget(m)
    PROVE  /\ pc' \in [Managers -> {"idle", "read", "commit", "confirm", "bind"}]
           /\ tgt' \in [Managers -> ID \cup {None}] /\ view' \in [Managers -> View \cup {None}]
           /\ LocalOK(m)'
           /\ \A p \in Managers \ {m} : pc'[p] = pc[p] /\ tgt'[p] = tgt[p] /\ view'[p] = view[p]
BY DEF Forget, TypeOK, LocalOK

\* The second read of the campaign.
LEMMA ConfirmStep ==
    ASSUME IInv, NEW m \in Managers, Confirm(m)
    PROVE  IInv'
<1>1. /\ TypeOK /\ LocalOK(m) /\ pc[m] = "confirm" /\ tgt[m] \in ID
      /\ UNCHANGED <<admin, member, camp, leaves>>
  BY ZenonT(40) DEF IInv, Confirm, LocalOK
<1>2. CASE pc' = [pc EXCEPT ![m] = "bind"] /\ UNCHANGED <<ledger, tgt, view, fresh>>
  <2>1. TypeOK' /\ pc'[m] = "bind" /\ \A p \in Managers \ {m} : pc'[p] = pc[p]
    BY <1>1, <1>2 DEF TypeOK, ledger, leaves
  <2>2. ASSUME NEW id \in ID, tgt[m] = id PROVE LocalFor(m, id)'
    <3>1. LocalFor(m, id)
      BY <1>1, <2>2, ZenonT(40) DEF LocalOK
    <3>. QED BY <1>1, <1>2, <2>1, <3>1, ZenonT(40) DEF LocalFor, Planned, Frozen
  <2>3. LocalOK(m)'
    BY <1>1, <1>2, <2>2 DEF LocalOK
  <2>. QED BY <1>1, <1>2, <2>1, <2>3, LeavesKept, ManagerStep, Zenon DEF ledger, leaves
<1>3. CASE Forget(m) /\ UNCHANGED <<ledger, fresh>>
  <2>1. TypeOK'
    BY <1>1, <1>3, Forgets, Zenon DEF TypeOK, ledger, leaves
  <2>. QED BY <1>1, <1>3, <2>1, Forgets, LeavesKept, ManagerStep, ZenonT(40) DEF ledger, leaves
<1>4. CASE /\ IF /\ tgt[m] \in active /\ epochOf[tgt[m]] = view[m].epoch
                 /\ ~ Bound(tgt[m])
              THEN Remove(tgt[m]) ELSE UNCHANGED ledger
           /\ Stale(TRUE)
           /\ Forget(m)
  <2>1. fresh' \in [Managers -> BOOLEAN] /\ \A p \in Managers : ~ fresh'[p]
    BY <1>1, <1>4, ZenonT(40) DEF Stale, TypeOK
  <2>2. /\ active' \subseteq active /\ active' \subseteq ID
        /\ epochOf' \in [ID -> Nat] /\ active' = {i \in ID : epochOf'[i] # 0}
    BY <1>1, <1>4, RemoveType, Zenon DEF ledger, TypeOK
  <2>3. TypeOK'
    BY <1>1, <1>4, <2>1, <2>2, Forgets, ZenonT(40) DEF TypeOK, leaves
  <2>4. \A id \in ID : LeafInv(id)'
    BY <1>1, <1>4, RemoveKept, LeavesKept, ZenonT(40)
  <2>. QED BY <1>1, <1>4, <2>1, <2>2, <2>3, <2>4, Forgets, ManagerStep, ZenonT(40)
<1>. QED BY <1>2, <1>3, <1>4, ZenonT(40) DEF Confirm

\* Binding the leaf.
LEMMA BindStep ==
    ASSUME IInv, NEW m \in Managers, Bind(m)
    PROVE  IInv'
<1>1. /\ TypeOK /\ LocalOK(m) /\ pc[m] = "bind" /\ tgt[m] \in ID
      /\ UNCHANGED <<admin, member, camp, claimed, resolved>> /\ Forget(m) /\ Stale(TRUE)
  BY ZenonT(40) DEF IInv, Bind, LocalOK, claims
<1>2. PICK id \in ID : tgt[m] = id
  BY <1>1, ZenonT(40)
<1>. DEFINE c == CampaignOf(id)
<1>3. /\ LocalFor(m, id) /\ LeafInv(id) /\ c \in Campaigns /\ camp[c].epoch \in Nat
      /\ leaf[id].epoch \in Nat /\ view[m].epoch \in Nat /\ CampInv(c)
  BY <1>1, <1>2, ZenonT(40) DEF LocalOK, LocalFor, IInv, TypeOK, Campaign, View, ID, CampaignOf
<1>4. fresh' \in [Managers -> BOOLEAN] /\ \A p \in Managers : ~ fresh'[p]
  BY <1>1, Zenon DEF Stale, TypeOK
<1>5. CASE /\ \/ ~ view[m].rearm /\ leaf[id].state = "None" /\ id \in active /\ epochOf[id] = view[m].epoch
              \/ Rearmable(m) /\ id \in active /\ Executes(m)
           /\ leaf' = [leaf EXCEPT ![id] = [state |-> "Open", epoch |-> view[m].epoch]]
           /\ UNCHANGED ledger
  <2>1. /\ leaf' \in [ID -> [state : {"None", "Open", "Revoked", "Settled"}, epoch : Nat]]
        /\ leaf'[id].state = "Open" /\ leaf'[id].epoch = view[m].epoch
        /\ \A i \in ID \ {id} : leaf'[i] = leaf[i]
    BY <1>1, <1>3, <1>5, ZenonT(40) DEF TypeOK
  <2>2. TypeOK'
    BY <1>1, <1>4, <1>5, <2>1, Forgets, ZenonT(40) DEF TypeOK, ledger
  <2>3. Unsettled(id) /\ id \in active /\ epochOf[id] = view[m].epoch /\ view[m].epoch = camp[c].epoch
    BY <1>2, <1>3, <1>5, ZenonT(40) DEF LeafInv, Unsettled, Rearmable, Executes
  <2>4. DeviceOf(id) \notin camp[c].done
    BY <1>3, <2>3, ZenonT(40) DEF LeafInv
  <2>5. LeafInv(id)'
    <3>1. camp[c].epoch <= view[m].epoch + 1
      BY <1>3, <2>3, NextEpoch, Zenon
    <3>2. active' = active /\ epochOf' = epochOf
      BY <1>5 DEF ledger
    <3>. QED BY <1>1, <1>3, <2>1, <2>3, <2>4, <3>1, <3>2, ZenonT(40) DEF LeafInv, Unsettled, Planned
  <2>6. ASSUME NEW i \in ID \ {id} PROVE LeafInv(i)'
    <3>1. LeafInv(i)
      BY DEF IInv
    <3>. QED BY <1>1, <1>5, <2>1, <3>1, Zenon DEF LeafInv, Unsettled, Planned, ledger
  <2>. QED BY <1>1, <1>4, <1>5, <2>2, <2>5, <2>6, Forgets, ManagerStep, ZenonT(40) DEF ledger
<1>6. CASE /\ leaf[id].state \in {"Revoked", "Settled"} /\ id \notin claimed
           /\ Remove(id) /\ UNCHANGED leaf
  <2>1. ~ Bound(id)
    BY <1>6 DEF Bound
  <2>2. TypeOK' /\ active' \subseteq active
    BY <1>1, <1>4, <1>6, RemoveType, Forgets, ZenonT(40) DEF TypeOK
  <2>. QED BY <1>1, <1>4, <1>6, <2>1, <2>2, Forgets, RemoveKept, ManagerStep, ZenonT(40) DEF leaves
<1>. QED BY <1>2, <1>5, <1>6, ZenonT(40) DEF Bind

-----------------------------------------------------------------------------
(* The theorems. *)

\* Nothing is reserved at first.
LEMMA InitOK == Init => IInv
<1>. SUFFICES ASSUME Init PROVE IInv
  OBVIOUS
<1>1. NoCampaign \in Campaign /\ NoLeaf \in [state : {"None", "Open", "Revoked", "Settled"}, epoch : Nat]
  BY ZenonT(40) DEF NoCampaign, NoLeaf, Campaign
<1>2. TypeOK
  BY <1>1, Zenon DEF Init, TypeOK
<1>3. \A c \in Campaigns : camp[c].phase = "New" /\ camp[c].next = None /\ camp[c].done = {}
                           /\ camp[c].epoch = 0
  BY Zenon DEF Init, NoCampaign
<1>4. \A c \in Campaigns : CampInv(c)
  BY <1>3, Zenon DEF CampInv
<1>5. \A id \in ID : LeafInv(id)
  <2>1. \A id \in ID : CampaignOf(id) \in Campaigns /\ leaf[id].state = "None" /\ leaf[id].epoch = 0
    BY Zenon DEF Init, NoLeaf, ID, CampaignOf
  <2>2. \A id \in ID : camp[CampaignOf(id)].epoch <= leaf[id].epoch + 1
    BY <1>3, <2>1, FirstEpoch, Zenon
  <2>3. active = {} /\ claimed = {}
    BY DEF Init
  <2>. QED BY <1>3, <2>1, <2>2, <2>3, Zenon DEF LeafInv, Unsettled
<1>6. \A m \in Managers : LocalOK(m)
  BY DEF Init, LocalOK
<1>7. Counts
  <2>1. active = {}
    BY Zenon DEF Init
  <2>2. Layered
    BY <2>1, Zenon DEF Layered, Covered, AtSite, InGroup
  <2>. QED BY <2>1, <2>2, Zenon DEF Counts, CampaignWithinApproval, OnePerDevice
<1>. QED BY <1>2, <1>4, <1>5, <1>6, <1>7, Zenon DEF IInv

\* Every step keeps the invariant.
LEMMA StepOK == IInv /\ [Next]_vars => IInv'
<1>. SUFFICES ASSUME IInv, [Next]_vars PROVE IInv'
  BY Zenon
<1>1. ASSUME UNCHANGED <<camp, ledger, leaves, locals>>, admin' \in Policies,
             member' \in [Devices -> [up : BOOLEAN, site : Sites]]
      PROVE  IInv'
  <2>1. TypeOK /\ TypeOK'
    BY <1>1, Zenon DEF IInv, TypeOK, ledger, leaves, locals
  <2>2. CampFixed /\ (\A c \in Campaigns : CampInv(c)') /\ active' \subseteq active
    BY <1>1, <2>1, CampSame DEF IInv, ledger
  <2>3. ASSUME NEW m \in Managers PROVE LocalOK(m)'
    <3>1. LocalOK(m)
      BY DEF IInv
    <3>2. \A id \in ID : Eligible(m, id) => Eligible(m, id)'
      BY <1>1, Zenon DEF Eligible, Unsettled, leaves, locals
    <3>. QED BY <1>1, <2>1, <2>2, <3>1, <3>2, Approved, LocalKept, ZenonT(40) DEF ledger, locals
  <2>. QED BY <1>1, <2>1, <2>2, <2>3, LeavesKept, Assemble, Zenon
<1>2. TypeOK
  BY Zenon DEF IInv
<1>3. CASE UNCHANGED vars
  BY <1>1, <1>2, <1>3, Zenon DEF vars, TypeOK
<1>4. ASSUME NEW p \in Policies, ChangePolicy(p) PROVE IInv'
  BY <1>1, <1>2, <1>4, Zenon DEF ChangePolicy, TypeOK
<1>5. ASSUME NEW d \in Devices, ChangeMember(d) PROVE IInv'
  <2>1. member' \in [Devices -> [up : BOOLEAN, site : Sites]]
    <3>1. CASE member' = [member EXCEPT ![d].up = ~ @]
      <4>1. [member[d] EXCEPT !.up = ~ @] \in [up : BOOLEAN, site : Sites]
        BY <1>2, Zenon DEF TypeOK
      <4>2. member' = [member EXCEPT ![d] = [member[d] EXCEPT !.up = ~ @]]
        BY <1>2, <3>1, Zenon DEF TypeOK
      <4>. QED BY <1>2, <4>1, <4>2, Zenon DEF TypeOK
    <3>2. CASE \E s \in Sites : member' = [member EXCEPT ![d].site = s]
      BY <1>2, <3>2, ZenonT(40) DEF TypeOK
    <3>. QED BY <1>5, <3>1, <3>2, Zenon DEF ChangeMember
  <2>. QED BY <1>1, <1>2, <1>5, <2>1, Zenon DEF ChangeMember, TypeOK
<1>. QED
  BY <1>3, <1>4, <1>5, FreezeStep, StatusStep, FenceStep, BeginStep, EvaluateStep, CommitStep,
     RestStep, ConfirmStep, BindStep, StopStep, ClaimStep, ZenonT(40) DEF Next

\* The inductive invariant holds in every reachable state.
LEMMA Invariant == Spec => []IInv
BY InitOK, StepOK, PTL DEF Spec

\* Budgets: however many managers count and commit at once and however the
\* administrator edits the policy, a campaign's reservations stay within the
\* policy it was approved under and its own ceilings (Reserve, Store.Mutate).
THEOREM WithinApproval == Spec => []CampaignWithinApproval
<1>1. IInv => CampaignWithinApproval
  BY Zenon DEF IInv, Counts
<1>. QED BY <1>1, Invariant, PTL

\* Campaigns approved under different policies together stay within the
\* approval of one of them, in the fleet, at every site and in every group.
THEOREM FleetWithinApproval == Spec => []FleetWithinSomeApproval
<1>1. IInv => FleetWithinSomeApproval
  <2>. SUFFICES ASSUME IInv PROVE FleetWithinSomeApproval
    OBVIOUS
  <2>1. Covered(active, Fleet \cup {"records"})
    BY DEF IInv, Counts, Layered
  <2>2. /\ \A s \in Sites : Covered(AtSite(s), Domain)
        /\ \A g \in Groups : Covered(InGroup(g), Structural)
    BY DEF IInv, Counts, Layered
  <2>3. Fleet \cup {"records"} = {"transfers", "unavailable", "records"}
    BY DEF Fleet
  <2>. QED BY <2>1, <2>2, <2>3 DEF FleetWithinSomeApproval, Domain
<1>. QED BY <1>1, Invariant, PTL

\* The fences before an epoch are complete, although the callback of a Reserve
\* that rearms a leaf does not read the campaign (rearmPolicyEpochLeaf).
THEOREM FencesComplete == Spec => []UnclaimedInCurrentEpoch
<1>1. IInv => UnclaimedInCurrentEpoch
  BY Approved, ZenonT(40) DEF IInv, LeafInv, Unsettled, UnclaimedInCurrentEpoch
<1>. QED BY <1>1, Invariant, PTL

\* No fence, cleanup, epoch or settlement takes the reservation of a claimed
\* mutation whose outcome is open.
THEOREM ClaimsKept == Spec => []ClaimKeepsReservation
<1>1. IInv => ClaimKeepsReservation
  BY Zenon DEF IInv, TypeOK, LeafInv, ClaimKeepsReservation
<1>. QED BY <1>1, Invariant, PTL

\* The types, and that the reservations are those with an epoch.
THEOREM BudgetTypes == Spec => []TypeOK
<1>1. IInv => TypeOK
  BY DEF IInv
<1>. QED BY <1>1, Invariant, PTL

\* Every step leaves a campaign's effective policy alone or publishes the next
\* epoch, whose ceilings are at most the present ones.
LEMMA Tightens ==
    ASSUME IInv, [Next]_vars, NEW c \in Campaigns, camp[c].phase # "New"
    PROVE  /\ camp'[c].frozen = camp[c].frozen
           /\ \/ camp'[c].epoch = camp[c].epoch /\ camp'[c].eff = camp[c].eff
              \/ /\ camp'[c].epoch = camp[c].epoch + 1
                 /\ \A k \in Kinds : camp'[c].eff[k] <= camp[c].eff[k]
<1>1. /\ camp \in [Campaigns -> Campaign] /\ camp[c] \in Campaign /\ CampInv(c)
  BY Zenon DEF IInv, TypeOK
<1>2. CASE camp'[c] = camp[c]
  BY <1>2, Zenon
<1>3. CASE StartTransition(c)
  <2>1. /\ camp'[c].frozen = camp[c].frozen
        /\ camp'[c].epoch = camp[c].epoch /\ camp'[c].eff = camp[c].eff
    BY <1>1, <1>3, Zenon DEF StartTransition, Campaign
  <2>. QED BY <2>1
<1>4. CASE PublishEpoch(c)
  <2>1. /\ camp'[c].frozen = camp[c].frozen
        /\ camp'[c].epoch = camp[c].epoch + 1 /\ camp'[c].eff = camp[c].next
        /\ camp[c].next # None
    BY <1>1, <1>4 DEF PublishEpoch, Campaign
  <2>2. \A k \in Kinds : camp[c].next[k] <= camp[c].eff[k]
    BY <1>1, <2>1, ZenonT(40) DEF CampInv
  <2>. QED BY <2>1, <2>2, Zenon
<1>5. CASE RestartFences(c) \/ Close(c) \/ \E d \in Devices : FenceTarget(c, d)
  <2>1. CASE RestartFences(c)
    BY <1>1, <2>1 DEF RestartFences, Campaign
  <2>2. CASE Close(c)
    BY <1>1, <2>2, Zenon DEF Close, Campaign
  <2>3. ASSUME NEW d \in Devices, FenceTarget(c, d)
        PROVE  /\ camp'[c].frozen = camp[c].frozen
               /\ camp'[c].epoch = camp[c].epoch /\ camp'[c].eff = camp[c].eff
    BY <1>1, <2>3 DEF FenceTarget, Campaign
  <2>. QED BY <1>5, <2>1, <2>2, <2>3, Zenon
<1>6. ASSUME NEW b \in Campaigns \ {c},
             \/ Freeze(b) \/ StartTransition(b) \/ PublishEpoch(b) \/ RestartFences(b) \/ Close(b)
             \/ \E d \in Devices : FenceTarget(b, d)
      PROVE  camp'[c] = camp[c]
  BY <1>1, <1>6, ZenonT(40) DEF Freeze, StartTransition, PublishEpoch, RestartFences, Close, FenceTarget
<1>7. ~ Freeze(c)
  BY Zenon DEF Freeze
<1>8. CASE \E b \in Campaigns :
             \/ Freeze(b) \/ StartTransition(b) \/ PublishEpoch(b) \/ RestartFences(b) \/ Close(b)
             \/ \E d \in Devices : FenceTarget(b, d)
  BY <1>2, <1>3, <1>4, <1>5, <1>6, <1>7, <1>8, Zenon
<1>9. CASE camp' = camp
  BY <1>2, <1>9
<1>. QED
  BY <1>8, <1>9, ZenonT(40) DEF Next, ChangePolicy, ChangeMember, Begin, Evaluate, Commit, Conflict, Confirm,
                    Bind, Fail, StopTarget, Claim, Resolve, Settle, AcknowledgeSettlement, vars

\* Policy epochs advance one at a time and no ceiling rises, whatever the
\* administrator publishes (reconcilePolicyEpoch, strictestPolicySnapshot).
THEOREM EpochsTighten == Spec => EpochsOnlyTighten
<1>1. IInv /\ [Next]_vars =>
         [\A c \in Campaigns : camp[c].phase # "New" =>
             /\ camp'[c].frozen = camp[c].frozen
             /\ \/ camp'[c].epoch = camp[c].epoch /\ camp'[c].eff = camp[c].eff
                \/ /\ camp'[c].epoch = camp[c].epoch + 1
                   /\ \A k \in Kinds : camp'[c].eff[k] <= camp[c].eff[k]]_vars
  BY Tightens
<1>. QED BY <1>1, Invariant, PTL DEF Spec, EpochsOnlyTighten

=============================================================================
