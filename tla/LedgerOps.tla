------------------------------ MODULE LedgerOps ------------------------------
(***************************************************************************)
(* The reservation ledger of internal/topologyrollout: one ConfigMap that  *)
(* holds every active software-upgrade reservation and the fence of the    *)
(* last release.  A transition is a relation between the ledger l that     *)
(* Store.Mutate read and the ledger m that its callback leaves behind; a   *)
(* call that returns an error relates l to nothing.                        *)
(***************************************************************************)
EXTENDS Integers, FiniteSets

CONSTANTS
    Campaigns,  \* rollout UIDs
    Devices,    \* managed devices: physical identity, device UID and Node UID
    Locks,      \* topology-lock acquisition IDs
    Children,   \* UIDs of the leaves (IOSXESoftwareUpgrade objects)
    Tokens,     \* drain session tokens
    None        \* the empty string: no child, no token, no acquisition

\* An empty identity is never the identity of an object.
ASSUME NoneAssumption ==
    /\ None \notin Locks
    /\ None \notin Children
    /\ None \notin Tokens
    /\ None \notin Campaigns \X Devices

\* reservationID(campaignUID, deviceUID): one reservation per frozen target.
ID == Campaigns \X Devices
CampaignOf(id) == id[1]
DeviceOf(id) == id[2]

\* ReservationState, with "Absent" for an ID that is not a key of the map.
States == {"Absent", "Reserved", "Bound", "Draining", "Granted", "Revoked"}

(***************************************************************************)
(* A reservation.  epoch and ver are the policy epoch and resourceVersion  *)
(* of its request, rev the control revision; token, start and done are the *)
(* drain provenance, times are positive and 0 is the empty time.  The rest *)
(* of the request (plan hash, child name, domains, risk groups) is frozen  *)
(* with the target, so id determines it.                                   *)
(***************************************************************************)
Reservation ==
    [state : States, epoch : Nat, ver : Nat, lock : Locks \cup {None},
     child : Children \cup {None}, rev : Nat,
     token : Tokens \cup {None}, start : Nat, done : Nat]

NoReservation ==
    [state |-> "Absent", epoch |-> 0, ver |-> 0, lock |-> None,
     child |-> None, rev |-> 0, token |-> None, start |-> 0, done |-> 0]

ReleaseFence ==
    [id : ID \cup {None}, epoch : Nat, lock : Locks \cup {None},
     token : Tokens \cup {None}, child : Children \cup {None}]

NoFence ==
    [id |-> None, epoch |-> 0, lock |-> None, token |-> None, child |-> None]

Ledger == [res : [ID -> Reservation], fence : ReleaseFence]

NewLedger == [res |-> [id \in ID |-> NoReservation], fence |-> NoFence]

Active(l) == {id \in ID : l.res[id].state # "Absent"}

hasDrainProvenance(r) == r.token # None \/ r.start # 0 \/ r.done # 0

-----------------------------------------------------------------------------
(* What Store.Mutate and Decode require of a persisted ledger. *)

validatePersistedReservation(r) ==
    /\ r.epoch >= 1
    /\ r.lock # None
    /\ hasDrainProvenance(r) => /\ r.token # None
                                /\ r.start # 0
                                /\ r.done # 0 => r.start <= r.done
    /\ CASE r.state = "Reserved" -> r.child = None /\ ~hasDrainProvenance(r)
         [] r.state = "Bound"    -> r.child # None /\ ~hasDrainProvenance(r)
         [] r.state = "Draining" -> r.child # None /\ hasDrainProvenance(r) /\ r.done = 0
         [] r.state = "Granted"  -> r.child # None /\ (hasDrainProvenance(r) => r.done # 0)
         [] r.state = "Revoked"  -> r.child # None
         [] OTHER                -> FALSE

validatePersistedLedger(l) ==
    /\ (l.fence.token = None) <=> (l.fence.child = None)
    /\ \A i \in Active(l) : validatePersistedReservation(l.res[i])
    /\ \A i, j \in Active(l) :
          i # j => /\ DeviceOf(i) # DeviceOf(j)
                   /\ l.res[i].child # None => l.res[i].child # l.res[j].child

-----------------------------------------------------------------------------
(* Release fences: a single slot that remembers the last exact release. *)

releaseFenceMatches(l, id, epoch, lock) ==
    l.fence.id = id /\ l.fence.epoch = epoch /\ l.fence.lock = lock

HasReleaseFence(l, id, epoch, lock) == releaseFenceMatches(l, id, epoch, lock)

\* recordReleaseFence, with the deletion the caller makes after it.
recordReleaseFence(l, m, id, epoch, lock) ==
    /\ ~ (releaseFenceMatches(l, id, epoch, lock) /\ l.fence.token # None)
    /\ m = [res   |-> [l.res EXCEPT ![id] = NoReservation],
            fence |-> [id |-> id, epoch |-> epoch, lock |-> lock,
                       token |-> None, child |-> None]]

\* recordDrainReleaseFence, with the deletion the caller makes after it.
recordDrainReleaseFence(l, m, id, epoch, lock, child, token) ==
    /\ releaseFenceMatches(l, id, epoch, lock) =>
          l.fence.token = token /\ l.fence.child = child
    /\ m = [res   |-> [l.res EXCEPT ![id] = NoReservation],
            fence |-> [id |-> id, epoch |-> epoch, lock |-> lock,
                       token |-> token, child |-> child]]

-----------------------------------------------------------------------------
(* Transitions. *)

\* Mutant of Reserve: the release fence is not consulted.
ReserveUnfenced(l, m, id, epoch, ver, lock, rev, admits) ==
    /\ id \notin Active(l)
    /\ \A i \in Active(l) : DeviceOf(i) # DeviceOf(id)
    /\ admits
    /\ m = [l EXCEPT !.res[id] =
              [NoReservation EXCEPT !.state = "Reserved", !.epoch = epoch,
                   !.ver = ver, !.lock = lock, !.rev = rev]]

\* Reserve after validateInputs; admits is the outcome of the fleet
\* membership, health and budget checks against this same snapshot.
Reserve(l, m, id, epoch, ver, lock, rev, admits) ==
    /\ ~ releaseFenceMatches(l, id, epoch, lock)
    /\ \/ /\ id \in Active(l)
          /\ l.res[id].epoch = epoch /\ l.res[id].ver = ver
          /\ l.res[id].lock = lock /\ l.res[id].rev = rev
          /\ m = l
       \/ /\ id \notin Active(l)
          /\ \A i \in Active(l) : DeviceOf(i) # DeviceOf(id)
          /\ admits
          /\ m = [l EXCEPT !.res[id] =
                    [NoReservation EXCEPT !.state = "Reserved", !.epoch = epoch,
                         !.ver = ver, !.lock = lock, !.rev = rev]]

BindChild(l, m, id, child) ==
    \/ /\ l.res[id].child = child
       /\ l.res[id].state \in {"Bound", "Draining", "Granted", "Revoked"}
       /\ m = l
    \/ /\ l.res[id].state = "Reserved"
       /\ l.res[id].child = None
       /\ m = [l EXCEPT !.res[id] = [@ EXCEPT !.child = child, !.state = "Bound"]]

BeginDrain(l, m, id, child, token, rev, startedAt) ==
    /\ l.res[id].child = child
    /\ \/ /\ l.res[id].state = "Draining"
          /\ l.res[id].token = token
          /\ l.res[id].start = startedAt
          /\ l.res[id].done = 0
       \/ /\ l.res[id].state = "Bound"
          /\ ~ hasDrainProvenance(l.res[id])
    /\ rev >= l.res[id].rev
    /\ m = [l EXCEPT !.res[id] = [@ EXCEPT !.rev = rev, !.state = "Draining",
                                           !.token = token, !.start = startedAt]]

PromoteDrain(l, m, id, child, token, rev, completedAt) ==
    /\ l.res[id].child = child
    /\ l.res[id].token = token
    /\ \/ /\ l.res[id].state = "Granted"
          /\ l.res[id].done = completedAt
       \/ /\ l.res[id].state = "Draining"
          /\ l.res[id].done = 0
          /\ l.res[id].start <= completedAt
    /\ rev >= l.res[id].rev
    /\ m = [l EXCEPT !.res[id] = [@ EXCEPT !.rev = rev, !.state = "Granted",
                                           !.done = completedAt]]

\* Mutant of Grant: a stale control revision is accepted.
GrantStale(l, m, id, child, rev) ==
    /\ ~ hasDrainProvenance(l.res[id])
    /\ l.res[id].state \in {"Bound", "Granted"}
    /\ l.res[id].child = child
    /\ m = [l EXCEPT !.res[id] = [@ EXCEPT !.rev = rev, !.state = "Granted"]]

\* Mutant of Grant: a revoked reservation is granted again.
GrantRevoked(l, m, id, child, rev) ==
    /\ ~ hasDrainProvenance(l.res[id])
    /\ l.res[id].state \in {"Bound", "Granted", "Revoked"}
    /\ l.res[id].child = child
    /\ rev >= l.res[id].rev
    /\ m = [l EXCEPT !.res[id] = [@ EXCEPT !.rev = rev, !.state = "Granted"]]

\* Mutant of Grant: the control revision is stored one too low.
GrantOffByOne(l, m, id, child, rev) ==
    /\ ~ hasDrainProvenance(l.res[id])
    /\ l.res[id].state \in {"Bound", "Granted"}
    /\ l.res[id].child = child
    /\ rev >= l.res[id].rev
    /\ m = [l EXCEPT !.res[id] = [@ EXCEPT !.rev = rev - 1, !.state = "Granted"]]

Grant(l, m, id, child, rev) ==
    /\ ~ hasDrainProvenance(l.res[id])
    /\ l.res[id].state \in {"Bound", "Granted"}
    /\ l.res[id].child = child
    /\ rev >= l.res[id].rev
    /\ m = [l EXCEPT !.res[id] = [@ EXCEPT !.rev = rev, !.state = "Granted"]]

Revoke(l, m, id, rev) ==
    /\ ~ hasDrainProvenance(l.res[id])
    /\ \/ /\ l.res[id].state = "Revoked"
          /\ rev = l.res[id].rev
       \/ /\ l.res[id].state \in {"Reserved", "Bound", "Granted", "Revoked"}
          /\ rev > l.res[id].rev
    /\ m = [l EXCEPT !.res[id] = [@ EXCEPT !.rev = rev, !.state = "Revoked"]]

RevokeDrain(l, m, id, child, token, rev) ==
    /\ l.res[id].child = child
    /\ l.res[id].token = token
    /\ l.res[id].start # 0
    /\ rev >= l.res[id].rev
    /\ l.res[id].state \in {"Draining", "Granted", "Revoked"}
    /\ m = [l EXCEPT !.res[id] = [@ EXCEPT !.rev = rev, !.state = "Revoked"]]

RevokeUnclaimedAtEpoch(l, m, id, lock, child, rev, epoch) ==
    /\ l.res[id].epoch = epoch
    /\ l.res[id].lock = lock
    /\ l.res[id].token = None
    /\ l.res[id].child = child
    /\ child # None
    /\ rev >= l.res[id].rev
    /\ l.res[id].state \in {"Bound", "Granted", "Revoked"}
    /\ m = [l EXCEPT !.res[id] = [@ EXCEPT !.rev = rev, !.state = "Revoked"]]

Settle(l, m, id, lock, child, epoch, outcomeResolved, healthGatePassed) ==
    /\ id \in Active(l) =>
          /\ l.res[id].epoch = epoch
          /\ l.res[id].lock = lock
          /\ l.res[id].token = None
          /\ l.res[id].child = child
          /\ outcomeResolved
          /\ healthGatePassed
          /\ l.res[id].state \in {"Granted", "Revoked"}
    /\ recordReleaseFence(l, m, id, epoch, lock)

SettleDrainedReservation(l, m, id, lock, child, token, epoch, outcome, health, recovery) ==
    /\ outcome
    /\ health
    /\ recovery
    /\ id \in Active(l) =>
          /\ l.res[id].epoch = epoch
          /\ l.res[id].lock = lock
          /\ l.res[id].child = child
          /\ \/ /\ l.res[id].state = "Bound"
                /\ ~ hasDrainProvenance(l.res[id])
             \/ /\ l.res[id].state \in {"Draining", "Granted", "Revoked"}
                /\ l.res[id].token = token
    /\ recordDrainReleaseFence(l, m, id, epoch, lock, child, token)

\* Mutant of ReleaseUnclaimedAtEpoch: drain provenance is not refused.
ReleaseUnclaimedDrained(l, m, id, lock, child, rev, epoch) ==
    /\ id \in Active(l) =>
          /\ l.res[id].epoch = epoch
          /\ l.res[id].lock = lock
          /\ rev >= l.res[id].rev
          /\ \/ /\ l.res[id].state = "Reserved"
                /\ l.res[id].child = None
             \/ /\ l.res[id].state = "Revoked"
                /\ child # None
                /\ l.res[id].child = child
    /\ recordReleaseFence(l, m, id, epoch, lock)

\* Mutant of ReleaseUnclaimedAtEpoch: a granted reservation counts as unclaimed.
ReleaseUnclaimedGranted(l, m, id, lock, child, rev, epoch) ==
    /\ id \in Active(l) =>
          /\ l.res[id].epoch = epoch
          /\ l.res[id].lock = lock
          /\ rev >= l.res[id].rev
          /\ l.res[id].token = None
          /\ child # None => l.res[id].child = child
    /\ recordReleaseFence(l, m, id, epoch, lock)

\* releaseUnclaimed; child is None when the caller has no leaf.
ReleaseUnclaimedAtEpoch(l, m, id, lock, child, rev, epoch) ==
    /\ id \in Active(l) =>
          /\ l.res[id].epoch = epoch
          /\ l.res[id].lock = lock
          /\ rev >= l.res[id].rev
          /\ l.res[id].token = None
          /\ \/ /\ l.res[id].state = "Reserved"
                /\ l.res[id].child = None
             \/ /\ l.res[id].state = "Revoked"
                /\ child # None
                /\ l.res[id].child = child
    /\ recordReleaseFence(l, m, id, epoch, lock)

FenceUnboundAcquisition(l, m, id, epoch, lock) ==
    /\ id \in Active(l) =>
          /\ l.res[id].epoch = epoch
          /\ l.res[id].lock = lock
          /\ l.res[id].state = "Reserved"
          /\ l.res[id].child = None
    /\ recordReleaseFence(l, m, id, epoch, lock)

=============================================================================
