------------------------ MODULE RolloutLedger_proofs ------------------------
(***************************************************************************)
(* The ledger's properties for every set of campaigns, devices, epochs and *)
(* revisions.  Every transition either updates one live reservation and    *)
(* keeps the fence, or deletes one reservation and fences it; lemmas       *)
(* Updates and Releases say so and carry all the theorems.                 *)
(***************************************************************************)
EXTENDS RolloutLedger, TLAPS

\* What a transition that keeps the reservation of id may do to the ledger.
Update(l, m, id) ==
    \E r \in Reservation :
        /\ r.state # "Absent"
        /\ m = [l EXCEPT !.res[id] = r]
        /\ IF l.res[id].state = "Absent"
           THEN /\ r.state = "Reserved"
                /\ ~ releaseFenceMatches(l, id, r.epoch, r.lock)
                /\ \A i \in Active(l) : DeviceOf(i) # DeviceOf(id)
           ELSE /\ r.epoch = l.res[id].epoch
                /\ r.lock = l.res[id].lock
                /\ l.res[id].child # None => r.child = l.res[id].child
                /\ r.rev >= l.res[id].rev
                /\ l.res[id].token # None => /\ r.token = l.res[id].token
                                             /\ r.start = l.res[id].start
                /\ l.res[id].state = "Revoked" => r.state = "Revoked"
                /\ l.res[id].state = "Granted" => r.state \in {"Granted", "Revoked"}

\* What a transition that releases id's acquisition may do to the ledger.
Release(l, m, id, proven) ==
    \E f \in ReleaseFence :
        /\ f.id = id
        /\ m = [res |-> [l.res EXCEPT ![id] = NoReservation], fence |-> f]
        /\ l.res[id].state # "Absent" =>
              /\ f.epoch = l.res[id].epoch
              /\ f.lock = l.res[id].lock
              /\ l.res[id].token # None => /\ f.token = l.res[id].token
                                           /\ f.child = l.res[id].child
              /\ l.res[id].state = "Granted" => l.res[id].child \in proven

\* Reserve, the first writer of an identity.
LEMMA ReserveUpdates ==
    ASSUME NEW id \in ID, ledger \in Ledger, DoReserve(id)
    PROVE  ledger' = ledger \/ Update(ledger, ledger', id)
<1>1. PICK e \in Epochs, v \in Versions, k \in Locks, r \in Revs, admits \in BOOLEAN :
        Reserve(ledger, ledger', id, e, v, k, r, admits)
  BY DEF DoReserve
<1>2. CASE id \in Active(ledger)
  BY <1>1, <1>2 DEF Reserve
<1>3. CASE id \notin Active(ledger)
  <2> DEFINE new == [NoReservation EXCEPT !.state = "Reserved", !.epoch = e,
                         !.ver = v, !.lock = k, !.rev = r]
  <2>1. new \in Reservation
    BY BoundsAssumption, Zenon DEF Reservation, NoReservation, States
  <2>2. ledger' = [ledger EXCEPT !.res[id] = new]
    BY <1>1, <1>3 DEF Reserve
  <2>3. new.state = "Reserved" /\ new.epoch = e /\ new.lock = k
    BY DEF NoReservation
  <2>4. /\ ~ releaseFenceMatches(ledger, id, new.epoch, new.lock)
        /\ \A i \in Active(ledger) : DeviceOf(i) # DeviceOf(id)
    BY <1>1, <1>3, <2>3 DEF Reserve
  <2>5. ledger.res[id].state = "Absent"
    BY <1>3 DEF Active
  <2> HIDE DEF new
  <2> QED BY <2>1, <2>2, <2>3, <2>4, <2>5, Zenon DEF Update
<1> QED BY <1>2, <1>3

\* BeginDrain, with the first session or the same one again.
LEMMA BeginDrainUpdates ==
    ASSUME NEW id \in ID, ledger \in Ledger, DoBeginDrain(id)
    PROVE  Update(ledger, ledger', id)
<1>1. PICK c \in Children, t \in Tokens, r \in Revs, s \in Times :
        BeginDrain(ledger, ledger', id, c, t, r, s)
  BY DEF DoBeginDrain
<1> DEFINE new == [ledger.res[id] EXCEPT !.rev = r, !.state = "Draining", !.token = t, !.start = s]
<1>2. ledger.res[id] \in Reservation
  BY DEF Ledger
<1>3. new \in Reservation
  BY <1>2, BoundsAssumption, Zenon DEF Reservation, States
<1>4. ledger' = [ledger EXCEPT !.res[id] = new]
  BY <1>1 DEF BeginDrain
<1>5. ledger.res[id].state # "Absent" /\ new.state # "Absent"
  BY <1>1, <1>2 DEF BeginDrain, Reservation
<1>6. /\ new.epoch = ledger.res[id].epoch
      /\ new.lock = ledger.res[id].lock
      /\ ledger.res[id].child # None => new.child = ledger.res[id].child
      /\ new.rev >= ledger.res[id].rev
      /\ ledger.res[id].token # None => /\ new.token = ledger.res[id].token
                                        /\ new.start = ledger.res[id].start
      /\ ledger.res[id].state = "Revoked" => new.state = "Revoked"
      /\ ledger.res[id].state = "Granted" => new.state \in {"Granted", "Revoked"}
  BY <1>1, <1>2 DEF BeginDrain, Reservation, hasDrainProvenance
<1> HIDE DEF new
<1> QED BY <1>3, <1>4, <1>5, <1>6, Zenon DEF Update

\* PromoteDrain keeps the session.
LEMMA PromoteDrainUpdates ==
    ASSUME NEW id \in ID, ledger \in Ledger, DoPromoteDrain(id)
    PROVE  Update(ledger, ledger', id)
<1>1. PICK c \in Children, t \in Tokens, r \in Revs, d \in Times :
        PromoteDrain(ledger, ledger', id, c, t, r, d)
  BY DEF DoPromoteDrain
<1> DEFINE new == [ledger.res[id] EXCEPT !.rev = r, !.state = "Granted", !.done = d]
<1>2. ledger.res[id] \in Reservation
  BY DEF Ledger
<1>3. new \in Reservation
  BY <1>2, BoundsAssumption, Zenon DEF Reservation, States
<1>4. ledger' = [ledger EXCEPT !.res[id] = new]
  BY <1>1 DEF PromoteDrain
<1>5. ledger.res[id].state # "Absent" /\ new.state # "Absent"
  BY <1>1, <1>2 DEF PromoteDrain, Reservation
<1>6. /\ new.epoch = ledger.res[id].epoch
      /\ new.lock = ledger.res[id].lock
      /\ ledger.res[id].child # None => new.child = ledger.res[id].child
      /\ new.rev >= ledger.res[id].rev
      /\ ledger.res[id].token # None => /\ new.token = ledger.res[id].token
                                        /\ new.start = ledger.res[id].start
      /\ ledger.res[id].state = "Revoked" => new.state = "Revoked"
      /\ ledger.res[id].state = "Granted" => new.state \in {"Granted", "Revoked"}
  BY <1>1, <1>2 DEF PromoteDrain, Reservation, hasDrainProvenance
<1> HIDE DEF new
<1> QED BY <1>3, <1>4, <1>5, <1>6, Zenon DEF Update

\* Grant.
LEMMA GrantUpdates ==
    ASSUME NEW id \in ID, ledger \in Ledger, DoGrant(id)
    PROVE  Update(ledger, ledger', id)
<1>1. PICK c \in Children, r \in Revs :
        Grant(ledger, ledger', id, c, r)
  BY DEF DoGrant
<1> DEFINE new == [ledger.res[id] EXCEPT !.rev = r, !.state = "Granted"]
<1>2. ledger.res[id] \in Reservation
  BY DEF Ledger
<1>3. new \in Reservation
  BY <1>2, BoundsAssumption, Zenon DEF Reservation, States
<1>4. ledger' = [ledger EXCEPT !.res[id] = new]
  BY <1>1 DEF Grant
<1>5. ledger.res[id].state # "Absent" /\ new.state # "Absent"
  BY <1>1, <1>2 DEF Grant, Reservation
<1>6. /\ new.epoch = ledger.res[id].epoch
      /\ new.lock = ledger.res[id].lock
      /\ ledger.res[id].child # None => new.child = ledger.res[id].child
      /\ new.rev >= ledger.res[id].rev
      /\ ledger.res[id].token # None => /\ new.token = ledger.res[id].token
                                        /\ new.start = ledger.res[id].start
      /\ ledger.res[id].state = "Revoked" => new.state = "Revoked"
      /\ ledger.res[id].state = "Granted" => new.state \in {"Granted", "Revoked"}
  BY <1>1, <1>2 DEF Grant, Reservation, hasDrainProvenance
<1> HIDE DEF new
<1> QED BY <1>3, <1>4, <1>5, <1>6, Zenon DEF Update

\* Revoke.
LEMMA RevokeUpdates ==
    ASSUME NEW id \in ID, ledger \in Ledger, DoRevoke(id)
    PROVE  Update(ledger, ledger', id)
<1>1. PICK r \in Revs :
        Revoke(ledger, ledger', id, r)
  BY DEF DoRevoke
<1> DEFINE new == [ledger.res[id] EXCEPT !.rev = r, !.state = "Revoked"]
<1>2. ledger.res[id] \in Reservation
  BY DEF Ledger
<1>3. new \in Reservation
  BY <1>2, BoundsAssumption, Zenon DEF Reservation, States
<1>4. ledger' = [ledger EXCEPT !.res[id] = new]
  BY <1>1 DEF Revoke
<1>5. ledger.res[id].state # "Absent" /\ new.state # "Absent"
  BY <1>1, <1>2 DEF Revoke, Reservation
<1>6. /\ new.epoch = ledger.res[id].epoch
      /\ new.lock = ledger.res[id].lock
      /\ ledger.res[id].child # None => new.child = ledger.res[id].child
      /\ new.rev >= ledger.res[id].rev
      /\ ledger.res[id].token # None => /\ new.token = ledger.res[id].token
                                        /\ new.start = ledger.res[id].start
      /\ ledger.res[id].state = "Revoked" => new.state = "Revoked"
      /\ ledger.res[id].state = "Granted" => new.state \in {"Granted", "Revoked"}
  BY <1>1, <1>2, BoundsAssumption DEF Revoke, Reservation, hasDrainProvenance
<1> HIDE DEF new
<1> QED BY <1>3, <1>4, <1>5, <1>6, Zenon DEF Update

\* RevokeDrain.
LEMMA RevokeDrainUpdates ==
    ASSUME NEW id \in ID, ledger \in Ledger, DoRevokeDrain(id)
    PROVE  Update(ledger, ledger', id)
<1>1. PICK c \in Children, t \in Tokens, r \in Revs :
        RevokeDrain(ledger, ledger', id, c, t, r)
  BY DEF DoRevokeDrain
<1> DEFINE new == [ledger.res[id] EXCEPT !.rev = r, !.state = "Revoked"]
<1>2. ledger.res[id] \in Reservation
  BY DEF Ledger
<1>3. new \in Reservation
  BY <1>2, BoundsAssumption, Zenon DEF Reservation, States
<1>4. ledger' = [ledger EXCEPT !.res[id] = new]
  BY <1>1 DEF RevokeDrain
<1>5. ledger.res[id].state # "Absent" /\ new.state # "Absent"
  BY <1>1, <1>2 DEF RevokeDrain, Reservation
<1>6. /\ new.epoch = ledger.res[id].epoch
      /\ new.lock = ledger.res[id].lock
      /\ ledger.res[id].child # None => new.child = ledger.res[id].child
      /\ new.rev >= ledger.res[id].rev
      /\ ledger.res[id].token # None => /\ new.token = ledger.res[id].token
                                        /\ new.start = ledger.res[id].start
      /\ ledger.res[id].state = "Revoked" => new.state = "Revoked"
      /\ ledger.res[id].state = "Granted" => new.state \in {"Granted", "Revoked"}
  BY <1>1, <1>2 DEF RevokeDrain, Reservation, hasDrainProvenance
<1> HIDE DEF new
<1> QED BY <1>3, <1>4, <1>5, <1>6, Zenon DEF Update

\* RevokeUnclaimedAtEpoch.
LEMMA RevokeUnclaimedUpdates ==
    ASSUME NEW id \in ID, ledger \in Ledger, DoRevokeUnclaimed(id)
    PROVE  Update(ledger, ledger', id)
<1>1. PICK k \in Locks, c \in Children, r \in Revs, e \in Epochs :
        RevokeUnclaimedAtEpoch(ledger, ledger', id, k, c, r, e)
  BY DEF DoRevokeUnclaimed
<1> DEFINE new == [ledger.res[id] EXCEPT !.rev = r, !.state = "Revoked"]
<1>2. ledger.res[id] \in Reservation
  BY DEF Ledger
<1>3. new \in Reservation
  BY <1>2, BoundsAssumption, Zenon DEF Reservation, States
<1>4. ledger' = [ledger EXCEPT !.res[id] = new]
  BY <1>1 DEF RevokeUnclaimedAtEpoch
<1>5. ledger.res[id].state # "Absent" /\ new.state # "Absent"
  BY <1>1, <1>2 DEF RevokeUnclaimedAtEpoch, Reservation
<1>6. /\ new.epoch = ledger.res[id].epoch
      /\ new.lock = ledger.res[id].lock
      /\ ledger.res[id].child # None => new.child = ledger.res[id].child
      /\ new.rev >= ledger.res[id].rev
      /\ ledger.res[id].token # None => /\ new.token = ledger.res[id].token
                                        /\ new.start = ledger.res[id].start
      /\ ledger.res[id].state = "Revoked" => new.state = "Revoked"
      /\ ledger.res[id].state = "Granted" => new.state \in {"Granted", "Revoked"}
  BY <1>1, <1>2 DEF RevokeUnclaimedAtEpoch, Reservation, hasDrainProvenance
<1> HIDE DEF new
<1> QED BY <1>3, <1>4, <1>5, <1>6, Zenon DEF Update

\* BindChild.
LEMMA BindChildUpdates ==
    ASSUME NEW id \in ID, ledger \in Ledger, DoBindChild(id)
    PROVE  ledger' = ledger \/ Update(ledger, ledger', id)
<1>1. PICK c \in Children : BindChild(ledger, ledger', id, c)
  BY DEF DoBindChild
<1>2. CASE ledger.res[id].child = c /\ ledger' = ledger
  BY <1>2
<1>3. CASE /\ ledger.res[id].state = "Reserved"
           /\ ledger.res[id].child = None
           /\ ledger' = [ledger EXCEPT !.res[id] = [@ EXCEPT !.child = c, !.state = "Bound"]]
  <2> DEFINE new == [ledger.res[id] EXCEPT !.child = c, !.state = "Bound"]
  <2>1. ledger.res[id] \in Reservation
    BY DEF Ledger
  <2>2. new \in Reservation
    BY <2>1, Zenon DEF Reservation, States
  <2>3. ledger' = [ledger EXCEPT !.res[id] = new]
    BY <1>3
  <2>4. /\ new.state = "Bound"
        /\ new.epoch = ledger.res[id].epoch
        /\ new.lock = ledger.res[id].lock
        /\ new.rev >= ledger.res[id].rev
        /\ new.token = ledger.res[id].token
        /\ new.start = ledger.res[id].start
    BY <2>1 DEF Reservation
  <2> HIDE DEF new
  <2> QED BY <1>3, <2>2, <2>3, <2>4, Zenon DEF Update
<1> QED BY <1>1, <1>2, <1>3 DEF BindChild

\* Settle.
LEMMA SettleReleases ==
    ASSUME NEW id \in ID, ledger \in Ledger, validatePersistedLedger(ledger), DoSettle(id)
    PROVE  Release(ledger, ledger', id, resolved)
<1>1. PICK k \in Locks, c \in Children, e \in Epochs :
        Settle(ledger, ledger', id, k, c, e, c \in resolved, c \in resolved)
  BY DEF DoSettle
<1> DEFINE f == [id |-> id, epoch |-> e, lock |-> k, token |-> None, child |-> None]
<1>2. f \in ReleaseFence
  BY BoundsAssumption DEF ReleaseFence
<1>3. ledger' = [res |-> [ledger.res EXCEPT ![id] = NoReservation], fence |-> f]
  BY <1>1 DEF Settle, recordReleaseFence
<1>4. ASSUME ledger.res[id].state # "Absent"
      PROVE  /\ f.epoch = ledger.res[id].epoch
             /\ f.lock = ledger.res[id].lock
             /\ ledger.res[id].token # None => /\ f.token = ledger.res[id].token
                                               /\ f.child = ledger.res[id].child
             /\ ledger.res[id].state = "Granted" => ledger.res[id].child \in resolved
  <2>1. id \in Active(ledger)
    BY <1>4 DEF Active
  <2>2. validatePersistedReservation(ledger.res[id])
    BY <2>1 DEF validatePersistedLedger
  <2> QED BY <1>1, <2>1, <2>2 DEF Settle, validatePersistedReservation, hasDrainProvenance
<1>5. f.id = id
  OBVIOUS
<1> HIDE DEF f
<1> QED BY <1>2, <1>3, <1>4, <1>5, Zenon DEF Release

\* SettleDrainedReservation.
LEMMA SettleDrainedReleases ==
    ASSUME NEW id \in ID, ledger \in Ledger, validatePersistedLedger(ledger), DoSettleDrained(id)
    PROVE  Release(ledger, ledger', id, resolved)
<1>1. PICK k \in Locks, c \in Children, t \in Tokens, e \in Epochs, recovered \in BOOLEAN :
        SettleDrainedReservation(ledger, ledger', id, k, c, t, e,
                                 c \in resolved, c \in resolved, recovered)
  BY DEF DoSettleDrained
<1> DEFINE f == [id |-> id, epoch |-> e, lock |-> k, token |-> t, child |-> c]
<1>2. f \in ReleaseFence
  BY BoundsAssumption DEF ReleaseFence
<1>3. ledger' = [res |-> [ledger.res EXCEPT ![id] = NoReservation], fence |-> f]
  BY <1>1 DEF SettleDrainedReservation, recordDrainReleaseFence
<1>4. ASSUME ledger.res[id].state # "Absent"
      PROVE  /\ f.epoch = ledger.res[id].epoch
             /\ f.lock = ledger.res[id].lock
             /\ ledger.res[id].token # None => /\ f.token = ledger.res[id].token
                                               /\ f.child = ledger.res[id].child
             /\ ledger.res[id].state = "Granted" => ledger.res[id].child \in resolved
  <2>1. id \in Active(ledger)
    BY <1>4 DEF Active
  <2>2. validatePersistedReservation(ledger.res[id])
    BY <2>1 DEF validatePersistedLedger
  <2> QED BY <1>1, <2>1, <2>2 DEF SettleDrainedReservation, validatePersistedReservation, hasDrainProvenance
<1>5. f.id = id
  OBVIOUS
<1> HIDE DEF f
<1> QED BY <1>2, <1>3, <1>4, <1>5, Zenon DEF Release

\* ReleaseUnclaimedAtEpoch.
LEMMA ReleaseUnclaimedReleases ==
    ASSUME NEW id \in ID, ledger \in Ledger, validatePersistedLedger(ledger), DoReleaseUnclaimed(id)
    PROVE  Release(ledger, ledger', id, resolved)
<1>1. PICK k \in Locks, c \in Children \cup {None}, r \in Revs, e \in Epochs :
        ReleaseUnclaimedAtEpoch(ledger, ledger', id, k, c, r, e)
  BY DEF DoReleaseUnclaimed
<1> DEFINE f == [id |-> id, epoch |-> e, lock |-> k, token |-> None, child |-> None]
<1>2. f \in ReleaseFence
  BY BoundsAssumption DEF ReleaseFence
<1>3. ledger' = [res |-> [ledger.res EXCEPT ![id] = NoReservation], fence |-> f]
  BY <1>1 DEF ReleaseUnclaimedAtEpoch, recordReleaseFence
<1>4. ASSUME ledger.res[id].state # "Absent"
      PROVE  /\ f.epoch = ledger.res[id].epoch
             /\ f.lock = ledger.res[id].lock
             /\ ledger.res[id].token # None => /\ f.token = ledger.res[id].token
                                               /\ f.child = ledger.res[id].child
             /\ ledger.res[id].state = "Granted" => ledger.res[id].child \in resolved
  <2>1. id \in Active(ledger)
    BY <1>4 DEF Active
  <2>2. validatePersistedReservation(ledger.res[id])
    BY <2>1 DEF validatePersistedLedger
  <2> QED BY <1>1, <2>1, <2>2 DEF ReleaseUnclaimedAtEpoch, validatePersistedReservation, hasDrainProvenance
<1>5. f.id = id
  OBVIOUS
<1> HIDE DEF f
<1> QED BY <1>2, <1>3, <1>4, <1>5, Zenon DEF Release

\* FenceUnboundAcquisition.
LEMMA FenceUnboundReleases ==
    ASSUME NEW id \in ID, ledger \in Ledger, validatePersistedLedger(ledger), DoFenceUnbound(id)
    PROVE  Release(ledger, ledger', id, resolved)
<1>1. PICK k \in Locks, e \in Epochs :
        FenceUnboundAcquisition(ledger, ledger', id, e, k)
  BY DEF DoFenceUnbound
<1> DEFINE f == [id |-> id, epoch |-> e, lock |-> k, token |-> None, child |-> None]
<1>2. f \in ReleaseFence
  BY BoundsAssumption DEF ReleaseFence
<1>3. ledger' = [res |-> [ledger.res EXCEPT ![id] = NoReservation], fence |-> f]
  BY <1>1 DEF FenceUnboundAcquisition, recordReleaseFence
<1>4. ASSUME ledger.res[id].state # "Absent"
      PROVE  /\ f.epoch = ledger.res[id].epoch
             /\ f.lock = ledger.res[id].lock
             /\ ledger.res[id].token # None => /\ f.token = ledger.res[id].token
                                               /\ f.child = ledger.res[id].child
             /\ ledger.res[id].state = "Granted" => ledger.res[id].child \in resolved
  <2>1. id \in Active(ledger)
    BY <1>4 DEF Active
  <2>2. validatePersistedReservation(ledger.res[id])
    BY <2>1 DEF validatePersistedLedger
  <2> QED BY <1>1, <2>1, <2>2 DEF FenceUnboundAcquisition, validatePersistedReservation, hasDrainProvenance
<1>5. f.id = id
  OBVIOUS
<1> HIDE DEF f
<1> QED BY <1>2, <1>3, <1>4, <1>5, Zenon DEF Release

-----------------------------------------------------------------------------
(* The inductive invariant: the ledger validates, and the fence holds. *)

LedgerInv == TypeOK /\ validatePersistedLedger(ledger) /\ FenceExcludesReservation

\* Every step of the specification leaves the ledger alone, updates one
\* reservation or releases one.
LEMMA StepShape ==
    ASSUME ledger \in Ledger, validatePersistedLedger(ledger), [Next]_vars
    PROVE  \/ ledger' = ledger
           \/ \E id \in ID : Update(ledger, ledger', id) \/ Release(ledger, ledger', id, resolved)
<1>1. CASE UNCHANGED vars
  BY <1>1 DEF vars
<1>2. CASE \E c \in Children : Resolve(c)
  BY <1>2 DEF Resolve
<1>3. CASE \E id \in ID : Transition(id) /\ Mutate /\ UNCHANGED resolved
  <2>1. PICK id \in ID : Transition(id)
    BY <1>3
  <2>2. CASE DoReserve(id)
    BY <2>2, ReserveUpdates
  <2>3. CASE DoBindChild(id)
    BY <2>3, BindChildUpdates
  <2>4. CASE DoBeginDrain(id)
    BY <2>4, BeginDrainUpdates
  <2>5. CASE DoPromoteDrain(id)
    BY <2>5, PromoteDrainUpdates
  <2>6. CASE DoGrant(id)
    BY <2>6, GrantUpdates
  <2>7. CASE DoRevoke(id)
    BY <2>7, RevokeUpdates
  <2>8. CASE DoRevokeDrain(id)
    BY <2>8, RevokeDrainUpdates
  <2>9. CASE DoRevokeUnclaimed(id)
    BY <2>9, RevokeUnclaimedUpdates
  <2>10. CASE DoSettle(id)
    BY <2>10, SettleReleases
  <2>11. CASE DoSettleDrained(id)
    BY <2>11, SettleDrainedReleases
  <2>12. CASE DoReleaseUnclaimed(id)
    BY <2>12, ReleaseUnclaimedReleases
  <2>13. CASE DoFenceUnbound(id)
    BY <2>13, FenceUnboundReleases
  <2> QED BY <2>1, <2>2, <2>3, <2>4, <2>5, <2>6, <2>7, <2>8, <2>9, <2>10, <2>11,
             <2>12, <2>13 DEF Transition
<1> QED BY <1>1, <1>2, <1>3 DEF Next

\* The ledger after an Update: one entry differs and the fence stays.
LEMMA UpdateResult ==
    ASSUME NEW id \in ID, ledger \in Ledger, NEW r \in Reservation,
           ledger' = [ledger EXCEPT !.res[id] = r]
    PROVE  /\ ledger' \in Ledger
           /\ ledger'.fence = ledger.fence
           /\ ledger'.res[id] = r
           /\ \A j \in ID : j # id => ledger'.res[j] = ledger.res[j]
BY DEF Ledger

\* The ledger after a Release: one entry less, and its fence.
LEMMA ReleaseResult ==
    ASSUME NEW id \in ID, ledger \in Ledger, NEW f \in ReleaseFence,
           ledger' = [res |-> [ledger.res EXCEPT ![id] = NoReservation], fence |-> f]
    PROVE  /\ ledger' \in Ledger
           /\ ledger'.fence = f
           /\ ledger'.res[id] = NoReservation
           /\ \A j \in ID : j # id => ledger'.res[j] = ledger.res[j]
<1>1. NoReservation \in Reservation
  BY DEF NoReservation, Reservation, States
<1> QED BY <1>1 DEF Ledger

\* The empty ledger.
LEMMA LedgerInvInit == Init => LedgerInv
<1> SUFFICES ASSUME Init PROVE LedgerInv
  OBVIOUS
<1>1. NoReservation \in Reservation /\ NoFence \in ReleaseFence
  BY DEF NoReservation, Reservation, States, NoFence, ReleaseFence
<1>2. TypeOK
  BY <1>1 DEF Init, TypeOK, NewLedger, Ledger
<1>3. Active(ledger) = {}
  BY DEF Init, NewLedger, Active, NoReservation
<1>4. ledger.fence.token = None /\ ledger.fence.child = None
  BY DEF Init, NewLedger, NoFence
<1> QED BY <1>2, <1>3, <1>4 DEF LedgerInv, validatePersistedLedger, FenceExcludesReservation

\* Every operation keeps the invariant.
LEMMA LedgerInvNext == LedgerInv /\ [Next]_vars => LedgerInv'
<1> SUFFICES ASSUME LedgerInv, [Next]_vars PROVE LedgerInv'
  OBVIOUS
<1> USE DEF LedgerInv
<1>1. ledger \in Ledger /\ resolved \subseteq Children
  BY DEF TypeOK
<1>2. resolved' \subseteq Children
  BY <1>1 DEF Next, Resolve, vars
<1>3. validatePersistedLedger(ledger)'
  <2>1. CASE ledger' = ledger
    BY <2>1 DEF validatePersistedLedger, Active
  <2>2. CASE Mutate
    BY <2>2 DEF Mutate
  <2> QED BY <2>1, <2>2 DEF Next, Resolve, vars
<1>4. CASE ledger' = ledger
  BY <1>1, <1>2, <1>3, <1>4 DEF TypeOK, FenceExcludesReservation, Active
<1>5. ASSUME NEW id \in ID, Update(ledger, ledger', id)
      PROVE  ledger' \in Ledger /\ FenceExcludesReservation'
  <2>1. PICK r \in Reservation :
           /\ ledger' = [ledger EXCEPT !.res[id] = r]
           /\ IF ledger.res[id].state = "Absent"
              THEN ~ releaseFenceMatches(ledger, id, r.epoch, r.lock)
              ELSE r.epoch = ledger.res[id].epoch /\ r.lock = ledger.res[id].lock
    BY <1>5, Zenon DEF Update
  <2>2. /\ ledger' \in Ledger
        /\ ledger'.fence = ledger.fence
        /\ ledger'.res[id] = r
        /\ \A j \in ID : j # id => ledger'.res[j] = ledger.res[j]
    BY <1>1, <2>1, UpdateResult
  <2> QED BY <2>1, <2>2 DEF FenceExcludesReservation, HasReleaseFence, releaseFenceMatches, Active
<1>6. ASSUME NEW id \in ID, Release(ledger, ledger', id, resolved)
      PROVE  ledger' \in Ledger /\ FenceExcludesReservation'
  <2>1. PICK f \in ReleaseFence :
           /\ f.id = id
           /\ ledger' = [res |-> [ledger.res EXCEPT ![id] = NoReservation], fence |-> f]
    BY <1>6, Zenon DEF Release
  <2>2. /\ ledger' \in Ledger
        /\ ledger'.fence = f
        /\ ledger'.res[id] = NoReservation
    BY <1>1, <2>1, ReleaseResult
  <2>3. \A j \in Active(ledger') : j # id
    BY <2>2 DEF Active, NoReservation
  <2> QED BY <2>1, <2>2, <2>3 DEF FenceExcludesReservation, HasReleaseFence, releaseFenceMatches, Active
<1> QED BY <1>1, <1>2, <1>3, <1>4, <1>5, <1>6, StepShape DEF TypeOK

\* The ledger always validates, has its type, and its fence never names a
\* live reservation.
THEOREM LedgerInvariant == Spec => []LedgerInv
<1>1. QED BY LedgerInvInit, LedgerInvNext, PTL DEF Spec

\* The shape of the ledger is an invariant of every managers' interleaving.
THEOREM TypeCorrect == Spec => []TypeOK
BY LedgerInvariant, PTL DEF LedgerInv

\* The acquisition in LastReleaseFence never has a live reservation.
THEOREM FenceExcludes == Spec => []FenceExcludesReservation
BY LedgerInvariant, PTL DEF LedgerInv

-----------------------------------------------------------------------------
(* Action properties, from the invariant and the shape of a step. *)

\* A live reservation with drain provenance has its token.
LEMMA ProvenanceHasToken ==
    ASSUME LedgerInv, NEW id \in Active(ledger), hasDrainProvenance(ledger.res[id])
    PROVE  ledger.res[id].token # None
<1>1. validatePersistedReservation(ledger.res[id])
  BY DEF LedgerInv, validatePersistedLedger
<1> QED BY <1>1 DEF validatePersistedReservation

DrainStep(id) ==
    hasDrainProvenance(ledger.res[id]) =>
       \/ /\ ledger'.res[id].token = ledger.res[id].token
          /\ ledger'.res[id].start = ledger.res[id].start
          /\ ledger'.res[id].child = ledger.res[id].child
       \/ /\ ledger'.res[id] = NoReservation
          /\ HasReleaseFence(ledger', id, ledger.res[id].epoch, ledger.res[id].lock)
          /\ ledger'.fence.token = ledger.res[id].token
          /\ ledger'.fence.child = ledger.res[id].child

IdentityStep(id) ==
    \/ ledger'.res[id] = NoReservation
    \/ /\ ledger'.res[id].lock = ledger.res[id].lock
       /\ ledger'.res[id].epoch = ledger.res[id].epoch
       /\ ledger.res[id].child # None => ledger'.res[id].child = ledger.res[id].child
       /\ ledger'.res[id].rev >= ledger.res[id].rev

ResolvedStep(id) ==
    (ledger.res[id].state = "Granted" /\ id \notin Active(ledger')) =>
       ledger.res[id].child \in resolved

\* Every step treats every live reservation as the action properties say.
LEMMA LiveStep ==
    ASSUME LedgerInv, [Next]_vars, NEW i \in Active(ledger)
    PROVE  DrainStep(i) /\ IdentityStep(i) /\ ResolvedStep(i)
<1>1. /\ ledger \in Ledger
      /\ i \in ID
      /\ ledger.res[i] \in Reservation
      /\ ledger.res[i].state # "Absent"
  BY DEF LedgerInv, TypeOK, Active, Ledger
<1>2. hasDrainProvenance(ledger.res[i]) => ledger.res[i].token # None
  BY ProvenanceHasToken
<1>3. hasDrainProvenance(ledger.res[i]) => ledger.res[i].child # None
  <2>1. validatePersistedReservation(ledger.res[i])
    BY DEF LedgerInv, validatePersistedLedger
  <2> QED BY <2>1, <1>1 DEF validatePersistedReservation, Reservation, States
<1>4. CASE ledger'.res[i] = ledger.res[i]
  BY <1>1, <1>4 DEF DrainStep, IdentityStep, ResolvedStep, Active, Reservation
<1>5. ASSUME Update(ledger, ledger', i)
      PROVE  DrainStep(i) /\ IdentityStep(i) /\ ResolvedStep(i)
  <2>1. PICK r \in Reservation :
           /\ r.state # "Absent"
           /\ ledger' = [ledger EXCEPT !.res[i] = r]
           /\ r.epoch = ledger.res[i].epoch
           /\ r.lock = ledger.res[i].lock
           /\ ledger.res[i].child # None => r.child = ledger.res[i].child
           /\ r.rev >= ledger.res[i].rev
           /\ ledger.res[i].token # None => /\ r.token = ledger.res[i].token
                                            /\ r.start = ledger.res[i].start
    BY <1>1, <1>5, Zenon DEF Update
  <2>2. ledger'.res[i] = r
    BY <1>1, <2>1, UpdateResult
  <2> QED BY <1>1, <1>2, <1>3, <2>1, <2>2 DEF DrainStep, IdentityStep, ResolvedStep, Active
<1>6. ASSUME Release(ledger, ledger', i, resolved)
      PROVE  DrainStep(i) /\ IdentityStep(i) /\ ResolvedStep(i)
  <2>1. PICK f \in ReleaseFence :
           /\ f.id = i
           /\ ledger' = [res |-> [ledger.res EXCEPT ![i] = NoReservation], fence |-> f]
           /\ f.epoch = ledger.res[i].epoch
           /\ f.lock = ledger.res[i].lock
           /\ ledger.res[i].token # None => /\ f.token = ledger.res[i].token
                                            /\ f.child = ledger.res[i].child
           /\ ledger.res[i].state = "Granted" => ledger.res[i].child \in resolved
    BY <1>1, <1>6, Zenon DEF Release
  <2>2. ledger'.res[i] = NoReservation /\ ledger'.fence = f
    BY <1>1, <2>1, ReleaseResult
  <2> QED BY <1>2, <2>1, <2>2
         DEF DrainStep, IdentityStep, ResolvedStep, HasReleaseFence, releaseFenceMatches
<1>7. ASSUME NEW id \in ID, id # i, Update(ledger, ledger', id)
      PROVE  ledger'.res[i] = ledger.res[i]
  BY <1>1, <1>7, UpdateResult DEF Update
<1>8. ASSUME NEW id \in ID, id # i, Release(ledger, ledger', id, resolved)
      PROVE  ledger'.res[i] = ledger.res[i]
  BY <1>1, <1>8, ReleaseResult DEF Release
<1>9. \/ ledger' = ledger
      \/ \E id \in ID : Update(ledger, ledger', id) \/ Release(ledger, ledger', id, resolved)
  BY <1>1, StepShape DEF LedgerInv
<1> QED BY <1>4, <1>5, <1>6, <1>7, <1>8, <1>9

\* A drain session survives every transition until its own settlement.
THEOREM DrainPermanent == Spec => DrainProvenancePermanent
<1>1. LedgerInv /\ [Next]_vars => [\A id \in Active(ledger) : DrainStep(id)]_vars
  BY LiveStep
<1>2. Spec => [][\A id \in Active(ledger) : DrainStep(id)]_vars
  BY <1>1, LedgerInvariant, PTL DEF Spec
<1> QED BY <1>2 DEF DrainProvenancePermanent, DrainStep

\* Acquisition, epoch, leaf and control revision of a live reservation.
THEOREM IdentityStable == Spec => ReservationIdentityStable
<1>1. LedgerInv /\ [Next]_vars => [\A id \in Active(ledger) : IdentityStep(id)]_vars
  BY LiveStep
<1>2. Spec => [][\A id \in Active(ledger) : IdentityStep(id)]_vars
  BY <1>1, LedgerInvariant, PTL DEF Spec
<1> QED BY <1>2 DEF ReservationIdentityStable, IdentityStep

\* No release without proof of outcome takes a granted reservation.
THEOREM GrantedResolved == Spec => GrantedEndsResolved
<1>1. LedgerInv /\ [Next]_vars => [\A id \in Active(ledger) : ResolvedStep(id)]_vars
  BY LiveStep
<1>2. Spec => [][\A id \in Active(ledger) : ResolvedStep(id)]_vars
  BY <1>1, LedgerInvariant, PTL DEF Spec
<1> QED BY <1>2 DEF GrantedEndsResolved, ResolvedStep

-----------------------------------------------------------------------------
(* The ledger implements DeviceClaim. *)

ClaimMap == [id \in ID |-> ClaimOf(ledger.res[id])]

\* The abstract claims after one entry has changed.
LEMMA ClaimMapUpdate ==
    ASSUME ledger \in Ledger, ledger' \in Ledger, NEW i \in ID,
           \A j \in ID : j # i => ledger'.res[j] = ledger.res[j]
    PROVE  ClaimMap' = [ClaimMap EXCEPT ![i] = ClaimOf(ledger'.res[i])]
BY Zenon DEF ClaimMap, ClaimOf

\* Every operation is a step of the abstract claim or leaves it alone.
LEMMA ClaimStep ==
    ASSUME LedgerInv, [Next]_vars
    PROVE  [Claim!Next]_ClaimMap
<1>1. ledger \in Ledger
  BY DEF LedgerInv, TypeOK
<1>2. CASE ledger' = ledger
  BY <1>2 DEF ClaimMap
<1>3. ASSUME NEW i \in ID, Update(ledger, ledger', i)
      PROVE  [Claim!Next]_ClaimMap
  <2>1. PICK r \in Reservation :
           /\ r.state # "Absent"
           /\ ledger' = [ledger EXCEPT !.res[i] = r]
           /\ ledger.res[i].state = "Absent" =>
                 /\ r.state = "Reserved"
                 /\ \A j \in Active(ledger) : DeviceOf(j) # DeviceOf(i)
           /\ ledger.res[i].state = "Revoked" => r.state = "Revoked"
           /\ ledger.res[i].state = "Granted" => r.state \in {"Granted", "Revoked"}
    BY <1>3, Zenon DEF Update
  <2>2. /\ ledger' \in Ledger
        /\ ledger'.res[i] = r
        /\ \A j \in ID : j # i => ledger'.res[j] = ledger.res[j]
    BY <1>1, <2>1, UpdateResult
  <2>3. ClaimMap' = [ClaimMap EXCEPT ![i] = ClaimOf(r)]
    BY <1>1, <2>2, ClaimMapUpdate
  <2>4. ClaimMap[i] = ClaimOf(ledger.res[i])
    BY DEF ClaimMap
  <2>5. CASE ledger.res[i].state = "Absent"
    <3>1. ClaimOf(r) = "held"
      BY <2>1, <2>5 DEF ClaimOf
    <3>2. \A u \in ID : u[2] = i[2] => ClaimMap[u] = "free"
      BY <2>1, <2>5 DEF ClaimMap, ClaimOf, Active, DeviceOf
    <3>3. Claim!Take(i)
      BY <2>3, <3>1, <3>2 DEF Claim!Take, Claim!Target, ID, ClaimMap
    <3> QED BY <3>3 DEF Claim!Next, Claim!Target, ID
  <2>6. CASE ClaimOf(r) = ClaimMap[i]
    BY <2>3, <2>6, Zenon DEF ClaimMap
  <2>7. CASE ClaimMap[i] = "held" /\ ClaimOf(r) = "permitted"
    <3>1. Claim!Permit(i)
      BY <2>3, <2>7 DEF Claim!Permit, ClaimMap
    <3> QED BY <3>1 DEF Claim!Next, Claim!Target, ID
  <2>8. CASE ClaimMap[i] \in {"held", "permitted"} /\ ClaimOf(r) = "fenced"
    <3>1. Claim!Fence(i)
      BY <2>3, <2>8 DEF Claim!Fence, ClaimMap
    <3> QED BY <3>1 DEF Claim!Next, Claim!Target, ID
  <2>9. ledger.res[i].state \in States /\ r.state \in States
    BY <1>1 DEF Ledger, Reservation
  <2>10. \/ ledger.res[i].state = "Absent"
         \/ ClaimOf(r) = ClaimMap[i]
         \/ ClaimMap[i] = "held" /\ ClaimOf(r) = "permitted"
         \/ ClaimMap[i] \in {"held", "permitted"} /\ ClaimOf(r) = "fenced"
    BY <2>1, <2>4, <2>9 DEF ClaimOf, States
  <2> QED BY <2>5, <2>6, <2>7, <2>8, <2>10
<1>4. ASSUME NEW i \in ID, Release(ledger, ledger', i, resolved)
      PROVE  [Claim!Next]_ClaimMap
  <2>1. PICK f \in ReleaseFence :
           ledger' = [res |-> [ledger.res EXCEPT ![i] = NoReservation], fence |-> f]
    BY <1>4 DEF Release
  <2>2. /\ ledger' \in Ledger
        /\ ledger'.res[i] = NoReservation
        /\ \A j \in ID : j # i => ledger'.res[j] = ledger.res[j]
    BY <1>1, <2>1, ReleaseResult
  <2>3. ClaimMap' = [ClaimMap EXCEPT ![i] = "free"]
    <3>1. ClaimOf(NoReservation) = "free"
      BY DEF ClaimOf, NoReservation
    <3> QED BY <1>1, <2>2, <3>1, ClaimMapUpdate
  <2>4. CASE ClaimMap[i] = "free"
    BY <2>3, <2>4, Zenon DEF ClaimMap
  <2>5. CASE ClaimMap[i] # "free"
    <3>1. Claim!Free(i)
      BY <2>3, <2>5 DEF Claim!Free, ClaimMap
    <3> QED BY <3>1 DEF Claim!Next, Claim!Target, ID
  <2> QED BY <2>4, <2>5
<1> QED BY <1>1, <1>2, <1>3, <1>4, StepShape DEF LedgerInv

\* The ledger's transitions, in any order and with any arguments, implement
\* exclusive claims that are never permitted again once fenced.
THEOREM ClaimRefinement == Spec => ImplementsDeviceClaim
<1>1. Init => Claim!Init
  BY DEF Init, NewLedger, NoReservation, ClaimOf, Claim!Init, Claim!Target, ID
<1>2. LedgerInv /\ [Next]_vars => [Claim!Next]_ClaimMap
  BY ClaimStep
<1>3. LedgerInv /\ [Next]_vars => [Claim!Next]_([id \in ID |-> ClaimOf(ledger.res[id])])
  BY <1>2 DEF ClaimMap
<1> QED BY <1>1, <1>3, LedgerInvariant, PTL DEF Spec, ImplementsDeviceClaim, Claim!Spec

-----------------------------------------------------------------------------
(* Safety transitions are never refused by validatePersistedLedger. *)

\* A ledger with one entry less still validates.
LEMMA DeletionValidates ==
    ASSUME NEW l \in Ledger, validatePersistedLedger(l), NEW id \in ID, NEW f \in ReleaseFence,
           (f.token = None) <=> (f.child = None)
    PROVE  validatePersistedLedger([res |-> [l.res EXCEPT ![id] = NoReservation], fence |-> f])
<1> DEFINE m == [res |-> [l.res EXCEPT ![id] = NoReservation], fence |-> f]
<1>1. \A j \in Active(m) : j \in Active(l) /\ m.res[j] = l.res[j]
  BY DEF Active, NoReservation, Ledger
<1>2. m.fence = f
  OBVIOUS
<1> HIDE DEF m
<1>3. validatePersistedLedger(m)
  BY <1>1, <1>2 DEF validatePersistedLedger
<1> QED BY <1>3 DEF m

\* So does a ledger with one entry revoked.
LEMMA RevocationValidates ==
    ASSUME NEW l \in Ledger, validatePersistedLedger(l), NEW id \in Active(l), NEW r \in Nat,
           l.res[id].child # None
    PROVE  validatePersistedLedger(
               [l EXCEPT !.res[id] = [l.res[id] EXCEPT !.rev = r, !.state = "Revoked"]])
<1> DEFINE new == [l.res[id] EXCEPT !.rev = r, !.state = "Revoked"]
           m == [l EXCEPT !.res[id] = new]
<1>1. id \in ID /\ l.res[id] \in Reservation
  BY DEF Active, Ledger
<1>2. /\ new.state = "Revoked"           /\ new.epoch = l.res[id].epoch
      /\ new.lock = l.res[id].lock       /\ new.child = l.res[id].child
      /\ new.token = l.res[id].token     /\ new.start = l.res[id].start
      /\ new.done = l.res[id].done
  BY <1>1 DEF Reservation
<1>3. validatePersistedReservation(l.res[id])
  BY DEF validatePersistedLedger
<1> HIDE DEF new
<1>4. validatePersistedReservation(new)
  <2>1. hasDrainProvenance(new) <=> hasDrainProvenance(l.res[id])
    BY <1>2 DEF hasDrainProvenance
  <2> QED BY <1>2, <1>3, <2>1 DEF validatePersistedReservation
<1>5. m.fence = l.fence /\ m.res[id] = new /\ \A j \in ID : j # id => m.res[j] = l.res[j]
  BY <1>1 DEF Ledger
<1> HIDE DEF m
<1>6. Active(m) = Active(l)
  BY <1>1, <1>2, <1>5 DEF Active
<1>7. \A j \in Active(m) : m.res[j].child = l.res[j].child /\ validatePersistedReservation(m.res[j])
  BY <1>2, <1>4, <1>5, <1>6 DEF Active, validatePersistedLedger
<1>8. validatePersistedLedger(m)
  BY <1>5, <1>6, <1>7 DEF validatePersistedLedger
<1> QED BY <1>8 DEF m, new

\* "Safety transitions must remain writable" (Store.Mutate): from a ledger that
\* validates, validatePersistedLedger refuses no settlement, release or fence of
\* a target and no revocation of a reservation bound to a leaf, whatever the
\* other reservations are. What Revoke does to an unbound one is RevokeNeedsLeaf.
THEOREM SafetyTransitionsWritable ==
    ASSUME LedgerInv, NEW id \in ID,
           \/ DoSettle(id) \/ DoSettleDrained(id) \/ DoReleaseUnclaimed(id)
           \/ DoFenceUnbound(id) \/ DoRevokeDrain(id) \/ DoRevokeUnclaimed(id)
           \/ DoRevoke(id) /\ ledger.res[id].child # None
    PROVE  Mutate
<1>1. ledger \in Ledger /\ validatePersistedLedger(ledger)
  BY DEF LedgerInv, TypeOK
<1>2. ASSUME NEW e \in Epochs, NEW k \in Locks, recordReleaseFence(ledger, ledger', id, e, k)
      PROVE  Mutate
  <2> DEFINE f == [id |-> id, epoch |-> e, lock |-> k, token |-> None, child |-> None]
  <2>1. f \in ReleaseFence /\ f.token = None /\ f.child = None
    BY BoundsAssumption DEF ReleaseFence
  <2>2. ledger' = [res |-> [ledger.res EXCEPT ![id] = NoReservation], fence |-> f]
    BY <1>2 DEF recordReleaseFence
  <2> HIDE DEF f
  <2> QED BY <1>1, <2>1, <2>2, DeletionValidates DEF Mutate
<1>3. ASSUME NEW e \in Epochs, NEW k \in Locks, NEW c \in Children, NEW t \in Tokens,
             recordDrainReleaseFence(ledger, ledger', id, e, k, c, t)
      PROVE  Mutate
  <2> DEFINE f == [id |-> id, epoch |-> e, lock |-> k, token |-> t, child |-> c]
  <2>1. f \in ReleaseFence /\ f.token # None /\ f.child # None
    BY BoundsAssumption, NoneAssumption DEF ReleaseFence
  <2>2. ledger' = [res |-> [ledger.res EXCEPT ![id] = NoReservation], fence |-> f]
    BY <1>3 DEF recordDrainReleaseFence
  <2> HIDE DEF f
  <2> QED BY <1>1, <2>1, <2>2, DeletionValidates DEF Mutate
<1>4. ASSUME NEW r \in Revs, ledger.res[id].child # None,
             ledger.res[id].state \in {"Reserved", "Bound", "Draining", "Granted", "Revoked"},
             ledger' = [ledger EXCEPT !.res[id] =
                           [ledger.res[id] EXCEPT !.rev = r, !.state = "Revoked"]]
      PROVE  Mutate
  <2>1. id \in Active(ledger) /\ r \in Nat
    BY <1>4, BoundsAssumption DEF Active
  <2> QED BY <1>1, <1>4, <2>1, RevocationValidates, Zenon DEF Mutate
<1>5. CASE DoSettle(id)
  BY <1>2, <1>5 DEF DoSettle, Settle
<1>6. CASE DoSettleDrained(id)
  BY <1>3, <1>6 DEF DoSettleDrained, SettleDrainedReservation
<1>7. CASE DoReleaseUnclaimed(id)
  BY <1>2, <1>7 DEF DoReleaseUnclaimed, ReleaseUnclaimedAtEpoch
<1>8. CASE DoFenceUnbound(id)
  BY <1>2, <1>8 DEF DoFenceUnbound, FenceUnboundAcquisition
<1>9. CASE DoRevokeDrain(id)
  BY <1>4, <1>9, NoneAssumption, Zenon DEF DoRevokeDrain, RevokeDrain
<1>10. CASE DoRevokeUnclaimed(id)
  BY <1>4, <1>10, Zenon DEF DoRevokeUnclaimed, RevokeUnclaimedAtEpoch
<1>11. CASE DoRevoke(id) /\ ledger.res[id].child # None
  BY <1>4, <1>11, Zenon DEF DoRevoke, Revoke
<1> QED BY <1>5, <1>6, <1>7, <1>8, <1>9, <1>10, <1>11

\* The transition revokeClaimedReservation makes for a claimed leaf, Revoke, takes
\* a reservation in any state without a drain, but Store.Mutate writes its result
\* exactly when the reservation is bound: the revoked form of an unbound one has
\* no leaf, which validatePersistedReservation refuses.
THEOREM RevokeNeedsLeaf ==
    ASSUME LedgerInv, NEW id \in ID, DoRevoke(id)
    PROVE  Mutate <=> ledger.res[id].state # "Reserved"
<1>1. ledger \in Ledger /\ validatePersistedLedger(ledger)
  BY DEF LedgerInv, TypeOK
<1>2. PICK r \in Revs : Revoke(ledger, ledger', id, r)
  BY DEF DoRevoke
<1>3. id \in Active(ledger) /\ ledger.res[id] \in Reservation
  BY <1>1, <1>2 DEF Revoke, Active, Ledger
<1>4. (ledger.res[id].child = None) <=> (ledger.res[id].state = "Reserved")
  BY <1>1, <1>2, <1>3 DEF validatePersistedLedger, validatePersistedReservation, Revoke
<1>5. CASE ledger.res[id].child # None
  BY <1>4, <1>5, SafetyTransitionsWritable
<1>6. CASE ledger.res[id].child = None
  <2>1. /\ id \in Active(ledger') /\ ledger'.res[id].state = "Revoked"
        /\ ledger'.res[id].child = None
    BY <1>1, <1>2, <1>3, <1>6 DEF Revoke, Active, Ledger, Reservation
  <2>2. ~ validatePersistedReservation(ledger'.res[id])
    BY <2>1 DEF validatePersistedReservation
  <2>. QED BY <1>4, <1>6, <2>1, <2>2 DEF Mutate, validatePersistedLedger
<1>. QED BY <1>5, <1>6

=============================================================================
